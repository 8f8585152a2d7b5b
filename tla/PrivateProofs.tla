----------------------------- MODULE PrivateProofs -----------------------------
(***************************************************************************)
(* Proofs about PrivatePosition, for every set of reserves, offsets and    *)
(* prices, and for owners who wait as well as for those who do not.        *)
(***************************************************************************)
EXTENDS PrivatePosition, FiniteSetTheorems, TLAPS

Positions == [collateral_tokens : Nat, borrow_tokens : Nat]

\* A position nobody can read, or one whose tokens have the addresses that go
\* with them in the account.
Backed(position, collateral_reserve, borrow_reserve) ==
  \/ position = Unreadable
  \/ /\ position \in Positions
     /\ position.collateral_tokens > 0 => collateral_reserve # NoReserve
     /\ position.borrow_tokens > 0 => borrow_reserve # NoReserve

IsAccount(a) ==
  a = [ enc_state          |-> a.enc_state,
        nonce              |-> a.nonce,
        collateral_reserve |-> a.collateral_reserve,
        borrow_reserve     |-> a.borrow_reserve,
        is_liquidatable    |-> a.is_liquidatable,
        is_initialized     |-> a.is_initialized ]

IsComputation(c) ==
  /\ c = [ circuit |-> c.circuit, nonce |-> c.nonce, amount |-> c.amount,
           prices |-> c.prices, output |-> c.output ]
  /\ c.circuit \in Updates \cup {"check_health_v2"}
  /\ c.amount \in Nat
  /\ c.circuit = "check_health_v2" => c.prices \in Prices

Answered(c) == c.output \notin {NoOutput, Failure}

\* What a computation in flight is entitled to find when it runs, and brings
\* when it has run.
Entitled(c, a) ==
  /\ c.circuit = "init_position_v2" /\ Answered(c) => c.output.position = init_position_v2
  /\ c.circuit \in {"add_collateral_v2", "add_borrow_v2"} =>
       /\ a.is_initialized
       /\ Answered(c) => Backed(c.output.position, a.collateral_reserve, a.borrow_reserve)
  /\ c.circuit = "add_collateral_v2" => a.collateral_reserve # NoReserve
  /\ c.circuit = "add_borrow_v2" => a.borrow_reserve # NoReserve

AccountInv(a) ==
  /\ IsAccount(a)
  /\ Backed(a.enc_state.position, a.collateral_reserve, a.borrow_reserve)
  /\ ~a.is_initialized => a.enc_state.position = Unreadable

PendingInv(p, a) ==
  /\ p = [o \in DOMAIN p |-> p[o]]
  /\ \A o \in DOMAIN p : IsComputation(p[o]) /\ Entitled(p[o], a)

\* The inductive invariant.
Inv == AccountInv(account) /\ PendingInv(pending, account)

-------------------------------------------------------------------------------
\* A step that assigns to one field leaves the others alone.
LEMMA Assignments ==
  ASSUME NEW a, IsAccount(a), NEW b, NEW x
  PROVE  /\ b = [a EXCEPT !.enc_state = x] =>
              /\ IsAccount(b) /\ b.enc_state = x
              /\ b.is_initialized = a.is_initialized
              /\ b.collateral_reserve = a.collateral_reserve
              /\ b.borrow_reserve = a.borrow_reserve
         /\ b = [a EXCEPT !.collateral_reserve = x] =>
              /\ IsAccount(b) /\ b.collateral_reserve = x
              /\ b.enc_state = a.enc_state
              /\ b.is_initialized = a.is_initialized
              /\ b.borrow_reserve = a.borrow_reserve
         /\ b = [a EXCEPT !.borrow_reserve = x] =>
              /\ IsAccount(b) /\ b.borrow_reserve = x
              /\ b.enc_state = a.enc_state
              /\ b.is_initialized = a.is_initialized
              /\ b.collateral_reserve = a.collateral_reserve
         /\ b = [a EXCEPT !.is_initialized = x] =>
              /\ IsAccount(b) /\ b.is_initialized = x
              /\ b.enc_state = a.enc_state
              /\ b.collateral_reserve = a.collateral_reserve
              /\ b.borrow_reserve = a.borrow_reserve
         /\ b = [a EXCEPT !.nonce = x] \/ b = [a EXCEPT !.is_liquidatable = x] =>
              /\ IsAccount(b)
              /\ b.enc_state = a.enc_state
              /\ b.is_initialized = a.is_initialized
              /\ b.collateral_reserve = a.collateral_reserve
              /\ b.borrow_reserve = a.borrow_reserve
  BY DEF IsAccount

\* Setting an account up leaves its position and whether it is initialised.
LEMMA SetUp ==
  ASSUME NEW a, IsAccount(a), NEW d, d = init_private(a)
  PROVE  /\ IsAccount(d)
         /\ d.enc_state = a.enc_state
         /\ d.is_initialized = a.is_initialized
  <1>1. PICK b : b = [a EXCEPT !.collateral_reserve = NoReserve]
    OBVIOUS
  <1>2. PICK c : c = [b EXCEPT !.borrow_reserve = NoReserve]
    OBVIOUS
  <1>3. d = [c EXCEPT !.is_liquidatable = FALSE]
    BY <1>1, <1>2 DEF init_private
  <1>4. IsAccount(b) /\ b.enc_state = a.enc_state /\ b.is_initialized = a.is_initialized
    BY <1>1, Assignments
  <1>5. IsAccount(c) /\ c.enc_state = a.enc_state /\ c.is_initialized = a.is_initialized
    BY <1>2, <1>4, Assignments
  <1> QED BY <1>3, <1>5, Assignments

\* Storing an output replaces the position and keeps the addresses.
LEMMA Stored ==
  ASSUME NEW a, IsAccount(a), NEW output, NEW d
  PROVE  /\ d = add_v2_callback(a, output) =>
              /\ IsAccount(d) /\ d.enc_state = output
              /\ d.is_initialized = a.is_initialized
              /\ d.collateral_reserve = a.collateral_reserve
              /\ d.borrow_reserve = a.borrow_reserve
         /\ d = init_position_v2_callback(a, output) =>
              /\ IsAccount(d) /\ d.enc_state = output
              /\ d.is_initialized
              /\ d.collateral_reserve = a.collateral_reserve
              /\ d.borrow_reserve = a.borrow_reserve
  <1>1. PICK b : b = [a EXCEPT !.enc_state = output]
    OBVIOUS
  <1>2. PICK c : c = [b EXCEPT !.nonce = output.nonce]
    OBVIOUS
  <1>3. add_v2_callback(a, output) = c
    BY <1>1, <1>2 DEF add_v2_callback
  <1>4. PICK e : e = [c EXCEPT !.is_initialized = TRUE]
    OBVIOUS
  <1>5. init_position_v2_callback(a, output) = e
    BY <1>1, <1>2, <1>4 DEF init_position_v2_callback
  <1>6. /\ IsAccount(b) /\ b.enc_state = output
        /\ b.is_initialized = a.is_initialized
        /\ b.collateral_reserve = a.collateral_reserve
        /\ b.borrow_reserve = a.borrow_reserve
    BY <1>1, Assignments
  <1>7. /\ IsAccount(c) /\ c.enc_state = output
        /\ c.is_initialized = a.is_initialized
        /\ c.collateral_reserve = a.collateral_reserve
        /\ c.borrow_reserve = a.borrow_reserve
    BY <1>2, <1>6, Assignments
  <1>8. /\ IsAccount(e) /\ e.enc_state = output
        /\ e.is_initialized
        /\ e.collateral_reserve = a.collateral_reserve
        /\ e.borrow_reserve = a.borrow_reserve
    BY <1>4, <1>7, Assignments
  <1> QED BY <1>3, <1>5, <1>7, <1>8

\* Queueing a computation at a new offset adds it and leaves the others.
LEMMA Queued ==
  ASSUME NEW a, NEW p, NEW b, PendingInv(p, b), NEW offset, offset \notin DOMAIN p,
         NEW circuit \in Updates \cup {"check_health_v2"},
         NEW amount \in Nat, NEW prices,
         \A o \in DOMAIN p : Entitled(p[o], a),
         circuit \in {"add_collateral_v2", "add_borrow_v2"} => a.is_initialized,
         circuit = "add_collateral_v2" => a.collateral_reserve # NoReserve,
         circuit = "add_borrow_v2" => a.borrow_reserve # NoReserve,
         circuit = "check_health_v2" => prices \in Prices,
         NEW source
  PROVE  PendingInv(queue_computation(source, p, offset, circuit, amount, prices), a)
  <1> DEFINE c == [ circuit |-> circuit, nonce |-> source.nonce, amount |-> amount,
                    prices |-> prices, output |-> NoOutput ]
  <1> DEFINE q == queue_computation(source, p, offset, circuit, amount, prices)
  <1>1. /\ DOMAIN q = DOMAIN p \cup {offset}
        /\ q = [o \in DOMAIN q |-> q[o]]
        /\ q[offset] = c
        /\ \A o \in DOMAIN p : q[o] = p[o]
    BY DEF queue_computation
  <1>2. IsComputation(c) /\ Entitled(c, a)
    BY DEF IsComputation, Entitled, Answered
  <1> HIDE DEF c, q
  <1>3. \A o \in DOMAIN q : IsComputation(q[o]) /\ Entitled(q[o], a)
    BY <1>1, <1>2 DEF PendingInv
  <1> QED BY <1>1, <1>3 DEF PendingInv, q

\* A step that queues nothing and answers nothing leaves the computations as
\* they were; what they are entitled to is kept when the account keeps its
\* addresses and stays initialised.
LEMMA StillEntitled ==
  ASSUME NEW c, NEW a, NEW b, Entitled(c, a),
         a.is_initialized => b.is_initialized,
         a.collateral_reserve # NoReserve => b.collateral_reserve # NoReserve,
         a.borrow_reserve # NoReserve => b.borrow_reserve # NoReserve
  PROVE  Entitled(c, b)
  BY DEF Entitled, Backed

\* The initial state satisfies the invariant.
LEMMA InitInv == Init => Inv
  <1> SUFFICES ASSUME Init
               PROVE  Inv
    OBVIOUS
  <1>1. account = NewAccount /\ pending = << >>
    BY DEF Init
  <1>2. AccountInv(account)
    BY <1>1 DEF NewAccount, AccountInv, IsAccount, Backed
  <1>3. DOMAIN pending = {}
    BY <1>1
  <1>4. pending = [o \in DOMAIN pending |-> pending[o]]
    BY <1>1
  <1>5. PendingInv(pending, account)
    BY <1>3, <1>4 DEF PendingInv
  <1> QED BY <1>2, <1>5 DEF Inv

\* Setting an account up clears the addresses, but only when it is not
\* initialised: then it has no position, and no change to one is in flight.
LEMMA InitPrivateStep ==
  ASSUME Inv, NEW offset \in Offsets, init_private_obligation(offset)
  PROVE  Inv'
  <1>1. /\ ~account.is_initialized
        /\ offset \notin DOMAIN pending
        /\ account' = init_private(account)
        /\ pending' = queue_computation(account, pending, offset, "init_position_v2", 0, NoPrices)
    BY DEF init_private_obligation, CanInitPrivate, CanQueue
  <1>2. account.enc_state.position = Unreadable
    BY <1>1 DEF Inv, AccountInv
  <1>3. /\ account'.enc_state = account.enc_state
        /\ account'.is_initialized = account.is_initialized
        /\ IsAccount(account')
    BY <1>1, SetUp DEF Inv, AccountInv
  <1>4. AccountInv(account')
    BY <1>1, <1>2, <1>3 DEF AccountInv, Backed
  <1>5. \A o \in DOMAIN pending : Entitled(pending[o], account')
    BY <1>1 DEF Inv, PendingInv, Entitled
  <1>6. PendingInv(pending', account')
    BY <1>1, <1>5, Queued DEF Inv, Updates
  <1> QED BY <1>4, <1>6 DEF Inv

\* A deposit names the reserve before its tokens are added.
LEMMA DepositStep ==
  ASSUME Inv, NEW offset \in Offsets, NEW r \in Reserves, NEW amount \in 0 .. MaxAdd,
         private_deposit_collateral(offset, r, amount)
  PROVE  Inv'
  <1>1. /\ account.is_initialized
        /\ offset \notin DOMAIN pending
        /\ account' = with_collateral_reserve(account, r)
        /\ pending' =
             queue_computation(account, pending, offset, "add_collateral_v2", amount, NoPrices)
    BY DEF private_deposit_collateral, CanPrivateDeposit, CanQueue
  <1> DEFINE key == IF account.collateral_reserve = NoReserve THEN r ELSE account.collateral_reserve
  <1>0. account' = [account EXCEPT !.collateral_reserve = key] /\ key # NoReserve
    BY <1>1, AddressAssumption DEF with_collateral_reserve
  <1> HIDE DEF key
  <1>2. /\ account'.enc_state = account.enc_state
        /\ account'.is_initialized = account.is_initialized
        /\ account'.borrow_reserve = account.borrow_reserve
        /\ account'.collateral_reserve # NoReserve
        /\ IsAccount(account')
    BY <1>0, Assignments DEF Inv, AccountInv
  <1>3. AccountInv(account')
    BY <1>1, <1>2 DEF Inv, AccountInv, Backed
  <1>4. \A o \in DOMAIN pending : Entitled(pending[o], account')
    BY <1>2, StillEntitled DEF Inv, PendingInv
  <1>5. amount \in Nat
    BY PositionAssumption, CapAssumption
  <1>6. PendingInv(pending', account')
    BY <1>1, <1>2, <1>4, <1>5, Queued DEF Inv, Updates
  <1> QED BY <1>3, <1>6 DEF Inv

\* So does a borrow.
LEMMA BorrowStep ==
  ASSUME Inv, NEW offset \in Offsets, NEW r \in Reserves, NEW amount \in 0 .. MaxAdd,
         private_borrow(offset, r, amount)
  PROVE  Inv'
  <1>1. /\ account.is_initialized
        /\ offset \notin DOMAIN pending
        /\ account' = with_borrow_reserve(account, r)
        /\ pending' = queue_computation(account, pending, offset, "add_borrow_v2", amount, NoPrices)
    BY DEF private_borrow, CanPrivateBorrow, CanQueue
  <1> DEFINE key == IF account.borrow_reserve = NoReserve THEN r ELSE account.borrow_reserve
  <1>0. account' = [account EXCEPT !.borrow_reserve = key] /\ key # NoReserve
    BY <1>1, AddressAssumption DEF with_borrow_reserve
  <1> HIDE DEF key
  <1>2. /\ account'.enc_state = account.enc_state
        /\ account'.is_initialized = account.is_initialized
        /\ account'.collateral_reserve = account.collateral_reserve
        /\ account'.borrow_reserve # NoReserve
        /\ IsAccount(account')
    BY <1>0, Assignments DEF Inv, AccountInv
  <1>3. AccountInv(account')
    BY <1>1, <1>2 DEF Inv, AccountInv, Backed
  <1>4. \A o \in DOMAIN pending : Entitled(pending[o], account')
    BY <1>2, StillEntitled DEF Inv, PendingInv
  <1>5. amount \in Nat
    BY PositionAssumption, CapAssumption
  <1>6. PendingInv(pending', account')
    BY <1>1, <1>2, <1>4, <1>5, Queued DEF Inv, Updates
  <1> QED BY <1>3, <1>6 DEF Inv

\* A check only adds itself to what is in flight.
LEMMA CheckStep ==
  ASSUME Inv, NEW offset \in Offsets, NEW prices \in Prices,
         private_check_liquidatable(offset, prices)
  PROVE  Inv'
  <1>1. /\ offset \notin DOMAIN pending
        /\ account' = account
        /\ pending' = queue_computation(account, pending, offset, "check_health_v2", 0, prices)
    BY DEF private_check_liquidatable, CanQueue
  <1>2. PendingInv(pending, account) /\ \A o \in DOMAIN pending : Entitled(pending[o], account)
    BY DEF Inv, PendingInv
  <1>3. PendingInv(pending', account)
    BY <1>1, <1>2, Queued
  <1> QED BY <1>1, <1>3 DEF Inv

\* A liquidation clears the flag and nothing else.
LEMMA ExecuteStep ==
  ASSUME Inv, execute_private_liquidation
  PROVE  Inv'
  <1>1. /\ account' = [account EXCEPT !.is_liquidatable = FALSE]
        /\ pending' = pending
    BY DEF execute_private_liquidation
  <1>2. /\ account'.enc_state = account.enc_state
        /\ account'.is_initialized = account.is_initialized
        /\ account'.collateral_reserve = account.collateral_reserve
        /\ account'.borrow_reserve = account.borrow_reserve
        /\ IsAccount(account')
    BY <1>1, Assignments DEF Inv, AccountInv
  <1>3. AccountInv(account')
    BY <1>2 DEF Inv, AccountInv
  <1>4. PendingInv(pending', account')
    BY <1>1, <1>2, StillEntitled DEF Inv, PendingInv
  <1> QED BY <1>3, <1>4 DEF Inv

\* Answering a computation in flight leaves the others as they are.
LEMMA AnswerStep ==
  ASSUME Inv, NEW offset \in DOMAIN pending, NEW x,
         account' = account,
         pending' = [pending EXCEPT ![offset].output = x],
         Entitled([pending[offset] EXCEPT !.output = x], account)
  PROVE  Inv'
  <1> DEFINE c == [pending[offset] EXCEPT !.output = x]
  <1>1. IsComputation(c)
    BY DEF Inv, PendingInv, IsComputation
  <1>2. /\ DOMAIN pending' = DOMAIN pending
        /\ pending' = [o \in DOMAIN pending' |-> pending'[o]]
        /\ pending'[offset] = c
        /\ \A o \in DOMAIN pending \ {offset} : pending'[o] = pending[o]
    BY DEF Inv, PendingInv
  <1> HIDE DEF c
  <1>3. \A o \in DOMAIN pending' : IsComputation(pending'[o]) /\ Entitled(pending'[o], account')
    BY <1>1, <1>2 DEF Inv, PendingInv, c
  <1>4. PendingInv(pending', account')
    BY <1>2, <1>3 DEF PendingInv
  <1> QED BY <1>4 DEF Inv

\* The fields of a computation other than its output are not the circuit's.
LEMMA OutputOnly ==
  ASSUME NEW c, IsComputation(c), NEW x
  PROVE  LET d == [c EXCEPT !.output = x]
         IN  d.circuit = c.circuit /\ d.output = x
  BY DEF IsComputation

\* A circuit that reads the account finds a position with its addresses; what
\* it adds belongs to the reserve that the instruction named.
LEMMA RunStep ==
  ASSUME Inv, NEW offset \in DOMAIN pending, Run(offset)
  PROVE  Inv'
  <1> DEFINE c == pending[offset]
  <1>1. PICK x \in Outputs(account, c, FreshNonce(account, pending)) :
          pending' = [pending EXCEPT ![offset].output = x]
    BY DEF Run
  <1>2. account' = account
    BY DEF Run
  <1> DEFINE d == [c EXCEPT !.output = x]
  <1>3. IsComputation(c) /\ Entitled(c, account)
    BY DEF Inv, PendingInv
  <1>4. d.circuit = c.circuit /\ d.output = x
    BY <1>3, OutputOnly
  <1>5. Backed(Input(account, c), account.collateral_reserve, account.borrow_reserve)
    BY DEF Inv, AccountInv, Input, decrypt, Backed
  <1>6. c.circuit = "init_position_v2" => x.position = init_position_v2
    BY <1>1 DEF Outputs
  <1>7. ASSUME c.circuit \in {"add_collateral_v2", "add_borrow_v2"}
        PROVE  Backed(x.position, account.collateral_reserve, account.borrow_reserve)
    <2>1. x.position = Added(Input(account, c), c)
      BY <1>1, <1>7 DEF Outputs
    <2>2. CASE Input(account, c) = Unreadable
      BY <2>1, <2>2 DEF Added, Backed
    <2>3. CASE Input(account, c) # Unreadable
      <3>1. /\ Input(account, c) \in Positions
            /\ Input(account, c).collateral_tokens > 0 => account.collateral_reserve # NoReserve
            /\ Input(account, c).borrow_tokens > 0 => account.borrow_reserve # NoReserve
        BY <1>5, <2>3 DEF Backed
      <3>2. c.amount \in Nat
        BY <1>3 DEF IsComputation
      <3>3. CASE c.circuit = "add_collateral_v2"
        <4>1. account.collateral_reserve # NoReserve
          BY <1>3, <3>3 DEF Entitled
        <4>2. x.position = add_collateral_v2(Input(account, c), c.amount)
          BY <2>1, <2>3, <3>3 DEF Added
        <4>3. /\ x.position \in Positions
              /\ x.position.borrow_tokens = Input(account, c).borrow_tokens
          BY <3>1, <3>2, <4>2 DEF add_collateral_v2, Positions
        <4> QED BY <3>1, <4>1, <4>3 DEF Backed
      <3>4. CASE c.circuit = "add_borrow_v2"
        <4>1. account.borrow_reserve # NoReserve
          BY <1>3, <3>4 DEF Entitled
        <4>2. x.position = add_borrow_v2(Input(account, c), c.amount)
          BY <2>1, <2>3, <3>4 DEF Added
        <4>3. /\ x.position \in Positions
              /\ x.position.collateral_tokens = Input(account, c).collateral_tokens
          BY <3>1, <3>2, <4>2 DEF add_borrow_v2, Positions
        <4> QED BY <3>1, <4>1, <4>3 DEF Backed
      <3> QED BY <1>7, <3>3, <3>4
    <2> QED BY <2>2, <2>3
  <1> HIDE DEF d
  <1>8. Entitled(d, account)
    BY <1>3, <1>4, <1>6, <1>7 DEF Entitled
  <1> QED BY <1>1, <1>2, <1>8, AnswerStep DEF d

\* A failure is no answer.
LEMMA FailStep ==
  ASSUME Inv, NEW offset \in DOMAIN pending, Fail(offset)
  PROVE  Inv'
  <1> DEFINE c == pending[offset]
             d == [c EXCEPT !.output = Failure]
  <1>1. IsComputation(c) /\ Entitled(c, account)
    BY DEF Inv, PendingInv
  <1>2. d.circuit = c.circuit /\ d.output = Failure
    BY <1>1, OutputOnly
  <1> HIDE DEF d
  <1>3. Entitled(d, account)
    BY <1>1, <1>2 DEF Entitled, Answered
  <1> QED BY <1>3, AnswerStep DEF Fail, d

\* A computation that is gone leaves the others in flight.
LEMMA Gone ==
  ASSUME NEW p, NEW a, NEW b, PendingInv(p, a), NEW offset,
         \A o \in DOMAIN p : Entitled(p[o], b)
  PROVE  PendingInv(Without(p, offset), b)
  BY DEF PendingInv, Without

\* A computation that is lost changes no account.
LEMMA LostStep ==
  ASSUME Inv, NEW offset \in DOMAIN pending, Lost(offset)
  PROVE  Inv'
  BY Gone DEF Lost, Inv, PendingInv

\* A callback stores what its computation was entitled to bring.
LEMMA CallbackStep ==
  ASSUME Inv, NEW offset \in DOMAIN pending, Callback(offset)
  PROVE  Inv'
  <1> DEFINE c == pending[offset]
  <1>1. /\ Answered(c)
        /\ account' = Delivered(account, c)
        /\ pending' = Without(pending, offset)
    BY DEF Callback, Answered
  <1>2. IsComputation(c) /\ Entitled(c, account)
    BY DEF Inv, PendingInv
  <1>3. IsAccount(account)
    BY DEF Inv, AccountInv
  <1>4. /\ IsAccount(account')
        /\ account.is_initialized => account'.is_initialized
        /\ account'.collateral_reserve = account.collateral_reserve
        /\ account'.borrow_reserve = account.borrow_reserve
        /\ \/ account'.enc_state = account.enc_state
              /\ account'.is_initialized = account.is_initialized
           \/ /\ account'.is_initialized
              /\ Backed(account'.enc_state.position,
                        account.collateral_reserve, account.borrow_reserve)
    <2>1. CASE c.circuit = "check_health_v2"
      <3>1. account' = [account EXCEPT !.is_liquidatable = ~c.output.healthy]
        BY <1>1, <2>1 DEF Delivered, check_health_v2_callback
      <3> QED BY <1>3, <3>1, Assignments
    <2>2. CASE c.circuit = "init_position_v2"
      <3>1. account' = init_position_v2_callback(account, c.output)
        BY <1>1, <2>2 DEF Delivered
      <3>2. c.output.position = init_position_v2
        BY <1>1, <1>2, <2>2 DEF Entitled
      <3>3. Backed(c.output.position, account.collateral_reserve, account.borrow_reserve)
        BY <3>2 DEF Backed, Positions, init_position_v2
      <3> QED BY <1>3, <3>1, <3>3, Stored
    <2>3. CASE c.circuit \in {"add_collateral_v2", "add_borrow_v2"}
      <3>1. account' = add_v2_callback(account, c.output)
        BY <1>1, <2>3 DEF Delivered
      <3>2. /\ account.is_initialized
            /\ Backed(c.output.position, account.collateral_reserve, account.borrow_reserve)
        BY <1>1, <1>2, <2>3 DEF Entitled
      <3>3. /\ IsAccount(account') /\ account'.enc_state = c.output
            /\ account'.is_initialized = account.is_initialized
            /\ account'.collateral_reserve = account.collateral_reserve
            /\ account'.borrow_reserve = account.borrow_reserve
        BY <1>3, <3>1, Stored
      <3> QED BY <3>2, <3>3, Zenon
    <2> QED BY <1>2, <2>1, <2>2, <2>3 DEF IsComputation, Updates
  <1>5. AccountInv(account')
    BY <1>4 DEF Inv, AccountInv, Backed
  <1>6. PendingInv(pending', account')
    BY <1>1, <1>4, StillEntitled, Gone DEF Inv, PendingInv
  <1> QED BY <1>5, <1>6 DEF Inv

\* Every step keeps the invariant.
LEMMA NextStep == Inv /\ [Next]_vars => Inv'
  <1> SUFFICES ASSUME Inv, [Next]_vars
               PROVE  Inv'
    OBVIOUS
  <1>1. CASE \E offset \in Offsets : OwnerStep(offset)
    BY <1>1, InitPrivateStep, DepositStep, BorrowStep DEF OwnerStep
  <1>2. CASE \E offset \in Offsets, prices \in Prices :
               private_check_liquidatable(offset, prices)
    BY <1>2, CheckStep
  <1>3. CASE execute_private_liquidation
    BY <1>3, ExecuteStep
  <1>4. CASE \E offset \in DOMAIN pending : ClusterStep(offset)
    BY <1>4, RunStep, FailStep, CallbackStep, LostStep DEF ClusterStep
  <1>5. CASE UNCHANGED vars
    BY <1>5 DEF Inv, vars
  <1> QED BY <1>1, <1>2, <1>3, <1>4, <1>5 DEF Next

\* Tokens in the encrypted position always come with the address of the
\* reserve they belong to, whatever the order in which instructions set the
\* addresses and callbacks store positions.
THEOREM ReservesKnown == Spec => []PositionHasReserves
  <1>1. Inv => PositionHasReserves
    BY DEF Inv, AccountInv, PositionHasReserves, Plain, decrypt, Backed
  <1> QED BY <1>1, InitInv, NextStep, PTL DEF Spec

-------------------------------------------------------------------------------
\* What a division rounds off can only be to the disadvantage of its dividend.
LEMMA RoundedDown ==
  ASSUME NEW x \in Nat, NEW p \in Nat, NEW y \in Nat, (x \div BPS_SQUARED) * p >= y
  PROVE  x * p >= y * BPS_SQUARED
  <1> DEFINE q == x \div BPS_SQUARED
  <1>1. q \in Nat /\ q * BPS_SQUARED <= x
    BY DEF BPS_SQUARED
  <1>2. BPS_SQUARED \in Nat
    BY DEF BPS_SQUARED
  <1> HIDE DEF q
  <1>3. (q * BPS_SQUARED) * p <= x * p
    BY <1>1, <1>2
  <1>4. y * BPS_SQUARED <= (q * p) * BPS_SQUARED
    <2>1. q * p \in Nat /\ y <= q * p
      BY <1>1 DEF q
    <2> QED BY <2>1, <1>2
  <1>5. (q * BPS_SQUARED) * p = (q * p) * BPS_SQUARED
    BY <1>1, <1>2
  <1> QED BY <1>1, <1>2, <1>3, <1>4, <1>5

\* So a position the circuit calls healthy is covered.
LEMMA HealthyIsCovered ==
  ASSUME NEW pos \in Positions, NEW p \in PriceType, check_health_v2(pos, p)
  PROVE  Covers(pos, p)
  <1> DEFINE x == pos.collateral_tokens * p.exchange_rate_bps * p.ltv_bps
             y == pos.borrow_tokens * p.borrow_price_cents
  <1>1. x \in Nat /\ y \in Nat /\ p.collateral_price_cents \in Nat
    <2>1. /\ pos.collateral_tokens \in Nat /\ pos.borrow_tokens \in Nat
          /\ p.exchange_rate_bps \in Nat /\ p.ltv_bps \in Nat
          /\ p.collateral_price_cents \in Nat /\ p.borrow_price_cents \in Nat
      BY DEF Positions, PriceType
    <2> QED BY <2>1
  <1>2. (x \div BPS_SQUARED) * p.collateral_price_cents >= y
    BY DEF check_health_v2
  <1> HIDE DEF x, y
  <1>3. x * p.collateral_price_cents >= y * BPS_SQUARED
    BY <1>1, <1>2, RoundedDown
  <1> QED BY <1>3 DEF Covers, x, y

\* A verdict is given where a circuit runs, and nowhere else.
LEMMA VerdictsComeFromRuns ==
  ASSUME Inv, [Next]_vars, NEW o \in DOMAIN pending \cap DOMAIN pending',
         pending[o].output = NoOutput, pending'[o].output = [healthy |-> TRUE]
  PROVE  Run(o)
  <1>1. pending'[o] # pending[o]
    BY PrivateAssumption
  <1>2. ASSUME NEW offset, NEW circuit, NEW amount, NEW prices, CanQueue(pending, offset),
               pending' = queue_computation(account, pending, offset, circuit, amount, prices)
        PROVE  FALSE
    <2>1. pending'[o] = pending[o]
      BY <1>2 DEF queue_computation, CanQueue
    <2> QED BY <1>1, <2>1
  <1>3. ~ \E offset \in Offsets : OwnerStep(offset)
    BY <1>2 DEF OwnerStep, init_private_obligation, private_deposit_collateral, private_borrow
  <1>4. ~ \E offset \in Offsets, prices \in Prices :
            private_check_liquidatable(offset, prices)
    BY <1>2 DEF private_check_liquidatable
  <1>5. ~ execute_private_liquidation /\ ~ UNCHANGED vars
    BY <1>1 DEF execute_private_liquidation, vars
  <1>6. PICK offset \in DOMAIN pending : ClusterStep(offset)
    BY <1>3, <1>4, <1>5 DEF Next
  <1>7. ~ Callback(offset) /\ ~ Lost(offset)
    BY <1>1 DEF Callback, Lost, Without
  <1>8. ~ Fail(offset)
    <2>1. SUFFICES ASSUME Fail(offset)
                   PROVE  FALSE
      OBVIOUS
    <2>2. pending' = [pending EXCEPT ![offset].output = Failure]
      BY <2>1 DEF Fail
    <2>3. offset = o
      BY <1>1, <2>2
    <2>4. pending'[o] = [pending[o] EXCEPT !.output = Failure] /\ IsComputation(pending[o])
      BY <2>2, <2>3 DEF Inv, PendingInv
    <2>5. pending'[o].output = Failure
      BY <2>4, OutputOnly
    <2> QED BY <2>5, PrivateAssumption
  <1>9. offset = o
    <2>1. PICK x : pending' = [pending EXCEPT ![offset].output = x]
      BY <1>6, <1>7, <1>8 DEF ClusterStep, Run
    <2> QED BY <1>1, <2>1
  <1> QED BY <1>6, <1>7, <1>8, <1>9 DEF ClusterStep

\* A check that reads the position calls it healthy only when its collateral,
\* with nothing rounded off, covers what is borrowed.
THEOREM HealthyIsNeverUncovered == Spec => HealthyMeansCovered
  <1>1. ASSUME Inv, [Next]_vars, NEW o \in DOMAIN pending \cap DOMAIN pending',
               pending[o].circuit = "check_health_v2",
               pending[o].nonce = account.nonce,
               Plain(account) # Unreadable,
               pending[o].output = NoOutput,
               pending'[o].output = [healthy |-> TRUE]
        PROVE  Covers(Plain(account), pending[o].prices)
    <2> DEFINE c == pending[o]
    <2>1. IsComputation(c) /\ c.prices \in PriceType
      BY <1>1, PrivateAssumption DEF Inv, PendingInv, IsComputation
    <2>2. Plain(account) \in Positions
      BY <1>1 DEF Inv, AccountInv, Plain, decrypt, Backed
    <2>3. Input(account, c) = Plain(account)
      BY <1>1 DEF Input, Plain
    <2>4. PICK x \in Outputs(account, c, FreshNonce(account, pending)) :
            pending' = [pending EXCEPT ![o].output = x]
      BY <1>1, VerdictsComeFromRuns DEF Run
    <2>5. pending'[o] = [c EXCEPT !.output = x]
      BY <2>4 DEF Inv, PendingInv
    <2>6. x = [healthy |-> TRUE]
      BY <1>1, <2>1, <2>5, OutputOnly
    <2>7. x \in {[healthy |-> b] : b \in {check_health_v2(Plain(account), c.prices)}}
      BY <1>1, <2>3, <2>4 DEF Outputs, Verdicts
    <2>8. [healthy |-> check_health_v2(Plain(account), c.prices)].healthy
      BY <2>6, <2>7
    <2>9. check_health_v2(Plain(account), c.prices)
      BY <2>8, Zenon
    <2> QED BY <2>1, <2>2, <2>9, HealthyIsCovered
  <1>2. Inv /\ [Next]_vars =>
          [\A o \in DOMAIN pending \cap DOMAIN pending' :
             /\ pending[o].circuit = "check_health_v2"
             /\ pending[o].nonce = account.nonce
             /\ Plain(account) # Unreadable
             /\ pending[o].output = NoOutput
             /\ pending'[o].output = [healthy |-> TRUE]
             => Covers(Plain(account), pending[o].prices)]_vars
    BY <1>1
  <1> QED BY <1>2, InitInv, NextStep, PTL DEF Spec, HealthyMeansCovered

-------------------------------------------------------------------------------
(***************************************************************************)
(* Types, and the nonces they need.                                        *)
(***************************************************************************)

\* A computation of its type, whose answer is of the kind its circuit gives.
Typed(c) ==
  /\ c \in ComputationType
  /\ Answered(c) =>
       c.output \in IF c.circuit \in Updates THEN CiphertextType ELSE [healthy : BOOLEAN]

\* The updates that have run and wait for their callback.
Written(p) == {o \in DOMAIN p : p[o].circuit \in Updates /\ Answered(p[o])}

\* Ciphertexts under way to an account with nonce n have nonces of their own:
\* neither the account's, nor one a computation read, nor one another.
Apart(p, n) ==
  \A o \in Written(p) :
    /\ p[o].output.nonce # n
    /\ \A q \in DOMAIN p : p[q].nonce # p[o].output.nonce
    /\ \A q \in Written(p) \ {o} : p[q].output.nonce # p[o].output.nonce

\* What a computation asked for fits the position it was asked on, while that
\* is the account's.
Fits(c, a) ==
  c.nonce = a.nonce /\ a.enc_state.position # Unreadable =>
    /\ c.circuit = "add_collateral_v2" => CanAddCollateral(a.enc_state.position, c.amount)
    /\ c.circuit = "add_borrow_v2" => CanAddBorrow(a.enc_state.position, c.amount)

TypeInv ==
  /\ account \in AccountType
  /\ account.nonce = account.enc_state.nonce
  /\ DOMAIN pending \subseteq Offsets
  /\ \A o \in DOMAIN pending : Typed(pending[o]) /\ Fits(pending[o], account)
  /\ Apart(pending, account.nonce)

-------------------------------------------------------------------------------
\* Naturals have a least.
LEMMA LeastNatural ==
  ASSUME NEW S \in SUBSET Nat, S # {}
  PROVE  Min(S) \in S
  <1>1. \E x \in S : \A y \in S : ~ (y < x)
    <2>1. PICK x \in S : \A y \in S : ~ (<<y, x>> \in OpToRel(<, Nat))
      BY NatLessThanWellFounded, WFMin
    <2>2. \A y \in S : y < x => <<y, x>> \in OpToRel(<, Nat)
      BY DEF OpToRel
    <2> QED BY <2>1, <2>2
  <1>2. \E x \in S : \A y \in S : x <= y
    BY <1>1
  <1> QED BY <1>2 DEF Min

\* The values of a function on a finite set are no more than the set.
LEMMA ValuesBound ==
  ASSUME NEW S, IsFiniteSet(S), NEW f
  PROVE  IsFiniteSet({f[x] : x \in S}) /\ Cardinality({f[x] : x \in S}) <= Cardinality(S)
  <1>1. [x \in S |-> f[x]] \in Surjection(S, {f[x] : x \in S})
    BY DEF Surjection
  <1> QED BY <1>1, FS_Surjection

\* There is always a nonce for the cluster to rotate to.
LEMMA NonceLeft ==
  ASSUME TypeInv
  PROVE  FreshNonce(account, pending) \in Nonces \ NoncesInUse(account, pending)
  <1> DEFINE In  == {pending[o].nonce : o \in DOMAIN pending}
             Out == {pending[o].output.nonce : o \in Written(pending)}
             n   == Cardinality(Offsets)
  <1>1. IsFiniteSet(Offsets) /\ n \in Nat
    BY PrivateAssumption, FS_CardinalityType
  <1>2. IsFiniteSet(DOMAIN pending) /\ Cardinality(DOMAIN pending) <= n
    BY <1>1, FS_Subset DEF TypeInv
  <1>3. IsFiniteSet(Written(pending)) /\ Cardinality(Written(pending)) <= n
    <2>1. Written(pending) \in SUBSET Offsets
      BY DEF Written, TypeInv
    <2> QED BY <1>1, <2>1, FS_Subset
  <1>4. IsFiniteSet(In) /\ Cardinality(In) <= n
    <2> DEFINE f == [o \in DOMAIN pending |-> pending[o].nonce]
    <2>1. In = {f[o] : o \in DOMAIN pending}
      OBVIOUS
    <2>2. IsFiniteSet(In) /\ Cardinality(In) <= Cardinality(DOMAIN pending)
      <3> HIDE DEF f
      <3> QED BY <1>2, <2>1, ValuesBound
    <2> QED BY <1>1, <1>2, <2>2, FS_CardinalityType
  <1>5. IsFiniteSet(Out) /\ Cardinality(Out) <= n
    <2> DEFINE f == [o \in Written(pending) |-> pending[o].output.nonce]
    <2>1. Out = {f[o] : o \in Written(pending)}
      OBVIOUS
    <2>2. IsFiniteSet(Out) /\ Cardinality(Out) <= Cardinality(Written(pending))
      <3> HIDE DEF f
      <3> QED BY <1>3, <2>1, ValuesBound
    <2> QED BY <1>1, <1>3, <2>2, FS_CardinalityType
  <1>6. NoncesInUse(account, pending) = (In \cup Out) \cup {account.nonce}
    <2>1. Written(pending) =
            {q \in DOMAIN pending : /\ pending[q].circuit \in Updates
                                   /\ pending[q].output \notin {NoOutput, Failure}}
      BY DEF Written, Answered
    <2> QED BY <2>1 DEF NoncesInUse, TypeInv
  <1> HIDE DEF In, Out, n
  <1>7. IsFiniteSet(In \cup Out) /\ Cardinality(In \cup Out) <= 2 * n
    <2>1. /\ IsFiniteSet(In \cup Out)
          /\ Cardinality(In \cup Out) =
               Cardinality(In) + Cardinality(Out) - Cardinality(In \cap Out)
      BY <1>4, <1>5, FS_Union
    <2>2. IsFiniteSet(In \cap Out)
      BY <1>4, FS_Intersection
    <2>3. /\ Cardinality(In) \in Nat /\ Cardinality(Out) \in Nat
          /\ Cardinality(In \cap Out) \in Nat
      BY <1>4, <1>5, <2>2, FS_CardinalityType
    <2> QED BY <1>1, <1>4, <1>5, <2>1, <2>3
  <1>8. /\ IsFiniteSet(NoncesInUse(account, pending))
        /\ Cardinality(NoncesInUse(account, pending)) <= 2 * n + 1
    <2>1. Cardinality(In \cup Out) \in Nat
      BY <1>7, FS_CardinalityType
    <2> QED BY <1>1, <1>6, <1>7, <2>1, FS_AddElement
  <1>9. IsFiniteSet(Nonces) /\ Cardinality(Nonces) = 2 * n + 2
    BY <1>1, FS_Interval DEF Nonces, n
  <1>10. Nonces \ NoncesInUse(account, pending) # {}
    <2>1. SUFFICES ASSUME Nonces \subseteq NoncesInUse(account, pending)
                   PROVE  FALSE
      OBVIOUS
    <2>2. Cardinality(Nonces) <= Cardinality(NoncesInUse(account, pending))
      BY <1>8, <2>1, FS_Subset
    <2>3. Cardinality(NoncesInUse(account, pending)) \in Nat
      BY <1>8, FS_CardinalityType
    <2> QED BY <1>1, <1>8, <1>9, <2>2, <2>3
  <1>11. Nonces \ NoncesInUse(account, pending) \in SUBSET Nat
    BY <1>1 DEF Nonces, n
  <1> QED BY <1>10, <1>11, LeastNatural DEF FreshNonce

\* The fields of an account and of a computation.
LEMMA AccountFields ==
  ASSUME NEW a \in AccountType
  PROVE  /\ a.enc_state \in CiphertextType /\ a.nonce \in Nonces
         /\ a.collateral_reserve \in Reserves \cup {NoReserve}
         /\ a.borrow_reserve \in Reserves \cup {NoReserve}
         /\ a.is_liquidatable \in BOOLEAN /\ a.is_initialized \in BOOLEAN
  BY DEF AccountType

\* Computations that leave no trace in what is written leave the nonces apart.
LEMMA StillApart ==
  ASSUME NEW p, NEW q, NEW n, Apart(p, n), DOMAIN q \subseteq DOMAIN p,
         \A o \in DOMAIN q : q[o] = p[o]
  PROVE  Apart(q, n)
  <1>1. Written(q) \subseteq Written(p)
    BY DEF Written
  <1>2. \A o \in Written(q) : o \in DOMAIN q
    BY DEF Written
  <1> QED BY <1>1, <1>2 DEF Apart

\* A step that queues a computation.
LEMMA QueueKeeps ==
  ASSUME TypeInv, NEW offset \in Offsets, CanQueue(pending, offset),
         NEW circuit \in Updates \cup {"check_health_v2"}, NEW amount \in 0 .. MaxTokens,
         NEW prices \in Prices \cup {NoPrices},
         pending' = queue_computation(account, pending, offset, circuit, amount, prices),
         account' \in AccountType,
         account'.nonce = account.nonce, account'.enc_state = account.enc_state,
         account.enc_state.position # Unreadable =>
           /\ circuit = "add_collateral_v2" => CanAddCollateral(account.enc_state.position, amount)
           /\ circuit = "add_borrow_v2" => CanAddBorrow(account.enc_state.position, amount)
  PROVE  TypeInv'
  <1>1. PICK c : c = [ circuit |-> circuit, nonce |-> account.nonce, amount |-> amount,
                       prices |-> prices, output |-> NoOutput ]
    OBVIOUS
  <1>2. /\ offset \notin DOMAIN pending
        /\ DOMAIN pending' = DOMAIN pending \cup {offset}
        /\ pending'[offset] = c
        /\ \A o \in DOMAIN pending : pending'[o] = pending[o]
    BY <1>1 DEF CanQueue, queue_computation
  <1>3. account.nonce \in Nonces
    BY AccountFields DEF TypeInv
  <1>4. Typed(c) /\ ~Answered(c) /\ c.nonce = account.nonce
    BY <1>1, <1>3 DEF Typed, Answered, ComputationType, OutputType
  <1>5. Fits(c, account')
    BY <1>1 DEF Fits
  <1>6. \A o \in DOMAIN pending : Fits(pending[o], account')
    BY DEF TypeInv, Fits
  <1>7. Written(pending') = Written(pending)
    BY <1>2, <1>4 DEF Written
  <1>8. Apart(pending', account'.nonce)
    <2>1. \A o \in Written(pending) : o \in DOMAIN pending
      BY DEF Written
    <2> QED BY <1>2, <1>4, <1>7, <2>1 DEF Apart, TypeInv
  <1>9. \A o \in DOMAIN pending' : Typed(pending'[o]) /\ Fits(pending'[o], account')
    BY <1>2, <1>4, <1>5, <1>6 DEF TypeInv
  <1>10. DOMAIN pending' \subseteq Offsets
    BY <1>2 DEF TypeInv
  <1>11. account'.nonce = account'.enc_state.nonce
    BY DEF TypeInv
  <1> QED BY <1>8, <1>9, <1>10, <1>11 DEF TypeInv

\* Adding to a position that has room for it gives a position.
LEMMA AddedType ==
  ASSUME NEW position \in PrivatePosition \cup {Unreadable}, NEW c, c.amount \in 0 .. MaxTokens,
         position # Unreadable =>
           /\ c.circuit = "add_collateral_v2" => CanAddCollateral(position, c.amount)
           /\ c.circuit # "add_collateral_v2" => CanAddBorrow(position, c.amount)
  PROVE  /\ Added(position, c) \in PrivatePosition \cup {Unreadable}
         /\ position # Unreadable => Added(position, c) \in PrivatePosition
  <1>1. CASE position = Unreadable
    BY <1>1 DEF Added
  <1>2. CASE position # Unreadable
    <2>1. /\ position \in PrivatePosition
          /\ position.collateral_tokens \in 0 .. MaxTokens
          /\ position.borrow_tokens \in 0 .. MaxTokens
      BY <1>2 DEF PrivatePosition
    <2>2. CASE c.circuit = "add_collateral_v2"
      <3>1. position.collateral_tokens + c.amount \in 0 .. MaxTokens
        BY <1>2, <2>1, <2>2, CapAssumption DEF CanAddCollateral
      <3> QED BY <1>2, <2>1, <2>2, <3>1 DEF Added, add_collateral_v2, PrivatePosition
    <2>3. CASE c.circuit # "add_collateral_v2"
      <3>1. position.borrow_tokens + c.amount \in 0 .. MaxTokens
        BY <1>2, <2>1, <2>3, CapAssumption DEF CanAddBorrow
      <3> QED BY <1>2, <2>1, <2>3, <3>1 DEF Added, add_borrow_v2, PrivatePosition
    <2> QED BY <2>2, <2>3
  <1> QED BY <1>1, <1>2

\* What a circuit brings is of its kind, and under the nonce it was given.
LEMMA OutputKinds ==
  ASSUME TypeInv, NEW c, Typed(c), Fits(c, account), NEW fresh \in Nonces,
         NEW x \in Outputs(account, c, fresh)
  PROVE  /\ c.circuit \in Updates => x \in CiphertextType /\ x.nonce = fresh
         /\ c.circuit \notin Updates => x \in [healthy : BOOLEAN]
  <1>1. /\ c.circuit \in Updates \cup {"check_health_v2"} /\ c.amount \in 0 .. MaxTokens
    BY DEF Typed, ComputationType
  <1>2. CASE c.circuit = "check_health_v2"
    <2>1. PICK b \in Verdicts(Input(account, c), c) : x = [healthy |-> b]
      BY <1>2 DEF Outputs
    <2>2. b \in BOOLEAN
      <3>1. check_health_v2(Input(account, c), c.prices) \in BOOLEAN
        BY DEF check_health_v2
      <3> QED BY <2>1, <3>1, Zenon DEF Verdicts
    <2> QED BY <1>2, <2>1, <2>2 DEF Updates
  <1>3. CASE c.circuit = "init_position_v2"
    <2>1. x = [position |-> init_position_v2, nonce |-> fresh]
      BY <1>3 DEF Outputs
    <2>2. init_position_v2 \in PrivatePosition
      BY CapAssumption DEF init_position_v2, PrivatePosition
    <2> QED BY <1>3, <2>1, <2>2 DEF Updates, CiphertextType
  <1>4. CASE c.circuit \in {"add_collateral_v2", "add_borrow_v2"}
    <2>1. x = [position |-> Added(Input(account, c), c), nonce |-> fresh]
      BY <1>4 DEF Outputs
    <2>2. Input(account, c) \in PrivatePosition \cup {Unreadable}
      <3>1. account.enc_state.position \in PrivatePosition \cup {Unreadable}
        BY AccountFields DEF TypeInv, CiphertextType
      <3> QED BY <3>1 DEF Input, decrypt
    <2>3. Input(account, c) # Unreadable =>
            c.nonce = account.nonce /\ Input(account, c) = account.enc_state.position
      BY DEF Input, decrypt, TypeInv
    <2>4. Added(Input(account, c), c) \in PrivatePosition \cup {Unreadable}
      BY <1>1, <1>4, <2>2, <2>3, AddedType DEF Fits
    <2> QED BY <1>4, <2>1, <2>4 DEF Updates, CiphertextType
  <1> QED BY <1>1, <1>2, <1>3, <1>4 DEF Updates

\* A step in which the cluster runs a computation, or fails to.
LEMMA AnswerKeeps ==
  ASSUME TypeInv, NEW offset \in DOMAIN pending, NEW x, account' = account,
         pending' = [pending EXCEPT ![offset].output = x],
         x = Failure \/ x \in Outputs(account, pending[offset], FreshNonce(account, pending))
  PROVE  TypeInv'
  <1>1. PICK fresh : fresh = FreshNonce(account, pending)
    OBVIOUS
  <1>2. PICK c : c = pending[offset]
    OBVIOUS
  <1>3. fresh \in Nonces \ NoncesInUse(account, pending)
    BY <1>1, NonceLeft
  <1>4. PICK d : d = [c EXCEPT !.output = x]
    OBVIOUS
  <1>5. /\ DOMAIN pending' = DOMAIN pending
        /\ pending'[offset] = d
        /\ \A o \in DOMAIN pending : o # offset => pending'[o] = pending[o]
    BY <1>2, <1>4
  <1>6. Typed(c) /\ Fits(c, account) /\ c \in ComputationType
    BY <1>2 DEF TypeInv, Typed
  <1>7. /\ d.circuit = c.circuit /\ d.nonce = c.nonce /\ d.amount = c.amount
        /\ d.prices = c.prices /\ d.output = x
        /\ d = [ circuit |-> c.circuit, nonce |-> c.nonce, amount |-> c.amount,
                 prices |-> c.prices, output |-> x ]
    BY <1>4, <1>6 DEF ComputationType
  <1>8. x # Failure =>
          /\ c.circuit \in Updates => x \in CiphertextType /\ x.nonce = fresh
          /\ c.circuit \notin Updates => x \in [healthy : BOOLEAN]
    BY <1>1, <1>2, <1>3, <1>6, OutputKinds
  <1>9. Typed(d)
    <2>1. x \in OutputType
      BY <1>8 DEF OutputType
    <2>2. d \in ComputationType
      BY <1>6, <1>7, <2>1 DEF ComputationType
    <2>3. Answered(d) => d.output \in IF d.circuit \in Updates THEN CiphertextType
                                      ELSE [healthy : BOOLEAN]
      BY <1>7, <1>8 DEF Answered
    <2> QED BY <2>2, <2>3 DEF Typed
  <1>10. Fits(d, account)
    BY <1>6, <1>7 DEF Fits
  <1>11. Apart(pending', account.nonce)
    <2>1. /\ fresh # account.nonce
          /\ \A q \in DOMAIN pending : pending[q].nonce # fresh
          /\ \A q \in Written(pending) : pending[q].output.nonce # fresh
      <3>1. {pending[q].nonce : q \in DOMAIN pending} \subseteq NoncesInUse(account, pending)
        BY DEF NoncesInUse
      <3>2. \A q \in Written(pending) : pending[q].output.nonce \in NoncesInUse(account, pending)
        BY DEF NoncesInUse, Written, Answered
      <3>3. account.nonce \in NoncesInUse(account, pending)
        BY DEF NoncesInUse
      <3> QED BY <1>3, <3>1, <3>2, <3>3
    <2>2. \A o \in Written(pending') :
            \/ o = offset /\ pending'[o].output.nonce = fresh
            \/ o # offset /\ o \in Written(pending)
      <3>1. offset \in Written(pending') => x # Failure /\ c.circuit \in Updates
        BY <1>5, <1>7 DEF Written, Answered
      <3> QED BY <1>5, <1>7, <1>8, <3>1 DEF Written
    <2>3. \A q \in DOMAIN pending' : pending'[q].nonce = pending[q].nonce
      BY <1>2, <1>5, <1>7
    <2>4. \A o \in Written(pending') : pending'[o].output.nonce # account.nonce
      BY <1>5, <2>1, <2>2 DEF TypeInv, Apart, Written
    <2>5. \A o \in Written(pending'), q \in DOMAIN pending' :
            pending'[q].nonce # pending'[o].output.nonce
      <3> SUFFICES ASSUME NEW o \in Written(pending'), NEW q \in DOMAIN pending'
                   PROVE  pending[q].nonce # pending'[o].output.nonce
        BY <2>3
      <3>1. CASE o = offset
        BY <1>5, <2>1, <2>2, <3>1
      <3>2. CASE o # offset
        BY <1>5, <2>2, <3>2 DEF TypeInv, Apart, Written
      <3> QED BY <3>1, <3>2
    <2>6. \A o, q \in Written(pending') :
            q # o => pending'[q].output.nonce # pending'[o].output.nonce
      <3> SUFFICES ASSUME NEW o \in Written(pending'), NEW q \in Written(pending'), q # o
                   PROVE  pending'[q].output.nonce # pending'[o].output.nonce
        OBVIOUS
      <3>1. CASE o = offset
        BY <1>5, <2>1, <2>2, <3>1 DEF Written
      <3>2. CASE q = offset
        BY <1>5, <2>1, <2>2, <3>2 DEF Written
      <3>3. CASE o # offset /\ q # offset
        BY <1>5, <2>2, <3>3 DEF TypeInv, Apart, Written
      <3> QED BY <3>1, <3>2, <3>3
    <2> QED BY <2>4, <2>5, <2>6 DEF Apart
  <1>12. \A o \in DOMAIN pending' : Typed(pending'[o]) /\ Fits(pending'[o], account')
    BY <1>5, <1>9, <1>10 DEF TypeInv
  <1> QED BY <1>5, <1>11, <1>12 DEF TypeInv

\* A step that takes a computation away, or none, and leaves what the account
\* stands for.
LEMMA LoseKeeps ==
  ASSUME TypeInv, account' \in AccountType,
         account'.nonce = account.nonce, account'.enc_state = account.enc_state,
         DOMAIN pending' \subseteq DOMAIN pending,
         \A o \in DOMAIN pending' : pending'[o] = pending[o]
  PROVE  TypeInv'
  <1>1. Apart(pending', account'.nonce)
    BY StillApart DEF TypeInv
  <1>2. \A o \in DOMAIN pending' : Typed(pending'[o]) /\ Fits(pending'[o], account')
    BY DEF TypeInv, Fits
  <1>3. DOMAIN pending' \subseteq Offsets /\ account'.nonce = account'.enc_state.nonce
    BY DEF TypeInv
  <1> QED BY <1>1, <1>2, <1>3 DEF TypeInv

\* The callback of an update stores a ciphertext nothing else in flight was
\* made from or under: what was asked on the old position no longer reads.
LEMMA CallbackKeeps ==
  ASSUME TypeInv, NEW offset \in DOMAIN pending, Callback(offset)
  PROVE  TypeInv'
  <1>1. PICK c : c = pending[offset]
    OBVIOUS
  <1>2. /\ Answered(c) /\ Typed(c) /\ account' = Delivered(account, c)
        /\ DOMAIN pending' = DOMAIN pending \ {offset}
        /\ \A o \in DOMAIN pending' : pending'[o] = pending[o]
    BY <1>1 DEF Callback, Without, Answered, TypeInv
  <1>3. c.circuit \in Updates \cup {"check_health_v2"} /\ account \in AccountType
    BY <1>2 DEF Typed, ComputationType, TypeInv
  <1>4. CASE c.circuit = "check_health_v2"
    <2>1. c.output \in [healthy : BOOLEAN]
      BY <1>2, <1>4 DEF Typed, Updates
    <2>2. PICK b \in BOOLEAN : b = ~c.output.healthy
      BY <2>1
    <2>3. account' = [account EXCEPT !.is_liquidatable = b]
      BY <1>2, <1>4, <2>2 DEF Delivered, check_health_v2_callback
    <2>4. /\ account' \in AccountType
          /\ account'.nonce = account.nonce /\ account'.enc_state = account.enc_state
      BY <1>3, <2>3 DEF AccountType
    <2> QED BY <1>2, <2>4, LoseKeeps
  <1>5. CASE c.circuit \in Updates
    <2>1. c.output \in CiphertextType /\ c.output.nonce \in Nonces
      BY <1>2, <1>5 DEF Typed, CiphertextType
    <2>2. /\ account' \in AccountType
          /\ account'.nonce = c.output.nonce /\ account'.enc_state = c.output
      <3>1. CASE c.circuit = "init_position_v2"
        <4>1. account' = init_position_v2_callback(account, c.output)
          BY <1>2, <3>1 DEF Delivered
        <4> QED BY <1>3, <2>1, <4>1 DEF init_position_v2_callback, AccountType
      <3>2. CASE c.circuit # "init_position_v2"
        <4>1. account' = add_v2_callback(account, c.output)
          BY <1>2, <1>5, <3>2 DEF Delivered, Updates
        <4> QED BY <1>3, <2>1, <4>1 DEF add_v2_callback, AccountType
      <3> QED BY <3>1, <3>2
    <2>3. offset \in Written(pending)
      BY <1>1, <1>2, <1>5 DEF Written
    <2>4. Written(pending') \subseteq Written(pending) \ {offset}
      BY <1>2 DEF Written
    <2>5. Apart(pending', account'.nonce)
      <3>1. Apart(pending', account.nonce)
        BY <1>2, StillApart DEF TypeInv
      <3>2. \A o \in Written(pending') : pending'[o].output.nonce # c.output.nonce
        BY <1>1, <1>2, <2>3, <2>4 DEF TypeInv, Apart, Written
      <3> QED BY <2>2, <3>1, <3>2 DEF Apart
    <2>6. \A o \in DOMAIN pending' : Typed(pending'[o]) /\ Fits(pending'[o], account')
      <3>1. \A o \in DOMAIN pending' : pending'[o].nonce # account'.nonce
        BY <1>1, <1>2, <2>2, <2>3 DEF TypeInv, Apart
      <3> QED BY <1>2, <3>1 DEF TypeInv, Fits
    <2> QED BY <1>2, <2>2, <2>5, <2>6 DEF TypeInv
  <1> QED BY <1>3, <1>4, <1>5

\* An account that does not exist yet holds nothing that could be read.
LEMMA TypeInit == Init => TypeInv
  <1> SUFFICES ASSUME Init PROVE TypeInv
    OBVIOUS
  <1>1. account = NewAccount /\ DOMAIN pending = {}
    BY DEF Init
  <1>2. 0 \in Nonces
    BY PrivateAssumption, FS_CardinalityType DEF Nonces
  <1>3. [position |-> Unreadable, nonce |-> 0] \in CiphertextType
    BY <1>2 DEF CiphertextType
  <1>4. account \in AccountType /\ account.nonce = account.enc_state.nonce
    BY <1>1, <1>2, <1>3 DEF NewAccount, AccountType
  <1>5. Apart(pending, account.nonce)
    BY <1>1 DEF Apart, Written
  <1> QED BY <1>1, <1>4, <1>5 DEF TypeInv

\* The owner's instructions and the keepers' checks queue a computation, and
\* ask for no more than fits what the owner can read.
LEMMA OwnerKeeps ==
  ASSUME TypeInv, NEW offset \in Offsets,
         OwnerStep(offset) \/ \E prices \in Prices : private_check_liquidatable(offset, prices)
  PROVE  TypeInv'
  <1>0. account \in AccountType /\ Plain(account) = account.enc_state.position
    BY DEF TypeInv, Plain, decrypt
  <1>1. 0 \in 0 .. MaxTokens /\ \A amount \in 0 .. MaxAdd : amount \in 0 .. MaxTokens
    BY CapAssumption, PositionAssumption
  <1>2. CASE init_private_obligation(offset)
    <2>1. /\ account' \in AccountType
          /\ account'.nonce = account.nonce /\ account'.enc_state = account.enc_state
      BY <1>0, <1>2 DEF init_private_obligation, init_private, AccountType
    <2> QED BY <1>1, <1>2, <2>1, QueueKeeps DEF init_private_obligation, Updates
  <1>3. ASSUME NEW r \in Reserves, NEW amount \in 0 .. MaxAdd,
               private_deposit_collateral(offset, r, amount)
        PROVE  TypeInv'
    <2>1. /\ account' \in AccountType
          /\ account'.nonce = account.nonce /\ account'.enc_state = account.enc_state
      BY <1>0, <1>3 DEF private_deposit_collateral, with_collateral_reserve, AccountType
    <2>2. account.enc_state.position # Unreadable =>
            CanAddCollateral(account.enc_state.position, amount)
      BY <1>0, <1>3 DEF private_deposit_collateral, CanPrivateDeposit
    <2> QED BY <1>1, <1>3, <2>1, <2>2, QueueKeeps DEF private_deposit_collateral, Updates
  <1>4. ASSUME NEW r \in Reserves, NEW amount \in 0 .. MaxAdd,
               private_borrow(offset, r, amount)
        PROVE  TypeInv'
    <2>1. /\ account' \in AccountType
          /\ account'.nonce = account.nonce /\ account'.enc_state = account.enc_state
      BY <1>0, <1>4 DEF private_borrow, with_borrow_reserve, AccountType
    <2>2. account.enc_state.position # Unreadable =>
            CanAddBorrow(account.enc_state.position, amount)
      BY <1>0, <1>4 DEF private_borrow, CanPrivateBorrow
    <2> QED BY <1>1, <1>4, <2>1, <2>2, QueueKeeps DEF private_borrow, Updates
  <1>5. ASSUME NEW prices \in Prices, private_check_liquidatable(offset, prices)
        PROVE  TypeInv'
    BY <1>0, <1>1, <1>5, QueueKeeps DEF private_check_liquidatable
  <1> QED BY <1>2, <1>3, <1>4, <1>5 DEF OwnerStep

\* Every step keeps the types.
LEMMA TypeNext == TypeInv /\ [Next]_vars => TypeInv'
  <1> SUFFICES ASSUME TypeInv, [Next]_vars
               PROVE  TypeInv'
    OBVIOUS
  <1>1. ASSUME NEW offset \in DOMAIN pending, ClusterStep(offset)
        PROVE  TypeInv'
    <2>1. CASE Run(offset) \/ Fail(offset)
      BY <2>1, AnswerKeeps DEF Run, Fail
    <2>2. CASE Lost(offset)
      BY <2>2, LoseKeeps DEF Lost, Without, TypeInv
    <2> QED BY <1>1, <2>1, <2>2, CallbackKeeps DEF ClusterStep
  <1>2. CASE execute_private_liquidation
    <2>1. /\ account' \in AccountType
          /\ account'.nonce = account.nonce /\ account'.enc_state = account.enc_state
          /\ pending' = pending
      BY <1>2 DEF execute_private_liquidation, AccountType, TypeInv
    <2> QED BY <2>1, LoseKeeps
  <1>3. CASE UNCHANGED vars
    BY <1>3, LoseKeeps DEF vars, TypeInv
  <1> QED BY <1>1, <1>2, <1>3, OwnerKeeps DEF Next

\* The account and the computations in flight keep their types; above all,
\* nothing that is stored ever exceeds the cap of the circuits.
THEOREM TypeCorrect == Spec => []TypeOK
  <1>1. TypeInv => TypeOK
    BY DEF TypeInv, TypeOK, Typed
  <1> QED BY <1>1, TypeInit, TypeNext, PTL DEF Spec

-------------------------------------------------------------------------------
(***************************************************************************)
(* An owner who waits for the answers.                                     *)
(***************************************************************************)

\* What an update brings, when it runs on the account as it is.
Result(c, a) ==
  IF c.circuit = "init_position_v2" THEN init_position_v2 ELSE Added(a.enc_state.position, c)

\* An update in flight was asked for on the account as it is, and its answer,
\* when there is one, is what it brings there.
Current(c, a) ==
  /\ c.nonce = a.nonce
  /\ c.amount \in 0 .. MaxAdd
  /\ c.circuit = "init_position_v2" <=> ~a.is_initialized
  /\ Answered(c) => c.output.position = Result(c, a)

\* One update at a time, and a position that is never lost.
Serial ==
  /\ account.is_initialized => account.enc_state.position \in PrivatePosition
  /\ \A o, q \in UpdatesIn(pending) : o = q
  /\ \A o \in UpdatesIn(pending) : Current(pending[o], account)

LedgerStep == Serial' /\ [Ledger!Next]_(Ledger!vars)

-------------------------------------------------------------------------------
\* The change due is the one update in flight.
LEMMA DueIsTheUpdate ==
  ASSUME NEW p, NEW o \in UpdatesIn(p), \A q, r \in UpdatesIn(p) : q = r
  PROVE  Due(p) = [circuit |-> p[o].circuit, amount |-> p[o].amount]
  <1>1. (CHOOSE q \in UpdatesIn(p) : TRUE) \in UpdatesIn(p)
    OBVIOUS
  <1>2. (CHOOSE q \in UpdatesIn(p) : TRUE) = o
    BY <1>1
  <1> QED BY <1>2 DEF Due

\* The same updates make the same change due.
LEMMA SameDue ==
  ASSUME NEW p, NEW q, UpdatesIn(q) = UpdatesIn(p),
         \A o \in UpdatesIn(p) : q[o].circuit = p[o].circuit /\ q[o].amount = p[o].amount
  PROVE  Due(q) = Due(p)
  <1>1. CASE UpdatesIn(p) = {}
    BY <1>1 DEF Due
  <1>2. CASE UpdatesIn(p) # {}
    <2>1. PICK o : o = CHOOSE x \in UpdatesIn(p) : TRUE
      OBVIOUS
    <2>2. o \in UpdatesIn(p)
      BY <1>2, <2>1
    <2>3. /\ Due(p) = [circuit |-> p[o].circuit, amount |-> p[o].amount]
          /\ Due(q) = [circuit |-> q[o].circuit, amount |-> q[o].amount]
      BY <1>2, <2>1 DEF Due
    <2> QED BY <2>2, <2>3
  <1> QED BY <1>1, <1>2

\* A step that leaves the position and the updates as they were, or answers
\* one of them, shows the owner nothing.
LEMMA Quiet ==
  ASSUME TypeInv, Serial,
         account'.enc_state = account.enc_state, account'.nonce = account.nonce,
         account'.is_initialized = account.is_initialized,
         UpdatesIn(pending') = UpdatesIn(pending),
         \A o \in UpdatesIn(pending) :
           /\ pending'[o].circuit = pending[o].circuit
           /\ pending'[o].nonce = pending[o].nonce
           /\ pending'[o].amount = pending[o].amount
           /\ Answered(pending'[o]) =>
                pending'[o].output.position = Result(pending[o], account)
  PROVE  LedgerStep
  <1>1. Standing(account') = Standing(account)
    BY DEF Standing, Plain, decrypt
  <1>2. Due(pending') = Due(pending)
    BY SameDue
  <1>3. \A o \in UpdatesIn(pending) : Result(pending'[o], account') = Result(pending[o], account)
    BY DEF Result, Added
  <1>4. \A o \in UpdatesIn(pending') : Current(pending'[o], account')
    BY <1>3 DEF Current, Serial
  <1>5. Serial'
    BY <1>4 DEF Serial
  <1> QED BY <1>1, <1>2, <1>5 DEF LedgerStep, Ledger!vars

\* The instance's circuits are the circuits.
LEMMA SameCircuits ==
  /\ Ledger!init_position_v2 = init_position_v2
  /\ \A p, n : Ledger!add_collateral_v2(p, n) = add_collateral_v2(p, n)
  /\ \A p, n : Ledger!add_borrow_v2(p, n) = add_borrow_v2(p, n)
  BY DEF Ledger!init_position_v2, init_position_v2, Ledger!add_collateral_v2,
         add_collateral_v2, Ledger!add_borrow_v2, add_borrow_v2

\* What the account stands for: nothing before it is set up, and from then on
\* a position.
LEMMA StandsFor ==
  ASSUME TypeInv, Serial
  PROVE  /\ account.is_initialized =>
              /\ Standing(account) = account.enc_state.position
              /\ Standing(account) \in PrivatePosition
         /\ ~account.is_initialized => Standing(account) = NoOutput
         /\ account.is_initialized <=> Standing(account) # NoOutput
  <1>1. NoOutput \notin PrivatePosition
    BY PrivateAssumption
  <1> QED BY <1>1 DEF Standing, Plain, decrypt, TypeInv, Serial

\* An instruction of an owner who has nothing in flight asks for a change.
LEMMA AskStep ==
  ASSUME TypeInv, Serial, UpdatesIn(pending) = {},
         NEW offset, CanQueue(pending, offset),
         NEW circuit \in Updates, NEW amount \in 0 .. MaxAdd, NEW prices,
         pending' = queue_computation(account, pending, offset, circuit, amount, prices),
         account'.enc_state = account.enc_state, account'.nonce = account.nonce,
         account'.is_initialized = account.is_initialized,
         circuit = "init_position_v2" <=> ~account.is_initialized
  PROVE  LedgerStep
  <1>1. PICK c : c = [ circuit |-> circuit, nonce |-> account.nonce, amount |-> amount,
                       prices |-> prices, output |-> NoOutput ]
    OBVIOUS
  <1>2. /\ DOMAIN pending' = DOMAIN pending \cup {offset}
        /\ pending'[offset] = c
        /\ \A o \in DOMAIN pending : o # offset => pending'[o] = pending[o]
    BY <1>1 DEF CanQueue, queue_computation
  <1>3. UpdatesIn(pending') = {offset}
    BY <1>1, <1>2 DEF UpdatesIn, CanQueue
  <1>4. Standing(account') = Standing(account)
    BY DEF Standing, Plain, decrypt
  <1>5. Due(pending) = NoOutput
    BY DEF Due
  <1>6. PICK change : change = [circuit |-> circuit, amount |-> amount]
    OBVIOUS
  <1>7. Due(pending') = change
    <2>1. offset \in UpdatesIn(pending') /\ \A q, r \in UpdatesIn(pending') : q = r
      BY <1>3
    <2> QED BY <1>1, <1>2, <1>6, <2>1, DueIsTheUpdate
  <1>8. change \in Ledger!Changes /\ change.circuit = circuit
    BY <1>6 DEF Ledger!Changes, Updates
  <1>9. change.circuit = "init_position_v2" <=> Standing(account) = NoOutput
    BY <1>8, StandsFor
  <1>10. Ledger!Ask(change)
    BY <1>4, <1>5, <1>7, <1>9 DEF Ledger!Ask
  <1>11. Serial'
    <2>1. Current(c, account')
      BY <1>1 DEF Current, Answered
    <2> QED BY <1>2, <1>3, <2>1 DEF Serial
  <1> QED BY <1>8, <1>10, <1>11 DEF LedgerStep, Ledger!Next

\* The callback of an update makes the change that is due.
LEMMA MakeStep ==
  ASSUME TypeInv, TypeInv', Serial, NEW offset \in UpdatesIn(pending), Callback(offset)
  PROVE  LedgerStep
  <1>1. PICK c : c = pending[offset]
    OBVIOUS
  <1>2. /\ Answered(c) /\ Current(c, account) /\ Typed(c) /\ Fits(c, account)
        /\ offset \in DOMAIN pending
        /\ c.circuit \in Updates
        /\ account' = Delivered(account, c)
        /\ DOMAIN pending' = DOMAIN pending \ {offset}
        /\ \A o \in DOMAIN pending' : pending'[o] = pending[o]
    BY <1>1 DEF Callback, Without, Answered, TypeInv, Serial, UpdatesIn
  <1>3. c.output.position = Result(c, account)
    BY <1>2 DEF Current
  <1>4. /\ account'.enc_state = c.output /\ account'.is_initialized
        /\ account'.nonce = c.output.nonce
    <2>1. IsAccount(account)
      BY DEF TypeInv, AccountType, IsAccount
    <2>2. CASE c.circuit = "init_position_v2"
      BY <1>2, <2>1, <2>2, Stored DEF Delivered, TypeInv
    <2>3. CASE c.circuit # "init_position_v2"
      BY <1>2, <2>1, <2>3, Stored DEF Delivered, TypeInv, Updates, Current
    <2> QED BY <2>2, <2>3
  <1>5. Result(c, account) \in PrivatePosition
    <2>1. CASE c.circuit = "init_position_v2"
      BY <2>1, CapAssumption DEF Result, init_position_v2, PrivatePosition
    <2>2. CASE c.circuit # "init_position_v2"
      <3>1. account.is_initialized /\ account.enc_state.position \in PrivatePosition
        BY <1>2, <2>2 DEF Current, Serial
      <3>2. c.amount \in 0 .. MaxTokens /\ c.nonce = account.nonce
        BY <1>2 DEF Typed, ComputationType, Current
      <3>3. account.enc_state.position # Unreadable
        BY <3>1, PrivateAssumption
      <3> QED BY <1>2, <2>2, <3>1, <3>2, <3>3, AddedType DEF Result, Fits, Updates
    <2> QED BY <2>1, <2>2
  <1>6. Standing(account') = Result(c, account)
    BY <1>3, <1>4 DEF Standing, Plain, decrypt
  <1>7. UpdatesIn(pending') = {} /\ Due(pending') = NoOutput
    BY <1>2 DEF UpdatesIn, Due, Serial
  <1>8. PICK due : due = [circuit |-> c.circuit, amount |-> c.amount]
    OBVIOUS
  <1>9. Due(pending) = due /\ due # NoOutput
    <2>1. Due(pending) = due
      BY <1>1, <1>8, DueIsTheUpdate DEF Serial
    <2>2. due \in Ledger!Changes
      BY <1>2, <1>8 DEF Ledger!Changes, Current, Updates
    <2> QED BY <2>1, <2>2, LedgerAssumption
  <1>10. Ledger!Changed = Result(c, account)
    <2>1. CASE c.circuit = "init_position_v2"
      BY <1>8, <1>9, <2>1, SameCircuits DEF Ledger!Changed, Result
    <2>2. CASE c.circuit # "init_position_v2"
      <3>1. /\ account.enc_state.position \in PrivatePosition
            /\ Standing(account) = account.enc_state.position
        BY <1>2, <2>2, StandsFor DEF Current, Serial
      <3>2. account.enc_state.position # Unreadable
        BY <3>1, PrivateAssumption
      <3>3. CASE c.circuit = "add_collateral_v2"
        BY <1>8, <1>9, <3>1, <3>2, <3>3, SameCircuits DEF Ledger!Changed, Result, Added
      <3>4. CASE c.circuit = "add_borrow_v2"
        BY <1>8, <1>9, <3>1, <3>2, <3>4, SameCircuits DEF Ledger!Changed, Result, Added
      <3> QED BY <1>2, <2>2, <3>3, <3>4 DEF Updates
    <2> QED BY <2>1, <2>2
  <1>11. Ledger!Make
    BY <1>6, <1>7, <1>9, <1>10 DEF Ledger!Make
  <1>12. Serial'
    BY <1>3, <1>4, <1>5, <1>7 DEF Serial
  <1> QED BY <1>11, <1>12 DEF LedgerStep, Ledger!Next

\* An update whose answer is a failure, or never comes, is dropped.
LEMMA DropStep ==
  ASSUME TypeInv, Serial, NEW offset \in UpdatesIn(pending), Lost(offset)
  PROVE  LedgerStep
  <1>1. PICK c : c = pending[offset]
    OBVIOUS
  <1>2. /\ Current(c, account) /\ c.circuit \in Updates
        /\ account' = account
        /\ DOMAIN pending' = DOMAIN pending \ {offset}
        /\ \A o \in DOMAIN pending' : pending'[o] = pending[o]
    BY <1>1 DEF Lost, Without, Serial, UpdatesIn
  <1>3. UpdatesIn(pending') = {} /\ Due(pending') = NoOutput
    BY <1>2 DEF UpdatesIn, Due, Serial
  <1>4. PICK due : due = [circuit |-> c.circuit, amount |-> c.amount]
    OBVIOUS
  <1>5. Due(pending) = due /\ due # NoOutput
    <2>1. Due(pending) = due
      BY <1>1, <1>4, DueIsTheUpdate DEF Serial
    <2>2. due \in Ledger!Changes
      BY <1>2, <1>4 DEF Ledger!Changes, Current, Updates
    <2> QED BY <2>1, <2>2, LedgerAssumption
  <1>6. Ledger!Drop
    BY <1>2, <1>3, <1>5 DEF Ledger!Drop
  <1>7. Serial'
    BY <1>2, <1>3 DEF Serial
  <1> QED BY <1>6, <1>7 DEF LedgerStep, Ledger!Next

\* What the cluster computes from an update is what it brings to the account.
LEMMA UpdateOutput ==
  ASSUME TypeInv, NEW c, c.circuit \in Updates, Current(c, account), NEW fresh,
         NEW x \in Outputs(account, c, fresh)
  PROVE  x.position = Result(c, account)
  <1>1. Input(account, c) = account.enc_state.position
    BY DEF Input, decrypt, Current, TypeInv
  <1> QED BY <1>1 DEF Outputs, Result, Updates

\* A step that queues a check, or answers one, or clears the flag.
LEMMA NoUpdate ==
  ASSUME TypeInv, Serial,
         account'.enc_state = account.enc_state, account'.nonce = account.nonce,
         account'.is_initialized = account.is_initialized,
         UpdatesIn(pending') = UpdatesIn(pending),
         \A o \in UpdatesIn(pending) : pending'[o] = pending[o]
  PROVE  LedgerStep
  BY Quiet DEF Serial, Current

\* The owner's instructions, when no update is in flight, each ask for a change.
LEMMA OwnerAsks ==
  ASSUME OwnerWaits, TypeInv, Serial, NEW offset \in Offsets, OwnerStep(offset)
  PROVE  LedgerStep
  <1>0. account \in AccountType /\ 0 \in 0 .. MaxAdd
    BY PositionAssumption, CapAssumption DEF TypeInv
  <1>1. CASE init_private_obligation(offset)
    <2>1. UpdatesIn(pending) = {}
      BY <1>1 DEF init_private_obligation, OwnerReady, UpdatesIn
    <2>2. /\ account'.enc_state = account.enc_state /\ account'.nonce = account.nonce
          /\ account'.is_initialized = account.is_initialized
      BY <1>0, <1>1 DEF init_private_obligation, init_private, AccountType
    <2> QED BY <1>0, <1>1, <2>1, <2>2, AskStep DEF init_private_obligation, CanInitPrivate, Updates
  <1>2. ASSUME NEW r \in Reserves, NEW amount \in 0 .. MaxAdd,
               private_deposit_collateral(offset, r, amount)
        PROVE  LedgerStep
    <2>1. UpdatesIn(pending) = {}
      BY <1>2 DEF private_deposit_collateral, OwnerReady, UpdatesIn
    <2>2. /\ account'.enc_state = account.enc_state /\ account'.nonce = account.nonce
          /\ account'.is_initialized = account.is_initialized
      BY <1>0, <1>2 DEF private_deposit_collateral, with_collateral_reserve, AccountType
    <2> QED
      BY <1>2, <2>1, <2>2, AskStep DEF private_deposit_collateral, CanPrivateDeposit, Updates
  <1>3. ASSUME NEW r \in Reserves, NEW amount \in 0 .. MaxAdd, private_borrow(offset, r, amount)
        PROVE  LedgerStep
    <2>1. UpdatesIn(pending) = {}
      BY <1>3 DEF private_borrow, OwnerReady, UpdatesIn
    <2>2. /\ account'.enc_state = account.enc_state /\ account'.nonce = account.nonce
          /\ account'.is_initialized = account.is_initialized
      BY <1>0, <1>3 DEF private_borrow, with_borrow_reserve, AccountType
    <2> QED BY <1>3, <2>1, <2>2, AskStep DEF private_borrow, CanPrivateBorrow, Updates
  <1> QED BY <1>1, <1>2, <1>3 DEF OwnerStep

\* Running a computation, or failing to, tells the owner nothing yet.
LEMMA AnswerQuiet ==
  ASSUME TypeInv, Serial, NEW offset \in DOMAIN pending, Run(offset) \/ Fail(offset)
  PROVE  LedgerStep
  <1>1. PICK c : c = pending[offset]
    OBVIOUS
  <1>2. PICK x : /\ account' = account
                 /\ pending' = [pending EXCEPT ![offset].output = x]
                 /\ \/ x = Failure
                    \/ x \in Outputs(account, c, FreshNonce(account, pending))
    BY <1>1 DEF Run, Fail
  <1>3. PICK d : d = [c EXCEPT !.output = x]
    OBVIOUS
  <1>4. /\ DOMAIN pending' = DOMAIN pending
        /\ pending'[offset] = d
        /\ \A o \in DOMAIN pending : o # offset => pending'[o] = pending[o]
    BY <1>1, <1>2, <1>3
  <1>5. /\ d.circuit = c.circuit /\ d.nonce = c.nonce /\ d.amount = c.amount
        /\ d.output = x
    BY <1>1, <1>3 DEF TypeInv, Typed, ComputationType
  <1>6. UpdatesIn(pending') = UpdatesIn(pending)
    BY <1>1, <1>4, <1>5 DEF UpdatesIn
  <1>7. offset \in UpdatesIn(pending) /\ Answered(d) => d.output.position = Result(c, account)
    BY <1>1, <1>2, <1>5, UpdateOutput DEF Answered, Serial, UpdatesIn
  <1>8. \A o \in UpdatesIn(pending) :
          /\ pending'[o].circuit = pending[o].circuit
          /\ pending'[o].nonce = pending[o].nonce
          /\ pending'[o].amount = pending[o].amount
          /\ Answered(pending'[o]) => pending'[o].output.position = Result(pending[o], account)
    BY <1>1, <1>4, <1>5, <1>7 DEF Serial, Current, UpdatesIn
  <1> QED BY <1>2, <1>6, <1>8, Quiet

\* What a keeper does, or the cluster for one, the ledger does not show.
LEMMA KeeperQuiet ==
  ASSUME TypeInv, Serial,
         \/ \E offset \in Offsets, prices \in Prices : private_check_liquidatable(offset, prices)
         \/ execute_private_liquidation
         \/ \E offset \in DOMAIN pending \ UpdatesIn(pending) : Callback(offset) \/ Lost(offset)
         \/ UNCHANGED vars
  PROVE  LedgerStep
  <1>0. account \in AccountType
    BY DEF TypeInv
  <1>1. ASSUME NEW offset \in Offsets, NEW prices \in Prices,
               private_check_liquidatable(offset, prices)
        PROVE  LedgerStep
    <2>1. /\ offset \notin DOMAIN pending
          /\ account' = account
          /\ DOMAIN pending' = DOMAIN pending \cup {offset}
          /\ pending'[offset].circuit = "check_health_v2"
          /\ \A o \in DOMAIN pending : pending'[o] = pending[o]
      BY <1>1 DEF private_check_liquidatable, CanQueue, queue_computation
    <2>2. UpdatesIn(pending') = UpdatesIn(pending)
      BY <2>1 DEF UpdatesIn, Updates
    <2> QED BY <2>1, <2>2, NoUpdate DEF UpdatesIn
  <1>2. CASE execute_private_liquidation
    <2>1. /\ account'.enc_state = account.enc_state /\ account'.nonce = account.nonce
          /\ account'.is_initialized = account.is_initialized
          /\ pending' = pending
      BY <1>0, <1>2 DEF execute_private_liquidation, AccountType
    <2> QED BY <2>1, NoUpdate
  <1>3. ASSUME NEW offset \in DOMAIN pending \ UpdatesIn(pending),
               Callback(offset) \/ Lost(offset)
        PROVE  LedgerStep
    <2>1. /\ DOMAIN pending' = DOMAIN pending \ {offset}
          /\ \A o \in DOMAIN pending' : pending'[o] = pending[o]
      BY <1>3 DEF Callback, Lost, Without
    <2>2. UpdatesIn(pending') = UpdatesIn(pending)
      BY <2>1 DEF UpdatesIn
    <2>3. /\ account'.enc_state = account.enc_state /\ account'.nonce = account.nonce
          /\ account'.is_initialized = account.is_initialized
      <3>1. CASE Lost(offset)
        BY <3>1 DEF Lost
      <3>2. CASE Callback(offset)
        <4>1. pending[offset].circuit = "check_health_v2"
          BY DEF UpdatesIn, TypeInv, Typed, ComputationType
        <4>2. account' = check_health_v2_callback(account, pending[offset].output)
          BY <3>2, <4>1 DEF Callback, Delivered
        <4> QED BY <1>0, <4>2 DEF check_health_v2_callback, AccountType
      <3> QED BY <1>3, <3>1, <3>2
    <2> QED BY <2>1, <2>2, <2>3, NoUpdate DEF UpdatesIn
  <1>4. CASE UNCHANGED vars
    BY <1>4, NoUpdate DEF vars
  <1> QED BY <1>1, <1>2, <1>3, <1>4

\* To an owner who waits for the answers the account is a ledger: however the
\* cluster runs, fails, loses and calls back, and whatever keepers check and
\* liquidate meanwhile, each change asked for is made once, on what the changes
\* before it left, or dropped whole.
THEOREM SettledOnceOrDropped ==
  ASSUME OwnerWaits
  PROVE  Spec => Ledger!Init /\ [][Ledger!Next]_(Ledger!vars)
  <1>1. Init => Serial /\ Ledger!Init
    <2> SUFFICES ASSUME Init PROVE Serial /\ Ledger!Init
      OBVIOUS
    <2>1. ~account.is_initialized /\ UpdatesIn(pending) = {}
      BY DEF Init, NewAccount, UpdatesIn
    <2> QED BY <2>1 DEF Serial, Ledger!Init, Standing, Due
  <1>2. TypeInv /\ TypeInv' /\ Serial /\ [Next]_vars => LedgerStep
    <2> SUFFICES ASSUME TypeInv, TypeInv', Serial, [Next]_vars
                 PROVE  LedgerStep
      OBVIOUS
    <2>1. ASSUME NEW offset \in DOMAIN pending, ClusterStep(offset)
          PROVE  LedgerStep
      <3>1. CASE Run(offset) \/ Fail(offset)
        BY <3>1, AnswerQuiet
      <3>2. CASE (Callback(offset) \/ Lost(offset)) /\ offset \in UpdatesIn(pending)
        BY <3>2, MakeStep, DropStep
      <3>3. CASE (Callback(offset) \/ Lost(offset)) /\ offset \notin UpdatesIn(pending)
        BY <3>3, KeeperQuiet
      <3> QED BY <2>1, <3>1, <3>2, <3>3 DEF ClusterStep
    <2>2. CASE \E offset \in Offsets : OwnerStep(offset)
      BY <2>2, OwnerAsks
    <2> QED BY <2>1, <2>2, KeeperQuiet DEF Next
  <1>3. Serial /\ LedgerStep => Serial' /\ [Ledger!Next]_(Ledger!vars)
    BY DEF LedgerStep
  <1> QED BY <1>1, <1>2, <1>3, TypeInit, TypeNext, PTL DEF Spec

===============================================================================
