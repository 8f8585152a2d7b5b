----------------------------- MODULE PrivateState -----------------------------
(***************************************************************************)
(* One PrivateObligation account and the computations queued on it.  An    *)
(* instruction queues a computation and returns; the MXE runs the circuit  *)
(* later, on the ciphertexts it then finds in the account but under the    *)
(* nonce the instruction read; and later still it calls the program back.  *)
(***************************************************************************)
EXTENDS Circuits, Addresses, FiniteSetsExt

CONSTANTS
  Offsets,      \* computation_offsets clients choose from: bounds those in flight
  Prices,       \* prices a keeper may send with a check
  Unreadable,   \* what ciphertexts decrypt to under a nonce not their own
  NoPrices,     \* of a computation that takes none
  NoOutput,     \* not run yet
  Failure       \* SignedComputationOutputs::Failure, or one that does not verify

ASSUME PrivateAssumption ==
  /\ IsFiniteSet(Offsets)
  /\ Prices \subseteq PriceType
  /\ [healthy |-> TRUE] \notin {NoOutput, Failure}
  /\ Unreadable \notin PrivatePosition
  /\ NoOutput \notin PrivatePosition

\* Enough for every computation in flight to hold two; 0 is the account's own
\* before the MXE has written to it.
Nonces == 0 .. 2 * Cardinality(Offsets) + 1

Updates == {"init_position_v2", "add_collateral_v2", "add_borrow_v2"}

\* Ciphertexts stand for a position under the nonce they were made with.
CiphertextType == [ position : PrivatePosition \cup {Unreadable}, nonce : Nonces ]

AccountType ==
  [ enc_state          : CiphertextType,
    nonce              : Nonces,
    collateral_reserve : Reserves \cup {NoReserve},
    borrow_reserve     : Reserves \cup {NoReserve},
    is_liquidatable    : BOOLEAN,
    is_initialized     : BOOLEAN ]

OutputType ==
  {NoOutput, Failure} \cup CiphertextType \cup [healthy : BOOLEAN]

ComputationType ==
  [ circuit : Updates \cup {"check_health_v2"},
    nonce   : Nonces,
    amount  : 0 .. MaxTokens,
    prices  : Prices \cup {NoPrices},
    output  : OutputType ]

\* Every field 0, as init_if_needed creates the account; an account that does
\* not exist yet lets no more instructions through than this one.
NewAccount ==
  [ enc_state          |-> [position |-> Unreadable, nonce |-> 0],
    nonce              |-> 0,
    collateral_reserve |-> NoReserve,
    borrow_reserve     |-> NoReserve,
    is_liquidatable    |-> FALSE,
    is_initialized     |-> FALSE ]

decrypt(ciphertext, nonce) ==
  IF ciphertext.nonce = nonce THEN ciphertext.position ELSE Unreadable
Plain(account) == decrypt(account.enc_state, account.nonce)

\* The MXE rotates the nonce to one that nothing in flight refers to.
NoncesInUse(account, pending) ==
  {account.nonce, account.enc_state.nonce}
    \cup {pending[o].nonce : o \in DOMAIN pending}
    \cup {pending[o].output.nonce : o \in {q \in DOMAIN pending :
            /\ pending[q].circuit \in Updates
            /\ pending[q].output \notin {NoOutput, Failure}}}
FreshNonce(account, pending) == Min(Nonces \ NoncesInUse(account, pending))

(***************************************************************************)
(* Queueing.                                                               *)
(***************************************************************************)
\* The computation account is derived from the offset, so one in flight
\* cannot be queued again.
CanQueue(pending, offset) == offset \notin DOMAIN pending

queue_computation(account, pending, offset, circuit, amount, prices) ==
  [o \in DOMAIN pending \cup {offset} |->
     IF o = offset
     THEN [ circuit |-> circuit, nonce |-> account.nonce,
            amount |-> amount, prices |-> prices, output |-> NoOutput ]
     ELSE pending[o]]

\* Mutant of CanInitPrivate: an account in use may be set up again.
CanInitPrivateAgain(account) == TRUE

CanInitPrivate(account) == ~account.is_initialized

init_private(account) ==
  [account EXCEPT !.collateral_reserve = NoReserve, !.borrow_reserve = NoReserve,
                  !.is_liquidatable = FALSE]

\* Clients keep what they can decrypt below the circuits' cap.
CanPrivateDeposit(account, amount) ==
  /\ account.is_initialized
  /\ Plain(account) # Unreadable => CanAddCollateral(Plain(account), amount)
CanPrivateBorrow(account, amount) ==
  /\ account.is_initialized
  /\ Plain(account) # Unreadable => CanAddBorrow(Plain(account), amount)

with_collateral_reserve(account, r) ==
  [account EXCEPT !.collateral_reserve = IF @ = NoReserve THEN r ELSE @]
with_borrow_reserve(account, r) ==
  [account EXCEPT !.borrow_reserve = IF @ = NoReserve THEN r ELSE @]

(***************************************************************************)
(* Running a circuit, and calling back.                                    *)
(***************************************************************************)
\* The nonce came with the arguments, the ciphertexts are read now.
Input(account, c) == decrypt(account.enc_state, c.nonce)

Added(position, c) ==
  IF position = Unreadable THEN Unreadable
  ELSE IF c.circuit = "add_collateral_v2" THEN add_collateral_v2(position, c.amount)
  ELSE add_borrow_v2(position, c.amount)

\* A check of what cannot be read may say anything.
Verdicts(position, c) ==
  IF position = Unreadable THEN BOOLEAN ELSE {check_health_v2(position, c.prices)}

Outputs(account, c, fresh) ==
  CASE c.circuit = "check_health_v2" ->
         {[healthy |-> b] : b \in Verdicts(Input(account, c), c)}
    [] c.circuit = "init_position_v2" ->
         {[position |-> init_position_v2, nonce |-> fresh]}
    [] OTHER ->
         {[position |-> Added(Input(account, c), c), nonce |-> fresh]}

\* Mutant of init_position_v2_callback: the state is stored and not announced.
InitStateOnly(account, output) ==
  [account EXCEPT !.enc_state = output, !.nonce = output.nonce]

\* Whether the account is initialised already is not looked at.
init_position_v2_callback(account, output) ==
  [account EXCEPT !.enc_state = output, !.nonce = output.nonce,
                  !.is_initialized = TRUE]

\* Mutant of add_v2_callback: the nonce in the account is not rotated.
StateWithoutNonce(account, output) == [account EXCEPT !.enc_state = output]

\* add_collateral_v2_callback and add_borrow_v2_callback.
add_v2_callback(account, output) ==
  [account EXCEPT !.enc_state = output, !.nonce = output.nonce]

check_health_v2_callback(account, output) ==
  [account EXCEPT !.is_liquidatable = ~output.healthy]

Delivered(account, c) ==
  CASE c.circuit = "check_health_v2"  -> check_health_v2_callback(account, c.output)
    [] c.circuit = "init_position_v2" -> init_position_v2_callback(account, c.output)
    [] OTHER                          -> add_v2_callback(account, c.output)

Without(pending, offset) == [o \in DOMAIN pending \ {offset} |-> pending[o]]
===============================================================================
