---------------------------- MODULE PrivatePosition ----------------------------
(***************************************************************************)
(* The life of one private position: its account, the computations in      *)
(* flight on it, the cluster that runs them, lets them fail or expire, and *)
(* calls back, and the owner and keepers who queue them.  Whether the      *)
(* market lets an instruction through is left to PrivateLending.           *)
(***************************************************************************)
EXTENDS PrivateState

CONSTANTS
  MaxAdd,      \* bound: whole tokens one deposit or borrow adds; 0 for a fraction
  OwnerWaits   \* whether the owner queues nothing before the last answer

ASSUME PositionAssumption ==
  /\ MaxAdd \in 0 .. MaxTokens
  /\ OwnerWaits \in BOOLEAN

VARIABLES
  account,  \* the PrivateObligation account
  pending   \* computations in flight, by computation_offset

vars == <<account, pending>>

-------------------------------------------------------------------------------
Init == account = NewAccount /\ pending = << >>

\* scripts/test-private-layer.ts polls the account after each of its calls.
OwnerReady == OwnerWaits => \A o \in DOMAIN pending : pending[o].circuit \notin Updates

init_private_obligation(offset) ==
  /\ OwnerReady
  /\ CanQueue(pending, offset)
  /\ CanInitPrivate(account)
  /\ account' = init_private(account)
  /\ pending' = queue_computation(account, pending, offset, "init_position_v2", 0, NoPrices)

private_deposit_collateral(offset, r, amount) ==
  /\ OwnerReady
  /\ CanQueue(pending, offset)
  /\ CanPrivateDeposit(account, amount)
  /\ account' = with_collateral_reserve(account, r)
  /\ pending' = queue_computation(account, pending, offset, "add_collateral_v2", amount, NoPrices)

private_borrow(offset, r, amount) ==
  /\ OwnerReady
  /\ CanQueue(pending, offset)
  /\ CanPrivateBorrow(account, amount)
  /\ account' = with_borrow_reserve(account, r)
  /\ pending' = queue_computation(account, pending, offset, "add_borrow_v2", amount, NoPrices)

\* Anyone's to call, at prices of the caller's choice.
private_check_liquidatable(offset, prices) ==
  /\ CanQueue(pending, offset)
  /\ account.is_initialized
  /\ pending' = queue_computation(account, pending, offset, "check_health_v2", 0, prices)
  /\ UNCHANGED account

execute_private_liquidation ==
  /\ account.is_liquidatable
  /\ account' = [account EXCEPT !.is_liquidatable = FALSE]
  /\ UNCHANGED pending

\* The cluster runs the circuit on the account as it is now.
Run(offset) ==
  /\ pending[offset].output = NoOutput
  /\ \E output \in Outputs(account, pending[offset], FreshNonce(account, pending)) :
       pending' = [pending EXCEPT ![offset].output = output]
  /\ UNCHANGED account

Fail(offset) ==
  /\ pending[offset].output = NoOutput
  /\ pending' = [pending EXCEPT ![offset].output = Failure]
  /\ UNCHANGED account

Callback(offset) ==
  /\ pending[offset].output \notin {NoOutput, Failure}
  /\ account' = Delivered(account, pending[offset])
  /\ pending' = Without(pending, offset)

\* The callback of a failure errs (AbortedComputation) and changes nothing; a
\* computation that expires is not called back.
Lost(offset) ==
  /\ pending' = Without(pending, offset)
  /\ UNCHANGED account

OwnerStep(offset) ==
  \/ init_private_obligation(offset)
  \/ \E r \in Reserves, amount \in 0 .. MaxAdd :
       private_deposit_collateral(offset, r, amount) \/ private_borrow(offset, r, amount)

ClusterStep(offset) == Run(offset) \/ Fail(offset) \/ Callback(offset) \/ Lost(offset)

Next ==
  \/ \E offset \in Offsets : OwnerStep(offset)
  \/ \E offset \in Offsets, prices \in Prices : private_check_liquidatable(offset, prices)
  \/ execute_private_liquidation
  \/ \E offset \in DOMAIN pending : ClusterStep(offset)

Spec == Init /\ [][Next]_vars

(***************************************************************************)
(* The cluster answers or lets expire every computation it took, and does  *)
(* not fail an initialisation every time it is asked for one; an owner     *)
(* whose initialisation was lost asks again.                               *)
(***************************************************************************)
Opening(offset) ==
  offset \in DOMAIN pending /\ pending[offset].circuit = "init_position_v2"

Fairness ==
  /\ \A offset \in Offsets :
       WF_vars(offset \in DOMAIN pending /\ (Callback(offset) \/ Lost(offset)))
  /\ SF_vars(\E offset \in Offsets : Opening(offset) /\ Run(offset))
  /\ SF_vars(\E offset \in Offsets : Opening(offset) /\ Callback(offset))
  /\ WF_vars(\E offset \in Offsets : init_private_obligation(offset))

FairSpec == Spec /\ Fairness

-------------------------------------------------------------------------------
TypeOK ==
  /\ account \in AccountType
  /\ DOMAIN pending \subseteq Offsets
  /\ \A o \in DOMAIN pending : pending[o] \in ComputationType

\* Tokens in the encrypted position always come with the address of the
\* reserve they belong to, although the one is written by callbacks and the
\* other by instructions, and setting an account up again resets it.
PositionHasReserves ==
  Plain(account) # Unreadable =>
    /\ Plain(account).collateral_tokens > 0 => account.collateral_reserve # NoReserve
    /\ Plain(account).borrow_tokens > 0 => account.borrow_reserve # NoReserve

\* The circuit's divisions never call a position healthy that its collateral
\* does not cover: what they round off is the borrower's, never the lenders'.
HealthyMeansCovered ==
  [][\A o \in DOMAIN pending \cap DOMAIN pending' :
       /\ pending[o].circuit = "check_health_v2"
       /\ pending[o].nonce = account.nonce
       /\ Plain(account) # Unreadable
       /\ pending[o].output = NoOutput
       /\ pending'[o].output = [healthy |-> TRUE]
       => Covers(Plain(account), pending[o].prices)]_vars

\* The changes an owner who waits for the answers asks for are made exactly
\* once and in their order or not at all, whatever fails, expires or is checked
\* meanwhile: no callback is applied to a state other than the one it was
\* computed from.
UpdatesIn(p) == {o \in DOMAIN p : p[o].circuit \in Updates}
Standing(a)  == IF a.is_initialized THEN Plain(a) ELSE NoOutput
Due(p) ==
  IF UpdatesIn(p) = {} THEN NoOutput
  ELSE LET c == p[CHOOSE o \in UpdatesIn(p) : TRUE]
       IN  [circuit |-> c.circuit, amount |-> c.amount]

Ledger == INSTANCE PositionLedger WITH
  Nothing   <- NoOutput,
  MaxChange <- MaxAdd,
  position  <- Standing(account),
  due       <- Due(pending)

\* What stands for nothing is no change.
ASSUME LedgerAssumption == NoOutput \notin Ledger!Changes

ImplementsLedger == Ledger!Spec

\* init_private_obligation: "Safe to re-call if a previous computation expired
\* before the callback fired": an owner who does so gets a position in the end,
\* and never loses it again.
InitialisationCompletes == <>[]account.is_initialized
===============================================================================
