---------------------------- MODULE PositionLedger ----------------------------
(***************************************************************************)
(* What the private layer promises the owner of a position: each change    *)
(* asked for is, sooner or later, made exactly once on what the changes    *)
(* before it left, or dropped with no trace.                               *)
(***************************************************************************)
EXTENDS Circuits

CONSTANTS
  Nothing,     \* no position yet, and no change asked for
  MaxChange    \* bound: largest change, in whole tokens

Changes ==
  [ circuit : {"init_position_v2", "add_collateral_v2", "add_borrow_v2"},
    amount  : 0 .. MaxChange ]

VARIABLES
  position,  \* the position the account stands for
  due        \* the change asked for and not settled

vars == <<position, due>>

Init == position = Nothing /\ due = Nothing

\* A position is opened once, and changed only when open.
Ask(change) ==
  /\ due = Nothing
  /\ change.circuit = "init_position_v2" <=> position = Nothing
  /\ due' = change
  /\ UNCHANGED position

Changed ==
  CASE due.circuit = "init_position_v2"  -> init_position_v2
    [] due.circuit = "add_collateral_v2" -> add_collateral_v2(position, due.amount)
    [] due.circuit = "add_borrow_v2"     -> add_borrow_v2(position, due.amount)

Make == /\ due # Nothing
        /\ position' = Changed
        /\ due' = Nothing

Drop == /\ due # Nothing
        /\ due' = Nothing
        /\ UNCHANGED position

Next == (\E change \in Changes : Ask(change)) \/ Make \/ Drop

\* No change stays due for ever.
Spec == Init /\ [][Next]_vars /\ WF_vars(Make \/ Drop)
===============================================================================
