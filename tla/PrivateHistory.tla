---------------------------- MODULE PrivateHistory ----------------------------
(***************************************************************************)
(* PrivatePosition with a history: which of the computations in flight     *)
(* were queued before the last liquidation.                                *)
(***************************************************************************)
EXTENDS PrivatePosition

VARIABLE outdated  \* offsets in flight since before the last liquidation

LiquidationStep == account.is_liquidatable /\ ~account'.is_liquidatable /\ pending' = pending

HistoryInit == Init /\ outdated = {}

HistoryNext ==
  /\ Next
  /\ outdated' = IF LiquidationStep THEN DOMAIN pending ELSE outdated \cap DOMAIN pending'

HistorySpec == HistoryInit /\ [][HistoryNext]_<<vars, outdated>>

-------------------------------------------------------------------------------
\* execute_private_liquidation: "Clear flag; position needs a fresh MPC check
\* to be re-liquidated": the flag goes up again only by a check queued since.
FreshCheckPerLiquidation ==
  [][~account.is_liquidatable /\ account'.is_liquidatable =>
       (DOMAIN pending \ DOMAIN pending') \cap outdated = {}]_<<vars, outdated>>
===============================================================================
