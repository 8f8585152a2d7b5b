------------------------------- MODULE MCReserve -------------------------------
(***************************************************************************)
(* One reserve on small numbers.  RATE_SCALE = SLOTS_PER_YEAR = 2 makes a  *)
(* slot charge (bps / 10000) of the debt in halves, so that interest, its  *)
(* rounding and the protocol's share all occur within a few slots.         *)
(***************************************************************************)
EXTENDS Reserve

BaseConfig ==
  [ status                    |-> 0,
    deposit_limit             |-> 12,
    borrow_limit              |-> 10,
    min_borrow_rate_bps       |-> 10000,
    optimal_borrow_rate_bps   |-> 10000,
    max_borrow_rate_bps       |-> 20000,
    optimal_utilization_bps   |-> 5000,
    liquidation_bonus_pct     |-> 500,
    protocol_fee              |-> 1000,
    loan_to_value_pct         |-> 50,
    liquidation_threshold_pct |-> 80,
    pyth_oracle               |-> TRUE ]

MCConfigs ==
  { BaseConfig,
    [BaseConfig EXCEPT !.status = 1],
    [BaseConfig EXCEPT !.protocol_fee = 0, !.pyth_oracle = FALSE],
    [BaseConfig EXCEPT !.protocol_fee = 5000] }

MCAmounts    == {1, 10}
MCPrices     == {2}
MCTimestamps == {0}
===============================================================================
