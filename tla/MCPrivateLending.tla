--------------------------- MODULE MCPrivateLending ---------------------------
(***************************************************************************)
(* The market of MCLending with one reserve and one user who mixes public  *)
(* and private instructions; the owner may take the oracle away.           *)
(***************************************************************************)
EXTENDS PrivateLending

BaseConfig ==
  [ status                    |-> 0,
    deposit_limit             |-> 4,
    borrow_limit              |-> 2,
    min_borrow_rate_bps       |-> 10000,
    optimal_borrow_rate_bps   |-> 10000,
    max_borrow_rate_bps       |-> 10000,
    optimal_utilization_bps   |-> 5000,
    liquidation_bonus_pct     |-> 5000,
    protocol_fee              |-> 1000,
    loan_to_value_pct         |-> 50,
    liquidation_threshold_pct |-> 100,
    pyth_oracle               |-> TRUE ]

MCConfigs == {BaseConfig, [BaseConfig EXCEPT !.pyth_oracle = FALSE]}
MCAmounts == {2}

MCMessages ==
  {[ verified |-> TRUE, price |-> 1, conf |-> 0, up |-> 1, down |-> 1, publish_time |-> 0 ]}

MCPrices ==
  {[ exchange_rate_bps      |-> 10000,
     collateral_price_cents |-> 1,
     borrow_price_cents     |-> 1,
     ltv_bps                |-> 8500 ]}
===============================================================================
