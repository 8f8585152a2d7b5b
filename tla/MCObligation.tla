----------------------------- MODULE MCObligation -----------------------------
(***************************************************************************)
(* One obligation among reserves that are seen at par, or after interest   *)
(* and at another price.                                                   *)
(***************************************************************************)
EXTENDS Obligation, TLC

MCConfig ==
  [ status                    |-> 0,
    deposit_limit             |-> 0,
    borrow_limit              |-> 0,
    min_borrow_rate_bps       |-> 0,
    optimal_borrow_rate_bps   |-> 0,
    max_borrow_rate_bps       |-> 0,
    optimal_utilization_bps   |-> 0,
    liquidation_bonus_pct     |-> 5000,
    protocol_fee              |-> 0,
    loan_to_value_pct         |-> 40,
    liquidation_threshold_pct |-> 100,
    pyth_oracle               |-> TRUE ]

MCReserve(liquidity, ctokens, index, price) ==
  [ NewReserve(MCConfig, 0) EXCEPT
      !.available_amount = liquidity, !.mint_total_supply = ctokens,
      !.cumulative_borrow_rate_sf = index, !.market_price_sf = price ]

\* For the slots: small amounts, at par, with a price and without, and then
\* at two units a cToken.
FewStates  == {MCReserve(2, 2, 2, 2), MCReserve(2, 2, 2, 0), MCReserve(2, 1, 3, 1)}
FewAmounts == {1, 2}

\* For the comments: nothing moves but the obligation.
OneState == {MCReserve(9, 9, 2, 2)}

\* For the amounts: indices 3, 5 and 7, which divide no debt evenly, and a rate of 4/3.
ManyStates  == {MCReserve(9, 9, 3, 2), MCReserve(12, 9, 5, 1), MCReserve(12, 9, 7, 1)}
ManyAmounts == {1, 3, 5}

Interchangeable == Permutations(Reserves)
===============================================================================
