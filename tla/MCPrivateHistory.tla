--------------------------- MODULE MCPrivateHistory ---------------------------
(***************************************************************************)
(* One position and two keepers, at par and one price.                     *)
(***************************************************************************)
EXTENDS PrivateHistory

MCPrices ==
  { [ exchange_rate_bps      |-> 10000,
      collateral_price_cents |-> 1,
      borrow_price_cents     |-> 1,
      ltv_bps                |-> 8500 ] }
===============================================================================
