------------------------------- MODULE MCPrivate -------------------------------
(***************************************************************************)
(* One position among two reserves.  A cToken is worth 1.02 and counts for *)
(* 85 percent: one token covers 0.867, which the circuit rounds to 0, and  *)
(* two cover 1.734, which it rounds to 1.                                  *)
(***************************************************************************)
EXTENDS PrivatePosition

Quote(collateral, borrow) ==
  [ exchange_rate_bps      |-> 10200,
    collateral_price_cents |-> collateral,
    borrow_price_cents     |-> borrow,
    ltv_bps                |-> 8500 ]

MCPrices == {Quote(1, 1), Quote(3, 1)}
===============================================================================
