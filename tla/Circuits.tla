------------------------------- MODULE Circuits -------------------------------
(***************************************************************************)
(* The circuits the MPC cluster (the MXE) runs on an encrypted position    *)
(* (encrypted-ixs/src/lib.rs), as functions of what the ciphertexts stand  *)
(* for.  remove_collateral_2 and remove_borrow_2 are not here: the program *)
(* registers no such computation and never asks for one.                   *)
(***************************************************************************)
EXTENDS Integers

CONSTANT MaxTokens  \* the cap of the precision note: ~10^9 whole tokens

ASSUME CapAssumption == MaxTokens \in Nat

\* 10_000 for the exchange rate and 10_000 for the threshold.
BPS_SQUARED == 100000000

PrivatePosition ==
  [ collateral_tokens : 0 .. MaxTokens, borrow_tokens : 0 .. MaxTokens ]

\* What a keeper sends with a check.
PriceType ==
  [ exchange_rate_bps      : Nat,
    collateral_price_cents : Nat,
    borrow_price_cents     : Nat,
    ltv_bps                : Nat ]

init_position_v2 == [ collateral_tokens |-> 0, borrow_tokens |-> 0 ]

\* Mutant of CanAddBorrow: what the position has already is not counted.
CapsTheAddition(pos, amount) == amount <= MaxTokens

\* A client keeps below the cap, so that no product leaves u64.
CanAddCollateral(pos, amount) == pos.collateral_tokens + amount <= MaxTokens
CanAddBorrow(pos, amount)     == pos.borrow_tokens + amount <= MaxTokens

add_collateral_v2(pos, amount) == [pos EXCEPT !.collateral_tokens = @ + amount]
add_borrow_v2(pos, amount)     == [pos EXCEPT !.borrow_tokens = @ + amount]

\* Mutant of check_health_v2: the division rounds up.
CheckHealthRoundedUp(pos, p) ==
  LET coll_adj == (pos.collateral_tokens * p.exchange_rate_bps * p.ltv_bps + BPS_SQUARED - 1)
                    \div BPS_SQUARED
  IN  coll_adj * p.collateral_price_cents >= pos.borrow_tokens * p.borrow_price_cents

check_health_v2(pos, p) ==
  LET coll_adj == (pos.collateral_tokens * p.exchange_rate_bps * p.ltv_bps) \div BPS_SQUARED
  IN  coll_adj * p.collateral_price_cents >= pos.borrow_tokens * p.borrow_price_cents

\* The same comparison with nothing rounded off.
Covers(pos, p) ==
  pos.collateral_tokens * p.exchange_rate_bps * p.ltv_bps * p.collateral_price_cents
    >= pos.borrow_tokens * p.borrow_price_cents * BPS_SQUARED
===============================================================================
