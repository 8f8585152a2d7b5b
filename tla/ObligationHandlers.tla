-------------------------- MODULE ObligationHandlers --------------------------
(***************************************************************************)
(* What each instruction does to the obligation it is given, between       *)
(* loading the account and the token transfers.  `res` is the reserve's    *)
(* account as the handler sees it, after any accrual of its own.           *)
(***************************************************************************)
EXTENDS ObligationState

MAX_LIQUIDATION_CLOSE_FACTOR_PCT == 50

(***************************************************************************)
(* withdraw_collateral: the slot's value shrinks with its amount, the      *)
(* collateral leaves, and what remains must be healthy.                    *)
(***************************************************************************)
ValueReduced(o, r, amount) ==
  LET d == o.deposits[find(o.deposits, r)]
  IN  [o EXCEPT !.deposits[find(o.deposits, r)].market_value_sf =
         MulDiv(d.market_value_sf, d.deposited_amount - amount, d.deposited_amount)]

release_collateral(o, r, amount) == withdraw(ValueReduced(o, r, amount), r, amount)

CanReleaseCollateral(o, r, amount, slot) ==
  /\ ~is_slot_stale(o, slot)
  /\ CanWithdraw(o, r, amount)
  /\ LET d == o.deposits[find(o.deposits, r)]
     IN  CanMul(d.market_value_sf, d.deposited_amount - amount)
  /\ is_healthy(release_collateral(o, r, amount))

(***************************************************************************)
(* borrow and private_borrow: interest on the debt already there, the new  *)
(* debt, and a check that adds its value to the values the refresh left.   *)
(* Each has its own say on whether that refresh must be of this slot.      *)
(***************************************************************************)
WithDebtCurrent(o, r, res) ==
  IF CanFind(o.borrows, r)
  THEN obligation_accrue(o, r, res.cumulative_borrow_rate_sf)
  ELSE o

borrow_against(o, r, amount, res) ==
  obligation_borrow(WithDebtCurrent(o, r, res), r, amount, res.cumulative_borrow_rate_sf)

CanBorrowAgainst(o, r, amount, res) ==
  LET after == borrow_against(o, r, amount, res)
      debts == PrefixBorrows(after) + amount * res.market_price_sf
  IN  /\ CanFind(o.borrows, r) => CanObligationAccrue(o, r, res.cumulative_borrow_rate_sf)
      /\ CanObligationBorrow(WithDebtCurrent(o, r, res), r, amount)
      /\ PrefixDeposits(after) <= MAX_U128
      /\ debts <= MAX_U128
      /\ PrefixDeposits(after) >= debts

(***************************************************************************)
(* repay: interest first, then the payment.                                *)
(***************************************************************************)
repay_debt(o, r, amount, res) ==
  obligation_repay(obligation_accrue(o, r, res.cumulative_borrow_rate_sf), r, amount)

CanRepayDebt(o, r, amount, res) ==
  /\ CanFind(o.borrows, r)
  /\ CanObligationAccrue(o, r, res.cumulative_borrow_rate_sf)
  /\ CanObligationRepay(obligation_accrue(o, r, res.cumulative_borrow_rate_sf), r, amount)

(***************************************************************************)
(* liquidate and execute_private_liquidation: at most half of the debt in   *)
(* `rr` is repaid, and collateral in `wr` of that value and a bonus is      *)
(* seized, as far as there is any.                                         *)
(***************************************************************************)
RawDebt(o, rr, rres) ==
  AccruedDebt(o.borrows[find(o.borrows, rr)], rres.cumulative_borrow_rate_sf)
    .borrowed_amount_sf \div RATE_SCALE

\* Mutant of ActualRepay: the close factor is forgotten.
RepayAsAsked(o, rr, rres, repay_amount) ==
  Smaller(repay_amount, RawDebt(o, rr, rres))

ActualRepay(o, rr, rres, repay_amount) ==
  Smaller(repay_amount,
          AsU64(MulDiv(RawDebt(o, rr, rres), MAX_LIQUIDATION_CLOSE_FACTOR_PCT, 100)))

BonusValue(amount, rres, wres) ==
  MulDiv(amount * rres.market_price_sf, BPS_SCALER + wres.config.liquidation_bonus_pct,
         BPS_SCALER)

\* Mutant of SeizedFor: liquidity is seized as if it were cTokens.
SeizedUnconverted(value, wres) == value \div wres.market_price_sf

\* The liquidation's own conversion, of the same total_supply and cTokens as
\* the exchange rate's but without its cast.
SeizedFor(value, wres) ==
  LET underlying == value \div wres.market_price_sf
  IN  IF wres.mint_total_supply = 0 \/ total_supply(wres) = 0
      THEN underlying
      ELSE MulDiv(underlying, wres.mint_total_supply, total_supply(wres))

Seized(o, wr, amount, rres, wres) ==
  AsU64(Smaller(SeizedFor(BonusValue(amount, rres, wres), wres),
                o.deposits[find(o.deposits, wr)].deposited_amount))

\* What both liquidations ask for; whether the obligation is unhealthy each
\* finds out in its own way.
CanSeize(o, rr, wr, repay_amount, rres, wres, slot) ==
  LET amount == ActualRepay(o, rr, rres, repay_amount)
  IN  /\ rres.market_price_sf > 0
      /\ wres.market_price_sf > 0
      /\ CanTotalSupply(wres)
      /\ ~is_slot_stale(o, slot)
      /\ CanFind(o.borrows, rr)
      /\ CanObligationAccrue(o, rr, rres.cumulative_borrow_rate_sf)
      /\ CanMul(RawDebt(o, rr, rres), MAX_LIQUIDATION_CLOSE_FACTOR_PCT)
      /\ amount > 0
      /\ CanMul(amount, rres.market_price_sf)
      /\ CanMul(amount * rres.market_price_sf, BPS_SCALER + wres.config.liquidation_bonus_pct)
      /\ total_supply(wres) # 0 =>
           CanMul(BonusValue(amount, rres, wres) \div wres.market_price_sf,
                  wres.mint_total_supply)
      /\ CanFind(o.deposits, wr)
      /\ Seized(o, wr, amount, rres, wres) > 0
      /\ CanRepayDebt(o, rr, amount, rres)

CanLiquidate(o, rr, wr, repay_amount, rres, wres, slot) ==
  ~is_healthy(o) /\ CanSeize(o, rr, wr, repay_amount, rres, wres, slot)

\* Mutant of liquidated: the collateral is seized and the debt stays.
SeizedUnpaid(o, rr, wr, amount, seized, rres) == withdraw(o, wr, seized)

\* The values of the slots are left as the last refresh wrote them.
liquidated(o, rr, wr, amount, seized, rres) ==
  withdraw(repay_debt(o, rr, amount, rres), wr, seized)

(***************************************************************************)
(* What an obligation has locked and owes in one reserve.                  *)
(***************************************************************************)
CollateralIn(o, r) ==
  IF CanFind(o.deposits, r) THEN o.deposits[find(o.deposits, r)].deposited_amount ELSE 0
DebtIn(o, r) ==
  IF CanFind(o.borrows, r) THEN o.borrows[find(o.borrows, r)].borrowed_amount_sf ELSE 0
===============================================================================
