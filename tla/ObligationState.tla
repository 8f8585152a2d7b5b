--------------------------- MODULE ObligationState ---------------------------
(***************************************************************************)
(* One Obligation account (state/obligation.rs) as a record: two arrays of *)
(* slots, how many are in use, and the stamp of the last refresh.  As in   *)
(* ReserveState, op(o, ..) is what a method leaves behind and CanOp(o, ..) *)
(* says that it returns Ok.                                                *)
(***************************************************************************)
EXTENDS ReserveState, Addresses, FiniteSetsExt

CONSTANTS
  MAX_DEPOSITS_COUNT_IN_RESERVE,   \* deposit slots of an obligation
  MAX_BORROW_COUNT_IN_RESERVE      \* borrow slots of an obligation

ASSUME ObligationAssumption ==
  /\ MAX_DEPOSITS_COUNT_IN_RESERVE \in 1 .. 255
  /\ MAX_BORROW_COUNT_IN_RESERVE \in 1 .. 255

DepositSlots == 1 .. MAX_DEPOSITS_COUNT_IN_RESERVE
BorrowSlots  == 1 .. MAX_BORROW_COUNT_IN_RESERVE

CollateralType ==
  [ reserve          : Reserves \cup {NoReserve},
    deposited_amount : U64,
    market_value_sf  : U128 ]

LiquidityType ==
  [ reserve                   : Reserves \cup {NoReserve},
    borrowed_amount_sf        : U128,
    cumulative_borrow_rate_sf : U128,
    market_value_sf           : U128 ]

ObligationType ==
  [ deposits       : [DepositSlots -> CollateralType],
    borrows        : [BorrowSlots -> LiquidityType],
    deposits_count : U8,
    borrows_count  : U8,
    slot           : U64 ]

\* A slot just opened for r; NoReserve gives the default of a slot.
FreshCollateral(r) ==
  [ reserve |-> r, deposited_amount |-> 0, market_value_sf |-> 0 ]
FreshLiquidity(r, rate) ==
  [ reserve |-> r, borrowed_amount_sf |-> 0, cumulative_borrow_rate_sf |-> rate,
    market_value_sf |-> 0 ]
EmptyCollateral == FreshCollateral(NoReserve)
EmptyLiquidity  == FreshLiquidity(NoReserve, RATE_SCALE)

NewObligation ==
  [ deposits       |-> [i \in DepositSlots |-> EmptyCollateral],
    borrows        |-> [i \in BorrowSlots |-> EmptyLiquidity],
    deposits_count |-> 0,
    borrows_count  |-> 0,
    slot           |-> 0 ]

(***************************************************************************)
(* Slots.  A reserve has at most one, found by its key; a slot given back  *)
(* keeps its place, and the count only says how many are in use.           *)
(***************************************************************************)
Holding(slots, r) == {i \in DOMAIN slots : slots[i].reserve = r}
Active(slots)     == {i \in DOMAIN slots : slots[i].reserve # NoReserve}

FirstOf(S) == CHOOSE i \in S : \A j \in S : i <= j

CanFind(slots, r) == Holding(slots, r) # {}
find(slots, r)    == FirstOf(Holding(slots, r))

CanFindOrAdd(slots, r) == CanFind(slots, r) \/ CanFind(slots, NoReserve)
find_or_add(slots, r)  == find(slots, IF CanFind(slots, r) THEN r ELSE NoReserve)

\* `[..count]` in the code: the active slots among the first `count`.
InPrefix(slots, count) == {i \in Active(slots) : i <= count}

OneMore(count) == Smaller(count + 1, 255)
OneLess(count) == SaturatingSub(count, 1)

(***************************************************************************)
(* Collateral.                                                             *)
(***************************************************************************)
\* Mutant of CanDeposit: an addition that is not checked.
CanDepositUnchecked(o, r, amount) == amount > 0 /\ CanFindOrAdd(o.deposits, r)

CanDeposit(o, r, amount) ==
  /\ amount > 0
  /\ CanFindOrAdd(o.deposits, r)
  /\ o.deposits[find_or_add(o.deposits, r)].deposited_amount + amount <= MAX_U64

\* Mutant of deposit: a second deposit replaces the first.
DepositReplaces(o, r, amount) ==
  [o EXCEPT !.deposits[find_or_add(o.deposits, r)] =
               [FreshCollateral(r) EXCEPT !.deposited_amount = amount],
            !.deposits_count = IF CanFind(o.deposits, r) THEN @ ELSE OneMore(@)]

deposit(o, r, amount) ==
  LET i     == find_or_add(o.deposits, r)
      fresh == o.deposits[i].reserve = NoReserve
      slot  == IF fresh THEN FreshCollateral(r) ELSE o.deposits[i]
  IN  [o EXCEPT !.deposits[i]    = [slot EXCEPT !.deposited_amount = @ + amount],
                !.deposits_count = IF fresh THEN OneMore(@) ELSE @]

\* Mutant of CanWithdraw: off by one, the last token cannot leave.
CanWithdrawLess(o, r, amount) ==
  /\ amount > 0
  /\ CanFind(o.deposits, r)
  /\ amount < o.deposits[find(o.deposits, r)].deposited_amount

CanWithdraw(o, r, amount) ==
  /\ amount > 0
  /\ CanFind(o.deposits, r)
  /\ amount <= o.deposits[find(o.deposits, r)].deposited_amount

\* Mutant of withdraw: an emptied slot is not given back.
WithdrawKeepsSlot(o, r, amount) ==
  [o EXCEPT !.deposits[find(o.deposits, r)].deposited_amount = @ - amount]

withdraw(o, r, amount) ==
  LET i    == find(o.deposits, r)
      left == o.deposits[i].deposited_amount - amount
  IN  IF left = 0
      THEN [o EXCEPT !.deposits[i] = EmptyCollateral, !.deposits_count = OneLess(@)]
      ELSE [o EXCEPT !.deposits[i].deposited_amount = left]

(***************************************************************************)
(* Debt, scaled by RATE_SCALE.                                             *)
(***************************************************************************)
CanObligationBorrow(o, r, amount) ==
  /\ amount > 0
  /\ CanFindOrAdd(o.borrows, r)
  /\ CanMul(amount, RATE_SCALE)
  /\ o.borrows[find_or_add(o.borrows, r)].borrowed_amount_sf + amount * RATE_SCALE <= MAX_U128

obligation_borrow(o, r, amount, rate) ==
  LET i     == find_or_add(o.borrows, r)
      fresh == o.borrows[i].reserve = NoReserve
      slot  == IF fresh THEN FreshLiquidity(r, rate) ELSE o.borrows[i]
  IN  [o EXCEPT !.borrows[i]    = [slot EXCEPT !.borrowed_amount_sf = @ + amount * RATE_SCALE],
                !.borrows_count = IF fresh THEN OneMore(@) ELSE @]

CanObligationRepay(o, r, amount) ==
  /\ amount > 0
  /\ CanFind(o.borrows, r)
  /\ CanMul(amount, RATE_SCALE)
  /\ amount * RATE_SCALE <= o.borrows[find(o.borrows, r)].borrowed_amount_sf

\* Mutant of obligation_repay: only an exact repayment closes the slot.
RepayKeepsDust(o, r, amount) ==
  LET i    == find(o.borrows, r)
      left == o.borrows[i].borrowed_amount_sf - amount * RATE_SCALE
  IN  IF left = 0
      THEN [o EXCEPT !.borrows[i] = EmptyLiquidity, !.borrows_count = OneLess(@)]
      ELSE [o EXCEPT !.borrows[i].borrowed_amount_sf = left]

\* Less than one token of debt is forgiven with the slot.
obligation_repay(o, r, amount) ==
  LET i    == find(o.borrows, r)
      left == o.borrows[i].borrowed_amount_sf - amount * RATE_SCALE
  IN  IF left < RATE_SCALE
      THEN [o EXCEPT !.borrows[i] = EmptyLiquidity, !.borrows_count = OneLess(@)]
      ELSE [o EXCEPT !.borrows[i].borrowed_amount_sf = left]

\* accrue_interest on one active borrow slot, up to the reserve's rate.
CanAccrueDebt(b, rate) ==
  /\ rate >= b.cumulative_borrow_rate_sf
  /\ rate # b.cumulative_borrow_rate_sf => CanMul(b.borrowed_amount_sf, rate)

\* Mutant of AccruedDebt: every accrual rounds up.
AccruedDebtRoundedUp(b, rate) ==
  [b EXCEPT !.borrowed_amount_sf =
              (@ * rate + b.cumulative_borrow_rate_sf - 1) \div b.cumulative_borrow_rate_sf,
            !.cumulative_borrow_rate_sf = rate]

\* The checked division bounds the quotient to what fits, by CanMul.
AccruedDebt(b, rate) ==
  [b EXCEPT !.borrowed_amount_sf = MulDiv(@, rate, b.cumulative_borrow_rate_sf),
            !.cumulative_borrow_rate_sf = rate]

obligation_accrue(o, r, rate) ==
  [o EXCEPT !.borrows[find(o.borrows, r)] = AccruedDebt(@, rate)]
CanObligationAccrue(o, r, rate) ==
  CanAccrueDebt(o.borrows[find(o.borrows, r)], rate)

(***************************************************************************)
(* Values.  health_factor divides two scaled amounts, so what it compares  *)
(* with RATE_SCALE is a plain ratio.                                       *)
(***************************************************************************)
ValueOf(slots, S) == MapThenSumSet(LAMBDA i : slots[i].market_value_sf, S)

PrefixDeposits(o) == ValueOf(o.deposits, InPrefix(o.deposits, o.deposits_count))
PrefixBorrows(o)  == ValueOf(o.borrows, InPrefix(o.borrows, o.borrows_count))

Saturated(x) == Smaller(x, MAX_U128)

health_factor(o) == Saturated(PrefixDeposits(o)) \div Saturated(PrefixBorrows(o))

\* `None` of health_factor: nothing borrowed.
BorrowFree(o) == PrefixBorrows(o) = 0
is_healthy(o) == ~BorrowFree(o) => health_factor(o) >= RATE_SCALE

\* Mutant of is_slot_stale: only a stamp from the future is stale.
StaleWhenAhead(o, slot) == o.slot > slot

is_slot_stale(o, slot) == o.slot # slot

(***************************************************************************)
(* refresh_obligation: debts up to the rates the reserves have stored, and *)
(* the values of both sides, slot by slot.                                 *)
(***************************************************************************)
CanPriceDebt(b, r) ==
  r.market_price_sf # 0 =>
    /\ CanAccrueDebt(b, r.cumulative_borrow_rate_sf)
    /\ CanMul(AccruedDebt(b, r.cumulative_borrow_rate_sf).borrowed_amount_sf \div RATE_SCALE,
              r.market_price_sf)

\* Mutant of PricedDebt: a price of 0 is taken at its word.
PricedAtAnyPrice(b, r) ==
  LET now == AccruedDebt(b, r.cumulative_borrow_rate_sf)
  IN  [now EXCEPT !.market_value_sf =
         (now.borrowed_amount_sf \div RATE_SCALE) * r.market_price_sf]

PricedDebt(b, r) ==
  IF r.market_price_sf = 0
  THEN b
  ELSE LET now == AccruedDebt(b, r.cumulative_borrow_rate_sf)
       IN  [now EXCEPT !.market_value_sf =
              (now.borrowed_amount_sf \div RATE_SCALE) * r.market_price_sf]

Underlying(c, r) ==
  IF r.mint_total_supply = 0
  THEN 0
  ELSE MulDiv(c.deposited_amount, total_supply(r), r.mint_total_supply)

CanPriceCollateral(c, r) ==
  r.market_price_sf # 0 =>
    /\ r.mint_total_supply # 0 => CanMul(c.deposited_amount, total_supply(r))
    /\ CanMul(Underlying(c, r), r.market_price_sf)
    /\ CanMul(Underlying(c, r) * r.market_price_sf, r.config.liquidation_threshold_pct)

PricedCollateral(c, r) ==
  IF r.market_price_sf = 0
  THEN c
  ELSE [c EXCEPT !.market_value_sf =
          MulDiv(Underlying(c, r) * r.market_price_sf, r.config.liquidation_threshold_pct,
                 PERCENT_SCALER)]

CanRefreshObligation(o, reserves) ==
  /\ \A i \in InPrefix(o.borrows, o.borrows_count) :
       LET r == reserves[o.borrows[i].reserve]
       IN  CanTotalSupply(r) /\ CanPriceDebt(o.borrows[i], r)
  /\ \A i \in InPrefix(o.deposits, o.deposits_count) :
       LET r == reserves[o.deposits[i].reserve]
       IN  CanTotalSupply(r) /\ CanPriceCollateral(o.deposits[i], r)

refresh_obligation(o, reserves, slot) ==
  [o EXCEPT
     !.borrows  = [i \in BorrowSlots |->
                     IF i \in InPrefix(o.borrows, o.borrows_count)
                     THEN PricedDebt(o.borrows[i], reserves[o.borrows[i].reserve])
                     ELSE o.borrows[i]],
     !.deposits = [i \in DepositSlots |->
                     IF i \in InPrefix(o.deposits, o.deposits_count)
                     THEN PricedCollateral(o.deposits[i], reserves[o.deposits[i].reserve])
                     ELSE o.deposits[i]],
     !.slot     = slot]
==============================================================================
