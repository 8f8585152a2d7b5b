------------------------------ MODULE Obligation ------------------------------
(***************************************************************************)
(* The life of one obligation.  Its owner's instructions, the permissionless *)
(* refresh and liquidation each act on the account as a whole; the reserves *)
(* are an environment whose borrow index never falls, which is what Reserve *)
(* guarantees (InterestChargedOnce), and which otherwise does as it likes. *)
(***************************************************************************)
EXTENDS ObligationHandlers

CONSTANTS
  Amounts,        \* amounts an instruction may be called with
  ReserveStates,  \* states a reserve's account may be seen in
  MaxSlot,        \* bound: the last slot of the clock
  MaxDebt         \* bound: scaled debt that a borrow may leave in a slot

ASSUME LifeAssumption ==
  /\ Amounts \subseteq U64
  /\ ReserveStates \subseteq ReserveType
  /\ \A res \in ReserveStates : res.cumulative_borrow_rate_sf >= RATE_SCALE
  /\ MaxSlot \in U64 \ {0}
  /\ MaxDebt \in Nat

VARIABLES
  obligation,  \* the Obligation account
  reserves,    \* the Reserve accounts
  slot         \* Clock::slot

vars == <<obligation, reserves, slot>>

-------------------------------------------------------------------------------
\* init_obligation.
Init ==
  /\ obligation = NewObligation
  /\ reserves \in [Reserves -> ReserveStates]
  /\ slot = 1

DepositCollateral(r, amount) ==
  /\ is_active(reserves[r])
  /\ CanDeposit(obligation, r, amount)
  /\ obligation' = deposit(obligation, r, amount)
  /\ UNCHANGED <<reserves, slot>>

WithdrawCollateral(r, amount) ==
  /\ CanReleaseCollateral(obligation, r, amount, slot)
  /\ obligation' = release_collateral(obligation, r, amount)
  /\ UNCHANGED <<reserves, slot>>

BorrowMore(r, amount) ==
  /\ is_active(reserves[r])
  /\ reserves[r].market_price_sf > 0
  /\ ~is_slot_stale(obligation, slot)
  /\ CanBorrowAgainst(obligation, r, amount, reserves[r])
  /\ obligation' = borrow_against(obligation, r, amount, reserves[r])
  /\ DebtIn(obligation', r) <= MaxDebt
  /\ UNCHANGED <<reserves, slot>>

RepayDebt(r, amount) ==
  /\ is_active(reserves[r])
  /\ CanRepayDebt(obligation, r, amount, reserves[r])
  /\ obligation' = repay_debt(obligation, r, amount, reserves[r])
  /\ UNCHANGED <<reserves, slot>>

RefreshObligation ==
  /\ CanRefreshObligation(obligation, reserves)
  /\ obligation' = refresh_obligation(obligation, reserves, slot)
  /\ UNCHANGED <<reserves, slot>>

Liquidate(rr, wr, repay_amount) ==
  LET amount == ActualRepay(obligation, rr, reserves[rr], repay_amount)
      seized == Seized(obligation, wr, amount, reserves[rr], reserves[wr])
  IN  /\ is_active(reserves[rr])
      /\ is_active(reserves[wr])
      /\ CanLiquidate(obligation, rr, wr, repay_amount, reserves[rr], reserves[wr], slot)
      /\ obligation' = liquidated(obligation, rr, wr, amount, seized, reserves[rr])
      /\ UNCHANGED <<reserves, slot>>

\* Anything that happens to a reserve: interest, prices, other users.
ReserveMoves(r, res) ==
  /\ res.cumulative_borrow_rate_sf >= reserves[r].cumulative_borrow_rate_sf
  /\ reserves' = [reserves EXCEPT ![r] = res]
  /\ UNCHANGED <<obligation, slot>>

Tick ==
  /\ slot < MaxSlot
  /\ slot' = slot + 1
  /\ UNCHANGED <<obligation, reserves>>

Next ==
  \/ \E r \in Reserves, amount \in Amounts : DepositCollateral(r, amount)
  \/ \E r \in Reserves, amount \in Amounts : WithdrawCollateral(r, amount)
  \/ \E r \in Reserves, amount \in Amounts : BorrowMore(r, amount)
  \/ \E r \in Reserves, amount \in Amounts : RepayDebt(r, amount)
  \/ RefreshObligation
  \/ \E rr, wr \in Reserves, amount \in Amounts : Liquidate(rr, wr, amount)
  \/ \E r \in Reserves, res \in ReserveStates : ReserveMoves(r, res)
  \/ Tick

Spec == Init /\ [][Next]_vars

-------------------------------------------------------------------------------
TypeOK ==
  /\ obligation \in ObligationType
  /\ reserves \in [Reserves -> ReserveStates]
  /\ slot \in 1 .. MaxSlot

\* Whatever the order in which slots are opened and given back: a reserve has
\* at most one slot, a slot is in use exactly while something is in it, one
\* given back is as good as new, and the counts are the slots in use.
DepositsConsistent ==
  /\ obligation.deposits_count = Cardinality(Active(obligation.deposits))
  /\ \A i \in DepositSlots :
       LET d == obligation.deposits[i]
       IN  IF d.reserve = NoReserve
           THEN d = EmptyCollateral
           ELSE /\ d.deposited_amount > 0
                /\ Holding(obligation.deposits, d.reserve) = {i}

\* A debt of less than one token never stays on the books, and no snapshot is
\* ahead of its reserve, which accrue_interest would refuse for ever after.
BorrowsConsistent ==
  /\ obligation.borrows_count = Cardinality(Active(obligation.borrows))
  /\ \A i \in BorrowSlots :
       LET b == obligation.borrows[i]
       IN  IF b.reserve = NoReserve
           THEN b = EmptyLiquidity
           ELSE /\ b.borrowed_amount_sf >= RATE_SCALE
                /\ b.cumulative_borrow_rate_sf
                     \in RATE_SCALE .. reserves[b.reserve].cumulative_borrow_rate_sf
                /\ Holding(obligation.borrows, b.reserve) = {i}

\* Repaying the whole tokens of a debt always is accepted and always closes
\* it, however the interest was rounded on the way.
FullRepaymentCloses ==
  \A r \in Reserves :
    CanFind(obligation.borrows, r) /\ CanObligationAccrue(obligation, r,
                                       reserves[r].cumulative_borrow_rate_sf) =>
      LET whole == RawDebt(obligation, r, reserves[r])
      IN  /\ CanRepayDebt(obligation, r, whole, reserves[r])
          /\ ~CanFind(repay_debt(obligation, r, whole, reserves[r]).borrows, r)

\* Who owes nothing is never locked in: after a refresh every deposit can be
\* taken out in full, also behind the gaps that earlier withdrawals left.
DebtFreeCanLeave ==
  /\ Active(obligation.borrows) = {}
  /\ ~is_slot_stale(obligation, slot)
  => \A i \in Active(obligation.deposits) :
       CanReleaseCollateral(obligation, obligation.deposits[i].reserve,
                            obligation.deposits[i].deposited_amount, slot)

\* A debt that has been valued is never again worth nothing to the health and
\* borrow checks, although the price of its reserve may round or fall to 0 in
\* between and refreshes and partial repayments go on.
ValuedDebtStaysValued ==
  [][\A i \in BorrowSlots :
       /\ obligation.borrows[i].market_value_sf > 0
       /\ obligation'.borrows[i].reserve # NoReserve
       => obligation'.borrows[i].market_value_sf > 0]_vars

\* Interest in two instalments is never more than in one: nobody can be made
\* to pay by refreshing an obligation often, and the rounding loses no more
\* than the last instalment's growth and one.
RefreshingOftenNeverCostsMore ==
  \A i \in Active(obligation.borrows), mid \in ReserveStates :
    LET b     == obligation.borrows[i]
        final == reserves[b.reserve].cumulative_borrow_rate_sf
        half  == mid.cumulative_borrow_rate_sf
        twice == AccruedDebt(AccruedDebt(b, half), final).borrowed_amount_sf
        once  == AccruedDebt(b, final).borrowed_amount_sf
    IN  half \in b.cumulative_borrow_rate_sf .. final =>
          twice <= once /\ (once - twice - 1) * half <= final

Owing == {r \in Reserves : CanFind(obligation.borrows, r)}

\* The debt in r as the reserve's stored rate makes it.
DueIn(r) ==
  AccruedDebt(obligation.borrows[find(obligation.borrows, r)],
              reserves[r].cumulative_borrow_rate_sf).borrowed_amount_sf

\* A step that takes collateral and debt away at once is a liquidation; it
\* leaves at least half of the debt, so never closes it.
CloseFactorHolds ==
  [][\A rr \in Owing, wr \in Reserves :
       /\ CollateralIn(obligation', wr) < CollateralIn(obligation, wr)
       /\ DebtIn(obligation', rr) < DueIn(rr)
       /\ DebtIn(obligation', rr) # DebtIn(obligation, rr)
       => 2 * DebtIn(obligation', rr) >= DueIn(rr)]_vars

\* What a liquidation seizes is worth, at the rate and the prices it read, no
\* more than what was repaid and the bonus.
SeizureBounded ==
  [][\A rr \in Owing, wr \in Reserves :
       /\ CollateralIn(obligation', wr) < CollateralIn(obligation, wr)
       /\ DebtIn(obligation', rr) < DueIn(rr)
       /\ DebtIn(obligation', rr) # DebtIn(obligation, rr)
       => LET seized == CollateralIn(obligation, wr) - CollateralIn(obligation', wr)
              repaid == DueIn(rr) - DebtIn(obligation', rr)
          IN  seized * RateLiquidity(reserves[wr]) * reserves[wr].market_price_sf
                * BPS_SCALER * RATE_SCALE
              <= repaid * reserves[rr].market_price_sf
                   * (BPS_SCALER + reserves[wr].config.liquidation_bonus_pct)
                   * RateSupply(reserves[wr])]_vars

-------------------------------------------------------------------------------
(***************************************************************************)
(* What comments of the program say, and the program does not keep.        *)
(***************************************************************************)

\* Both sides of an obligation at the present debts, rates and prices, every
\* slot of it.
CollateralValue(o) ==
  MapThenSumSet(LAMBDA i : PricedCollateral(o.deposits[i], reserves[o.deposits[i].reserve])
                             .market_value_sf,
                Active(o.deposits))
DebtValue(o) ==
  MapThenSumSet(LAMBDA i : PricedDebt(o.borrows[i], reserves[o.borrows[i].reserve])
                             .market_value_sf,
                Active(o.borrows))
Covered(o) == CollateralValue(o) >= DebtValue(o)

\* "after reducing collateral, position must still be healthy (or borrow-free)".
WithdrawalLeavesCover ==
  [][\A r \in Reserves :
       /\ CollateralIn(obligation', r) < CollateralIn(obligation, r)
       /\ obligation'.borrows = obligation.borrows
       => Covered(obligation')]_vars

\* "price each active borrow slot".
RefreshPricesEverySlot ==
  [][obligation'.slot # obligation.slot =>
       \A i \in Active(obligation.borrows) :
         obligation'.borrows[i]
           = PricedDebt(obligation.borrows[i], reserves[obligation.borrows[i].reserve])]_vars

\* "Returns true if the obligation has no borrows or its health factor >= 1.0."
HealthyAtOne == PrefixDeposits(obligation) >= PrefixBorrows(obligation) => is_healthy(obligation)
===============================================================================
