--------------------------- MODULE ObligationProofs ---------------------------
(***************************************************************************)
(* Theorems about the life of one obligation, for any number of slots and  *)
(* reserves and any states the reserves may be in.  The consistency of the *)
(* two slot arrays is inductive with the types: every action is one of the *)
(* methods that ObligationLemmas shows to keep an obligation Sound.        *)
(***************************************************************************)
EXTENDS Obligation, ObligationLemmas

Inv == TypeOK /\ DepositsConsistent /\ BorrowsConsistent

\* The invariant is soundness, as the lemmas about the methods state it.
LEMMA InvIsSound ==
  TypeOK => (Inv <=> Sound(obligation, reserves))
  <1> SUFFICES ASSUME TypeOK PROVE Inv <=> Sound(obligation, reserves)
    OBVIOUS
  <1>1. /\ obligation \in ObligationType
        /\ obligation.deposits \in [DepositSlots -> CollateralType]
        /\ obligation.borrows \in [BorrowSlots -> LiquidityType]
        /\ DOMAIN reserves = Reserves
    BY ObligationFields DEF TypeOK
  <1>2. DepositsConsistent <=> DepositsOK(obligation)
    BY <1>1 DEF DepositsConsistent, DepositsOK, OneSlotEach
  <1>3. BorrowsConsistent <=> BorrowsOK(obligation, reserves)
    BY <1>1 DEF BorrowsConsistent, BorrowsOK, OneSlotEach, DebtOK, LiquidityType
  <1> QED BY <1>1, <1>2, <1>3 DEF Inv, Sound

\* The invariant, in the terms the steps use.
LEMMA InvFields ==
  ASSUME Inv
  PROVE  /\ Sound(obligation, reserves)
         /\ slot \in U64 /\ slot \in 1 .. MaxSlot
         /\ reserves \in [Reserves -> ReserveStates]
         /\ \A r \in Reserves :
              /\ reserves[r] \in ReserveType
              /\ reserves[r].cumulative_borrow_rate_sf >= RATE_SCALE
              /\ IndexWithin(reserves, r, reserves[r].cumulative_borrow_rate_sf)
         /\ CollateralListed(obligation, reserves)
  <1>1. TypeOK
    BY DEF Inv
  <1>2. Sound(obligation, reserves)
    BY <1>1, InvIsSound
  <1>3. /\ slot \in 1 .. MaxSlot /\ reserves \in [Reserves -> ReserveStates]
    BY <1>1 DEF TypeOK
  <1>4. slot \in U64
    BY <1>3, LifeAssumption, WidthAssumption DEF U64
  <1>5. ASSUME NEW r \in Reserves
        PROVE  /\ reserves[r] \in ReserveType
               /\ reserves[r].cumulative_borrow_rate_sf >= RATE_SCALE
               /\ IndexWithin(reserves, r, reserves[r].cumulative_borrow_rate_sf)
    <2>1. reserves[r] \in ReserveStates
      BY <1>3
    <2>2. reserves[r] \in ReserveType /\ reserves[r].cumulative_borrow_rate_sf >= RATE_SCALE
      BY <2>1, LifeAssumption
    <2>3. reserves[r].cumulative_borrow_rate_sf \in U128
      BY <2>2 DEF ReserveType
    <2>4. reserves[r].cumulative_borrow_rate_sf \in Nat /\ r \in DOMAIN reserves
      BY <1>3, <2>3, Widths
    <2>5. IndexWithin(reserves, r, reserves[r].cumulative_borrow_rate_sf)
      BY <2>3, <2>4 DEF IndexWithin
    <2> QED BY <2>2, <2>5
  <1>6. CollateralListed(obligation, reserves)
    <2>1. DOMAIN reserves = Reserves /\ obligation.deposits \in [DepositSlots -> CollateralType]
      BY <1>2, <1>3, SoundParts
    <2> QED BY <2>1 DEF CollateralListed, CollateralType
  <1> QED BY <1>2, <1>3, <1>4, <1>5, <1>6

\* What a step by the obligation's owner, a liquidator or a refresher has to show.
LEMMA InvFromSound ==
  ASSUME Inv, Sound(obligation', reserves), UNCHANGED <<reserves, slot>>
  PROVE  Inv'
  <1>1. obligation' \in ObligationType
    BY DEF Sound
  <1>2. TypeOK'
    BY <1>1 DEF Inv, TypeOK
  <1>3. (TypeOK => (Inv <=> Sound(obligation, reserves)))'
    BY InvIsSound, PTL
  <1> QED BY <1>2, <1>3

(***************************************************************************)
(* What every step shows: the invariant again, no debt that loses its      *)
(* value, and collateral that leaves together with debt only as much as    *)
(* one seizure may take.                                                   *)
(***************************************************************************)
\* No collateral leaves, or no debt moves.
Quiet ==
  \/ \A q \in Reserves : ~(CollateralIn(obligation', q) < CollateralIn(obligation, q))
  \/ \A q \in Reserves : DebtIn(obligation', q) = DebtIn(obligation, q)

WorthAtMost(rr, wr, amount, seized) ==
  seized * RateLiquidity(reserves[wr]) * reserves[wr].market_price_sf * BPS_SCALER
    <= amount * reserves[rr].market_price_sf
         * (BPS_SCALER + reserves[wr].config.liquidation_bonus_pct) * RateSupply(reserves[wr])

OneSeizure ==
  \E rr, wr \in Reserves, amount, seized \in Nat :
    /\ Seizure(obligation, obligation', rr, wr, amount, seized, DueIn(rr))
    /\ WorthAtMost(rr, wr, amount, seized)

StepOK ==
  /\ Inv'
  /\ StaysValued(obligation, obligation')
  /\ Quiet \/ OneSeizure

\* Locking collateral adds to one slot.
LEMMA DepositCollateralStep ==
  ASSUME Inv, NEW r \in Reserves, NEW a \in Amounts, DepositCollateral(r, a)
  PROVE  StepOK
  <1>1. a \in Nat
    BY LifeAssumption, Widths
  <1>2. /\ CanDeposit(obligation, r, a) /\ obligation' = deposit(obligation, r, a)
        /\ UNCHANGED <<reserves, slot>> /\ Sound(obligation, reserves)
    BY InvFields DEF DepositCollateral
  <1>3. /\ Sound(obligation', reserves) /\ SameDebts(obligation, obligation')
        /\ CollateralIn(obligation', r) = CollateralIn(obligation, r) + a
        /\ \A q \in Reserves : q # r => CollateralIn(obligation', q) = CollateralIn(obligation, q)
    BY <1>1, <1>2, Deposited
  <1>4. Quiet
    BY <1>3 DEF Quiet, DebtIn, SameDebts
  <1>5. StaysValued(obligation, obligation')
    BY <1>3 DEF StaysValued, SameDebts
  <1>6. Inv'
    BY <1>2, <1>3, InvFromSound
  <1> QED BY <1>4, <1>5, <1>6 DEF StepOK

\* Releasing collateral takes from one slot and leaves the debts alone.
LEMMA WithdrawCollateralStep ==
  ASSUME Inv, NEW r \in Reserves, NEW a \in Amounts, WithdrawCollateral(r, a)
  PROVE  StepOK
  <1>1. a \in Nat
    BY LifeAssumption, Widths
  <1>2. /\ CanWithdraw(obligation, r, a) /\ obligation' = release_collateral(obligation, r, a)
        /\ UNCHANGED <<reserves, slot>> /\ Sound(obligation, reserves)
    BY InvFields DEF WithdrawCollateral, CanReleaseCollateral
  <1>3. Sound(obligation', reserves) /\ SameDebts(obligation, obligation')
    BY <1>1, <1>2, Released
  <1>4. Quiet
    BY <1>3 DEF Quiet, DebtIn, SameDebts
  <1>5. StaysValued(obligation, obligation')
    BY <1>3 DEF StaysValued, SameDebts
  <1>6. Inv'
    BY <1>2, <1>3, InvFromSound
  <1> QED BY <1>4, <1>5, <1>6 DEF StepOK

\* A step of a sound obligation that leaves its collateral where it was.
LEMMA CollateralStays ==
  ASSUME Inv, Sound(obligation', reserves), SameCollateral(obligation, obligation'),
         StaysValued(obligation, obligation'), UNCHANGED <<reserves, slot>>
  PROVE  StepOK
  <1>1. \A q \in Reserves : CollateralIn(obligation', q) = CollateralIn(obligation, q)
    BY DEF SameCollateral, CollateralIn
  <1>2. ASSUME NEW q \in Reserves PROVE CollateralIn(obligation, q) \in Nat
    <2>1. CASE CanFind(obligation.deposits, q)
      BY <2>1, InvFields, FoundDeposit
    <2>2. CASE ~CanFind(obligation.deposits, q)
      BY <2>2 DEF CollateralIn
    <2> QED BY <2>1, <2>2
  <1>3. Quiet
    BY <1>1, <1>2 DEF Quiet
  <1> QED BY <1>3, InvFromSound DEF StepOK

\* New debt.
LEMMA BorrowMoreStep ==
  ASSUME Inv, NEW r \in Reserves, NEW a \in Amounts, BorrowMore(r, a)
  PROVE  StepOK
  <1>1. a \in Nat
    BY LifeAssumption, Widths
  <1>2. /\ CanBorrowAgainst(obligation, r, a, reserves[r])
        /\ obligation' = borrow_against(obligation, r, a, reserves[r])
        /\ UNCHANGED <<reserves, slot>>
    BY DEF BorrowMore
  <1>3. /\ Sound(obligation', reserves) /\ SameCollateral(obligation, obligation')
        /\ StaysValued(obligation, obligation')
    BY <1>1, <1>2, InvFields, BorrowedAgainst
  <1> QED BY <1>2, <1>3, CollateralStays

\* A repayment.
LEMMA RepayDebtStep ==
  ASSUME Inv, NEW r \in Reserves, NEW a \in Amounts, RepayDebt(r, a)
  PROVE  StepOK
  <1>1. a \in Nat
    BY LifeAssumption, Widths
  <1>2. /\ CanRepayDebt(obligation, r, a, reserves[r])
        /\ obligation' = repay_debt(obligation, r, a, reserves[r])
        /\ UNCHANGED <<reserves, slot>>
    BY DEF RepayDebt
  <1>3. /\ Sound(obligation', reserves) /\ SameCollateral(obligation, obligation')
        /\ StaysValued(obligation, obligation')
    BY <1>1, <1>2, InvFields, RepaidDebt
  <1> QED BY <1>2, <1>3, CollateralStays

\* A refresh writes values and debts and moves no collateral.
LEMMA RefreshObligationStep ==
  ASSUME Inv, RefreshObligation
  PROVE  StepOK
  <1>1. /\ CanRefreshObligation(obligation, reserves)
        /\ obligation' = refresh_obligation(obligation, reserves, slot)
        /\ UNCHANGED <<reserves, slot>>
    BY DEF RefreshObligation
  <1>2. \A q \in DOMAIN reserves : reserves[q] \in ReserveType
    BY InvFields
  <1>3. /\ Sound(obligation', reserves) /\ StaysValued(obligation, obligation')
        /\ \A q : CollateralIn(obligation', q) = CollateralIn(obligation, q)
    BY <1>1, <1>2, InvFields, Refreshed
  <1>4. ASSUME NEW q \in Reserves PROVE CollateralIn(obligation, q) \in Nat
    <2>1. CASE CanFind(obligation.deposits, q)
      BY <2>1, InvFields, FoundDeposit
    <2>2. CASE ~CanFind(obligation.deposits, q)
      BY <2>2 DEF CollateralIn
    <2> QED BY <2>1, <2>2
  <1>5. Quiet
    BY <1>3, <1>4 DEF Quiet
  <1> QED BY <1>1, <1>3, <1>5, InvFromSound DEF StepOK

\* A liquidation is one seizure, bounded by the close factor and the bonus.
LEMMA LiquidateStep ==
  ASSUME Inv, NEW rr \in Reserves, NEW wr \in Reserves, NEW a \in Amounts, Liquidate(rr, wr, a)
  PROVE  StepOK
  <1>1. a \in Nat
    BY LifeAssumption, Widths
  <1>2. PICK amount : amount = ActualRepay(obligation, rr, reserves[rr], a)
    OBVIOUS
  <1>3. PICK seized : seized = Seized(obligation, wr, amount, reserves[rr], reserves[wr])
    OBVIOUS
  <1>4. /\ CanSeize(obligation, rr, wr, a, reserves[rr], reserves[wr], slot)
        /\ obligation' = liquidated(obligation, rr, wr, amount, seized, reserves[rr])
        /\ UNCHANGED <<reserves, slot>>
    BY <1>2, <1>3 DEF Liquidate, CanLiquidate
  <1>5. /\ reserves[rr] \in ReserveType /\ reserves[wr] \in ReserveType
        /\ IndexWithin(reserves, rr, reserves[rr].cumulative_borrow_rate_sf)
        /\ Sound(obligation, reserves)
    BY InvFields
  <1>6. /\ Sound(obligation', reserves) /\ StaysValued(obligation, obligation')
        /\ Seizure(obligation, obligation', rr, wr, amount, seized,
                   Due(obligation, rr, reserves[rr].cumulative_borrow_rate_sf))
    BY <1>1, <1>2, <1>3, <1>4, <1>5, Liquidated
  <1>7. DueIn(rr) = Due(obligation, rr, reserves[rr].cumulative_borrow_rate_sf)
    BY DEF DueIn, Due
  <1>8. amount \in Nat /\ seized \in Nat
    BY <1>6 DEF Seizure
  <1>9. WorthAtMost(rr, wr, amount, seized)
    <2>1. reserves[wr].market_price_sf > 0 /\ CanTotalSupply(reserves[wr])
          /\ CanFind(obligation.deposits, wr)
      BY <1>4 DEF CanSeize
    <2>2. obligation.deposits[find(obligation.deposits, wr)].deposited_amount \in Nat
      BY <1>5, <2>1, FoundDeposit
    <2> QED BY <1>3, <1>5, <1>8, <2>1, <2>2, SeizedBound DEF WorthAtMost
  <1>10. OneSeizure
    BY <1>6, <1>7, <1>8, <1>9 DEF OneSeizure
  <1> QED BY <1>4, <1>6, <1>10, InvFromSound DEF StepOK

\* The reserves move on: an index only grows, so no snapshot gets ahead of it.
LEMMA ReserveMovesStep ==
  ASSUME Inv, NEW r \in Reserves, NEW res \in ReserveStates, ReserveMoves(r, res)
  PROVE  StepOK
  <1>1. /\ res.cumulative_borrow_rate_sf >= reserves[r].cumulative_borrow_rate_sf
        /\ reserves' = [reserves EXCEPT ![r] = res]
        /\ UNCHANGED <<obligation, slot>>
    BY DEF ReserveMoves
  <1>2. /\ Sound(obligation, reserves) /\ slot \in 1 .. MaxSlot
        /\ reserves \in [Reserves -> ReserveStates]
        /\ reserves' \in [Reserves -> ReserveStates]
    BY <1>1, InvFields
  <1>3. \A q \in DOMAIN reserves :
           /\ reserves[q].cumulative_borrow_rate_sf \in Nat
           /\ reserves'[q].cumulative_borrow_rate_sf \in Nat
           /\ reserves[q].cumulative_borrow_rate_sf <= reserves'[q].cumulative_borrow_rate_sf
    <2>1. \A x \in ReserveStates : x.cumulative_borrow_rate_sf \in Nat
      BY LifeAssumption, ReserveFields
    <2>2. ASSUME NEW q \in Reserves
          PROVE  reserves[q].cumulative_borrow_rate_sf <= reserves'[q].cumulative_borrow_rate_sf
      <3>1. CASE q = r
        BY <1>1, <1>2, <2>1, <3>1
      <3>2. CASE q # r
        BY <1>1, <1>2, <2>1, <3>2
      <3> QED BY <3>1, <3>2
    <2> QED BY <1>2, <2>1, <2>2
  <1>4. Sound(obligation', reserves')
    <2>1. DOMAIN reserves \subseteq DOMAIN reserves'
      BY <1>2
    <2> QED BY <1>1, <1>2, <1>3, <2>1, SoundLater
  <1>5. TypeOK'
    BY <1>1, <1>2 DEF TypeOK, Sound
  <1>6. (TypeOK => (Inv <=> Sound(obligation, reserves)))'
    BY InvIsSound, PTL
  <1>7. Inv'
    BY <1>4, <1>5, <1>6
  <1>8. Quiet /\ StaysValued(obligation, obligation')
    BY <1>1 DEF Quiet, StaysValued
  <1> QED BY <1>7, <1>8 DEF StepOK

\* Steps that leave the obligation and the reserves as they were.
LEMMA StillStep ==
  ASSUME Inv, UNCHANGED <<obligation, reserves>>, slot' \in 1 .. MaxSlot
  PROVE  StepOK
  <1>1. Inv'
    BY DEF Inv, TypeOK, DepositsConsistent, BorrowsConsistent
  <1>2. Quiet /\ StaysValued(obligation, obligation')
    BY DEF Quiet, StaysValued
  <1> QED BY <1>1, <1>2 DEF StepOK

\* Every step.
LEMMA NextStep ==
  ASSUME Inv, [Next]_vars
  PROVE  StepOK
  <1>1. ASSUME NEW r \in Reserves, NEW a \in Amounts, DepositCollateral(r, a) PROVE StepOK
    BY <1>1, DepositCollateralStep
  <1>2. ASSUME NEW r \in Reserves, NEW a \in Amounts, WithdrawCollateral(r, a) PROVE StepOK
    BY <1>2, WithdrawCollateralStep
  <1>3. ASSUME NEW r \in Reserves, NEW a \in Amounts, BorrowMore(r, a) PROVE StepOK
    BY <1>3, BorrowMoreStep
  <1>4. ASSUME NEW r \in Reserves, NEW a \in Amounts, RepayDebt(r, a) PROVE StepOK
    BY <1>4, RepayDebtStep
  <1>5. ASSUME RefreshObligation PROVE StepOK
    BY <1>5, RefreshObligationStep
  <1>6. ASSUME NEW rr \in Reserves, NEW wr \in Reserves, NEW a \in Amounts, Liquidate(rr, wr, a)
        PROVE  StepOK
    BY <1>6, LiquidateStep
  <1>7. ASSUME NEW r \in Reserves, NEW res \in ReserveStates, ReserveMoves(r, res) PROVE StepOK
    BY <1>7, ReserveMovesStep
  <1>8. ASSUME Tick PROVE StepOK
    <2>1. slot' \in 1 .. MaxSlot /\ UNCHANGED <<obligation, reserves>>
      BY <1>8, InvFields, LifeAssumption, Widths DEF Tick
    <2> QED BY <2>1, StillStep
  <1>9. ASSUME UNCHANGED vars PROVE StepOK
    <2>1. slot' \in 1 .. MaxSlot /\ UNCHANGED <<obligation, reserves>>
      BY <1>9, InvFields DEF vars
    <2> QED BY <2>1, StillStep
  <1> QED BY <1>1, <1>2, <1>3, <1>4, <1>5, <1>6, <1>7, <1>8, <1>9 DEF Next

\* init_obligation makes an account that satisfies the invariant.
LEMMA InitInv == Init => Inv
  <1> SUFFICES ASSUME Init PROVE Inv
    OBVIOUS
  <1>1. Sound(obligation, reserves) /\ slot = 1 /\ reserves \in [Reserves -> ReserveStates]
    BY NewIsSound DEF Init
  <1>2. slot \in 1 .. MaxSlot
    BY <1>1, LifeAssumption, Widths
  <1>3. TypeOK
    BY <1>1, <1>2 DEF TypeOK, Sound
  <1> QED BY <1>1, <1>3, InvIsSound

\* The invariant holds in every reachable state.
LEMMA Invariance == Spec => []Inv
  <1>1. Inv /\ [Next]_vars => Inv'
    BY NextStep DEF StepOK
  <1> QED BY <1>1, InitInv, PTL DEF Spec

(***************************************************************************)
(* The theorems.                                                           *)
(***************************************************************************)

\* The account always has its type: no method leaves an amount, a scaled debt
\* or a value behind that its field cannot hold.
THEOREM TypeCorrect == Spec => []TypeOK
  <1>1. Inv => TypeOK
    BY DEF Inv
  <1> QED BY <1>1, Invariance, PTL

\* The collateral slots agree with their count and with each other, in any
\* order of opening and closing.
THEOREM CollateralSlots == Spec => []DepositsConsistent
  <1>1. Inv => DepositsConsistent
    BY DEF Inv
  <1> QED BY <1>1, Invariance, PTL

\* So do the debt slots, none of which holds less than a token or a snapshot
\* that its reserve's index has not reached.
THEOREM DebtSlots == Spec => []BorrowsConsistent
  <1>1. Inv => BorrowsConsistent
    BY DEF Inv
  <1> QED BY <1>1, Invariance, PTL

\* Repaying the whole tokens of a debt is always accepted and closes its slot.
THEOREM RepaymentCloses == Spec => []FullRepaymentCloses
  <1>1. Inv => FullRepaymentCloses
    BY InvFields, WholeRepayable DEF FullRepaymentCloses
  <1> QED BY <1>1, Invariance, PTL

\* An owner without debt can take every deposit out after a refresh.
THEOREM DebtFreeLeaves == Spec => []DebtFreeCanLeave
  <1>1. Inv => DebtFreeCanLeave
    <2> SUFFICES ASSUME Inv, Active(obligation.borrows) = {}, ~is_slot_stale(obligation, slot),
                        NEW i \in Active(obligation.deposits)
                 PROVE  CanReleaseCollateral(obligation, obligation.deposits[i].reserve,
                                             obligation.deposits[i].deposited_amount, slot)
      BY DEF DebtFreeCanLeave
    <2>1. Sound(obligation, reserves)
      BY InvFields
    <2>2. obligation.deposits[i].reserve \in Reserves
      <3>1. i \in DepositSlots /\ obligation.deposits[i].reserve # NoReserve
        BY <2>1, SoundParts DEF Active
      <3>2. obligation.deposits[i] \in CollateralType
        BY <2>1, <3>1, SoundParts
      <3> QED BY <3>1, <3>2 DEF CollateralType
    <2> QED BY <2>1, <2>2, DebtFreeRelease
  <1> QED BY <1>1, Invariance, PTL

\* Interest in two instalments never is more than in one, and loses no more
\* than the last instalment's growth and one.
THEOREM RefreshingOften == Spec => []RefreshingOftenNeverCostsMore
  <1>1. Inv => RefreshingOftenNeverCostsMore
    <2> SUFFICES ASSUME Inv, NEW i \in Active(obligation.borrows), NEW mid \in ReserveStates,
                        NEW b, b = obligation.borrows[i],
                        NEW final, final = reserves[b.reserve].cumulative_borrow_rate_sf,
                        NEW half, half = mid.cumulative_borrow_rate_sf,
                        half \in b.cumulative_borrow_rate_sf .. final,
                        NEW twice,
                        twice = AccruedDebt(AccruedDebt(b, half), final).borrowed_amount_sf,
                        NEW once, once = AccruedDebt(b, final).borrowed_amount_sf
                 PROVE  twice <= once /\ (once - twice - 1) * half <= final
      BY DEF RefreshingOftenNeverCostsMore
    <2>1. i \in BorrowSlots /\ b.reserve # NoReserve /\ b \in LiquidityType
      BY InvFields, SoundParts DEF Active
    <2>2. DebtOK(b, reserves)
      BY <2>1, InvFields, SoundParts DEF BorrowsOK
    <2>3. PICK x \in Nat, c \in Nat \ {0} :
            x = b.borrowed_amount_sf /\ c = b.cumulative_borrow_rate_sf
      BY <2>1, <2>2, LiquidityFields, ScaleAssumption DEF DebtOK
    <2>4. b.reserve \in Reserves
      BY <2>1 DEF LiquidityType
    <2>5. reserves[b.reserve] \in ReserveType
      BY <2>4, InvFields
    <2>6. final \in Nat
      BY <2>5, ReserveFields
    <2>7. half \in Nat \ {0} /\ final \in Nat \ {0}
      BY <2>3, <2>6
    <2>8. PICK m : m = MulDiv(x, half, c)
      OBVIOUS
    <2>9. /\ AccruedDebt(b, half).borrowed_amount_sf = m
          /\ AccruedDebt(b, half).cumulative_borrow_rate_sf = half
          /\ AccruedDebt(b, half) \in [reserve : Reserves \cup {NoReserve},
               borrowed_amount_sf : {m}, cumulative_borrow_rate_sf : {half},
               market_value_sf : U128]
      BY <2>1, <2>3, <2>8 DEF AccruedDebt, LiquidityType
    <2>10. twice = MulDiv(m, final, half)
      BY <2>9 DEF AccruedDebt
    <2>11. once = MulDiv(x, final, c)
      BY <2>1, <2>3 DEF AccruedDebt, LiquidityType
    <2> QED BY ONLY <2>3, <2>7, <2>8, <2>10, <2>11, x \in Nat, c \in Nat \ {0}, TwoInstalments
  <1> QED BY <1>1, Invariance, PTL

\* A debt that has been valued never again counts for nothing.
THEOREM StayingValued == Spec => ValuedDebtStaysValued
  <1>1. Inv /\ [Next]_vars =>
          \A i \in BorrowSlots :
            /\ obligation.borrows[i].market_value_sf > 0
            /\ obligation'.borrows[i].reserve # NoReserve
            => obligation'.borrows[i].market_value_sf > 0
    BY NextStep DEF StepOK, StaysValued
  <1> QED BY <1>1, Invariance, PTL DEF Spec, ValuedDebtStaysValued

\* What a step shows of two reserves between which collateral and debt leave.
LEMMA SeizureFound ==
  ASSUME Inv, [Next]_vars, NEW rr \in Owing, NEW wr \in Reserves,
         CollateralIn(obligation', wr) < CollateralIn(obligation, wr),
         DebtIn(obligation', rr) # DebtIn(obligation, rr)
  PROVE  \E amount, seized \in Nat :
           /\ Seizure(obligation, obligation', rr, wr, amount, seized, DueIn(rr))
           /\ WorthAtMost(rr, wr, amount, seized)
  <1>1. rr \in Reserves
    BY DEF Owing
  <1>2. OneSeizure
    BY <1>1, NextStep DEF StepOK, Quiet
  <1>3. PICK r1 \in Reserves, r2 \in Reserves, amount \in Nat, seized \in Nat :
          /\ Seizure(obligation, obligation', r1, r2, amount, seized, DueIn(r1))
          /\ WorthAtMost(r1, r2, amount, seized)
    BY <1>2 DEF OneSeizure
  <1>4. r1 = rr
    BY <1>1, <1>3 DEF Seizure
  <1>5. r2 = wr
    <2>1. SUFFICES ASSUME r2 # wr PROVE FALSE
      OBVIOUS
    <2>2. CollateralIn(obligation', wr) = CollateralIn(obligation, wr)
      BY <1>3, <2>1 DEF Seizure
    <2>3. CollateralIn(obligation, wr) \in Nat
      <3>1. CASE CanFind(obligation.deposits, wr)
        BY <3>1, InvFields, FoundDeposit
      <3>2. CASE ~CanFind(obligation.deposits, wr)
        BY <3>2 DEF CollateralIn
      <3> QED BY <3>1, <3>2
    <2> QED BY <2>2, <2>3
  <1> QED BY <1>3, <1>4, <1>5

\* A liquidation leaves at least half of the debt.
THEOREM HalfTheDebtStays == Spec => CloseFactorHolds
  <1>1. ASSUME Inv, [Next]_vars, NEW rr \in Owing, NEW wr \in Reserves,
               CollateralIn(obligation', wr) < CollateralIn(obligation, wr),
               DebtIn(obligation', rr) # DebtIn(obligation, rr)
        PROVE  2 * DebtIn(obligation', rr) >= DueIn(rr)
    <2>1. PICK amount \in Nat, seized \in Nat :
            Seizure(obligation, obligation', rr, wr, amount, seized, DueIn(rr))
      BY <1>1, SeizureFound
    <2>2. PICK w \in Nat, due \in Nat : w = amount * RATE_SCALE /\ due = DueIn(rr)
      BY <2>1, ScaleAssumption DEF Seizure
    <2>3. 2 * w <= due /\ DebtIn(obligation', rr) = due - w
      BY <2>1, <2>2 DEF Seizure
    <2> QED BY <2>2, <2>3
  <1>2. Inv /\ [Next]_vars =>
          \A rr \in Owing, wr \in Reserves :
            /\ CollateralIn(obligation', wr) < CollateralIn(obligation, wr)
            /\ DebtIn(obligation', rr) < DueIn(rr)
            /\ DebtIn(obligation', rr) # DebtIn(obligation, rr)
            => 2 * DebtIn(obligation', rr) >= DueIn(rr)
    BY <1>1
  <1> QED BY <1>2, Invariance, PTL DEF Spec, CloseFactorHolds

\* What a liquidation seizes is worth no more than what it repaid and the bonus.
THEOREM SeizureWorthIt == Spec => SeizureBounded
  <1>1. ASSUME Inv, [Next]_vars, NEW rr \in Owing, NEW wr \in Reserves,
               CollateralIn(obligation', wr) < CollateralIn(obligation, wr),
               DebtIn(obligation', rr) # DebtIn(obligation, rr)
        PROVE  LET seized == CollateralIn(obligation, wr) - CollateralIn(obligation', wr)
                   repaid == DueIn(rr) - DebtIn(obligation', rr)
               IN  seized * RateLiquidity(reserves[wr]) * reserves[wr].market_price_sf
                     * BPS_SCALER * RATE_SCALE
                   <= repaid * reserves[rr].market_price_sf
                        * (BPS_SCALER + reserves[wr].config.liquidation_bonus_pct)
                        * RateSupply(reserves[wr])
    <2>1. PICK amount \in Nat, seized \in Nat :
            /\ Seizure(obligation, obligation', rr, wr, amount, seized, DueIn(rr))
            /\ WorthAtMost(rr, wr, amount, seized)
      BY <1>1, SeizureFound
    <2>2. rr \in Reserves
      BY DEF Owing
    <2>3. PICK L \in Nat, S \in Nat, wp \in Nat, rp \in Nat, e \in Nat :
            /\ L = RateLiquidity(reserves[wr]) /\ S = RateSupply(reserves[wr])
            /\ wp = reserves[wr].market_price_sf /\ rp = reserves[rr].market_price_sf
            /\ e = BPS_SCALER + reserves[wr].config.liquidation_bonus_pct
      <3>1. reserves[wr] \in ReserveType /\ reserves[rr] \in ReserveType
        BY <1>1, <2>2, InvFields
      <3>2. RateLiquidity(reserves[wr]) \in Nat /\ RateSupply(reserves[wr]) \in Nat
        BY <3>1, ReserveFields, TotalSupplyType DEF RateLiquidity, RateSupply
      <3>3. reserves[wr].market_price_sf \in Nat /\ reserves[rr].market_price_sf \in Nat
        BY <3>1, Widths DEF ReserveType
      <3>4. reserves[wr].config.liquidation_bonus_pct \in Nat
        BY <3>1, Widths DEF ReserveType, ConfigType
      <3>5. BPS_SCALER + reserves[wr].config.liquidation_bonus_pct \in Nat
        BY <3>4, Widths
      <3> QED BY <3>2, <3>3, <3>5
    <2>4. CollateralIn(obligation, wr) - CollateralIn(obligation', wr) = seized
      BY <2>1 DEF Seizure
    <2>5. DueIn(rr) - DebtIn(obligation', rr) = amount * RATE_SCALE
      <3>1. PICK w \in Nat, due \in Nat : w = amount * RATE_SCALE /\ due = DueIn(rr)
        <4>1. DueIn(rr) \in Nat
          BY <2>1 DEF Seizure
        <4>2. amount * RATE_SCALE \in Nat
          BY ScaleAssumption
        <4> QED BY <4>1, <4>2
      <3>2. DebtIn(obligation', rr) = due - w
        BY <2>1, <3>1 DEF Seizure
      <3> QED BY <3>1, <3>2
    <2>6. seized * L * wp * BPS_SCALER <= amount * rp * e * S
      BY <2>1, <2>3 DEF WorthAtMost
    <2>7. seized * L * wp * BPS_SCALER * RATE_SCALE <= (amount * RATE_SCALE) * rp * e * S
      <3>1. PICK a1 \in Nat, a2 \in Nat :
              a1 = seized * L * wp * BPS_SCALER /\ a2 = amount * rp * e * S
        BY Widths
      <3>2. a1 * RATE_SCALE <= a2 * RATE_SCALE
        BY <2>6, <3>1, ScaleAssumption
      <3>3. a2 * RATE_SCALE = (amount * RATE_SCALE) * rp * e * S
        BY <3>1, ScaleAssumption
      <3> QED BY <3>1, <3>2, <3>3
    <2> QED BY <2>3, <2>4, <2>5, <2>7
  <1>2. Inv /\ [Next]_vars =>
          \A rr \in Owing, wr \in Reserves :
            /\ CollateralIn(obligation', wr) < CollateralIn(obligation, wr)
            /\ DebtIn(obligation', rr) < DueIn(rr)
            /\ DebtIn(obligation', rr) # DebtIn(obligation, rr)
            => LET seized == CollateralIn(obligation, wr) - CollateralIn(obligation', wr)
                   repaid == DueIn(rr) - DebtIn(obligation', rr)
               IN  seized * RateLiquidity(reserves[wr]) * reserves[wr].market_price_sf
                     * BPS_SCALER * RATE_SCALE
                   <= repaid * reserves[rr].market_price_sf
                        * (BPS_SCALER + reserves[wr].config.liquidation_bonus_pct)
                        * RateSupply(reserves[wr])
    BY <1>1
  <1> QED BY <1>2, Invariance, PTL DEF Spec, SeizureBounded
===============================================================================
