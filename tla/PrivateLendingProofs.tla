-------------------------- MODULE PrivateLendingProofs --------------------------
(***************************************************************************)
(* Proofs about PrivateLending, for every market and every mix of public   *)
(* and private instructions: the market's invariant survives the private   *)
(* ones, and each user's position lives the life PrivatePosition gives it. *)
(***************************************************************************)
EXTENDS PrivateLending, LendingProofs

\* Each user has one private account, and the computations queued on it.
PrivateInv == DOMAIN private = Users /\ DOMAIN pending = Users

(***************************************************************************)
(* What the market sees of a private instruction.                          *)
(***************************************************************************)

\* Either what it might see anyway, or a loan or a seizure with checks of their own.
LEMMA MarketSees ==
  ASSUME [PrivateNext]_all_vars
  PROVE  \/ [Next]_vars
         \/ \E u \in Enrolled, r \in Listed, a \in Amounts : Lend(u, r, a)
         \/ \E h \in Users, v \in Enrolled, rr \in Listed, wr \in Listed, a \in Amounts :
              Seize(h, v, rr, wr, a)
  <1>1. ASSUME NEW u \in Users, PrivateStep(u)
        PROVE  \/ [Next]_vars
               \/ \E v \in Enrolled, r \in Listed, a \in Amounts : Lend(v, r, a)
               \/ \E h \in Users, v \in Enrolled, rr \in Listed, wr \in Listed, a \in Amounts :
                    Seize(h, v, rr, wr, a)
    <2>1. ASSUME NEW o \in Offsets,
                 \/ InitPrivateObligation(u, o)
                 \/ \E prices \in Prices : PrivateCheckLiquidatable(u, prices, o)
          PROVE  UNCHANGED vars
      BY <2>1 DEF InitPrivateObligation, PrivateCheckLiquidatable, market_vars
    <2>2. ASSUME NEW o \in Offsets, NEW r \in Listed, NEW a \in Amounts, u \in Enrolled,
                 PrivateDepositCollateral(u, r, a, o)
          PROVE  Next
      BY <2>2 DEF PrivateDepositCollateral, Next, ObligationStep
    <2>3. ASSUME NEW o \in Offsets, NEW r \in Listed, NEW a \in Amounts, u \in Enrolled,
                 PrivateBorrow(u, r, a, o)
          PROVE  Lend(u, r, a)
      BY <2>3 DEF PrivateBorrow
    <2>4. ASSUME NEW h \in Users, NEW v \in Enrolled, NEW rr \in Listed, NEW wr \in Listed,
                 NEW a \in Amounts, ExecutePrivateLiquidation(u, h, v, rr, wr, a)
          PROVE  Seize(u, v, rr, wr, a)
      BY <2>4 DEF ExecutePrivateLiquidation
    <2>5. ASSUME NEW o \in DOMAIN pending[u], Run(u, o) \/ Callback(u, o) \/ Lost(u, o)
          PROVE  UNCHANGED vars
      BY <2>5 DEF Run, Callback, Lost, market_vars
    <2> QED BY <1>1, <2>1, <2>2, <2>3, <2>4, <2>5 DEF PrivateStep
  <1> QED BY <1>1 DEF PrivateNext, all_vars

(***************************************************************************)
(* The market's invariant.                                                 *)
(***************************************************************************)

\* The private accounts are there from the start, and the market is empty.
LEMMA PrivateInitInv == PrivateInit => Inv /\ PrivateInv
  <1>1. PrivateInit => Inv
    BY InitInv DEF PrivateInit
  <1>2. PrivateInit => PrivateInv
    BY DEF PrivateInit, PrivateInv
  <1> QED BY <1>1, <1>2

\* A private instruction does to the market what a public one does, or nothing:
\* the market's invariant needs nothing of the private accounts.
LEMMA MarketNextInv ==
  ASSUME Inv, [PrivateNext]_all_vars
  PROVE  Inv'
  BY MarketSees, NextInv, LendInv, SeizeInv

\* So it holds whatever mix of the two kinds a user makes.
LEMMA MarketInvariance == PrivateSpec => []Inv
  <1>1. PrivateInit => Inv
    BY PrivateInitInv
  <1>2. Inv /\ [PrivateNext]_all_vars => Inv'
    BY MarketNextInv
  <1> QED BY <1>1, <1>2, PTL DEF PrivateSpec

\* The cTokens in the collateral vaults are those locked on the obligations, also
\* when private instructions lock and seize them.
THEOREM PrivateCustody == PrivateSpec => []CollateralInCustody
  <1>1. Inv => CollateralInCustody
    BY DEF Inv
  <1> QED BY <1>1, MarketInvariance, PTL

\* The vaults and the books agree, also when tokens leave by private_borrow.
THEOREM PrivateBooks == PrivateSpec => []VaultsMatchBooks
  <1>1. Inv => VaultsMatchBooks
    BY DEF Inv
  <1> QED BY <1>1, MarketInvariance, PTL

\* A debt taken through private_borrow can be repaid and liquidated as any other.
THEOREM PrivateDebtsPayable == PrivateSpec => []SnapshotsBehind
  BY InvSnapshots, MarketInvariance, PTL

\* Nobody's cTokens, held or locked, become fewer unpaid, whichever of the public
\* and private instructions anyone sends, and whatever the cluster answers.
THEOREM NobodyLosesPrivately == PrivateSpec /\ []TotalsFit => NothingTakenUnpaid
  <1>1. ASSUME Inv, TotalsFit, [PrivateNext]_all_vars
        PROVE  NothingTaken
    BY <1>1, MarketSees, NothingTakenNext, DebtsOnly, SeizurePays
  <1>2. Inv /\ TotalsFit /\ [PrivateNext]_all_vars => NothingTaken
    BY <1>1
  <1>3. NothingTaken <=> \A u \in Users, r \in Reserves :
          Held(u, r)' < Held(u, r) =>
            \/ liquidity_vault'[r] < liquidity_vault[r]
            \/ \E rr \in Listed :
                 /\ CanFind(obligations[u].borrows, rr)
                 /\ DebtIn(obligations'[u], rr) + RATE_SCALE
                      <= DueIn(u, rr, reserves'[rr].cumulative_borrow_rate_sf)
    BY DEF NothingTaken, PaidFor
  <1> QED BY <1>2, <1>3, MarketInvariance, PTL DEF PrivateSpec, NothingTakenUnpaid

\* A liquidation on a private verdict keeps the bounds that a public one keeps:
\* half of the debt, and the worth of what is repaid with the bonus.
THEOREM PrivateLiquidationsFair == PrivateSpec => LiquidationsBounded
  <1>1. ASSUME Inv, [PrivateNext]_all_vars
        PROVE  LiquidationOnly
    BY <1>1, MarketSees, LiquidationNext, DebtOrCollateral, SeizureWithin
  <1>2. Inv /\ [PrivateNext]_all_vars => LiquidationOnly
    BY <1>1
  <1> QED BY <1>2, LiquidationParts, MarketInvariance, PTL DEF PrivateSpec, LiquidationsBounded

\* Every cToken is backed when private instructions lock, lend and seize as well.
THEOREM PrivateSolvent == PrivateSpec => []EveryCTokenBacked
  BY InvBacked, MarketInvariance, PTL

\* Each instruction, public or private, while the market is paused.
LEMMA PrivateFrozenNext ==
  ASSUME Inv, Inv', [PrivateNext]_all_vars
  PROVE  FrozenStep
  <1>1. ASSUME [Next]_vars PROVE FrozenStep
    BY <1>1, FrozenNext
  <1>2. ASSUME Open PROVE FrozenStep
    BY <1>2 DEF Open, FrozenStep
  <1>3. ASSUME NEW u \in Users, PrivateStep(u) PROVE FrozenStep
    BY <1>1, <1>2, <1>3
       DEF PrivateStep, InitPrivateObligation, PrivateDepositCollateral, DepositCollateral,
           PrivateBorrow, PrivateCheckLiquidatable, ExecutePrivateLiquidation,
           Run, Callback, Lost, market_vars
  <1> QED BY <1>1, <1>3 DEF PrivateNext, all_vars

\* The pause stops the private instructions that move tokens as well as the
\* public ones; the cluster's callbacks it does not stop move none.
THEOREM PauseFreezesPrivate == PrivateSpec => FrozenWhilePaused
  <1>1. Inv /\ Inv' /\ [PrivateNext]_all_vars => FrozenStep
    BY PrivateFrozenNext
  <1> QED BY <1>1, MarketInvariance, PTL DEF PrivateSpec, FrozenWhilePaused, FrozenStep

(***************************************************************************)
(* Debt only on fresh values.                                              *)
(***************************************************************************)

\* What an obligation owes in a reserve is a natural.
LEMMA DebtNatural ==
  ASSUME NEW o, NEW rs, Sound(o, rs), NEW r \in Reserves
  PROVE  DebtIn(o, r) \in Nat
  <1>1. CASE CanFind(o.borrows, r)
    <2>1. /\ o.borrows[find(o.borrows, r)] \in LiquidityType
          /\ DebtIn(o, r) = o.borrows[find(o.borrows, r)].borrowed_amount_sf
      BY <1>1, FoundBorrow
    <2> QED BY <2>1, Widths DEF LiquidityType
  <1>2. CASE ~CanFind(o.borrows, r)
    BY <1>2 DEF DebtIn
  <1> QED BY <1>1, <1>2

\* The step DebtOnFreshValues asks for.
FreshDebtStep ==
  \A u \in Enrolled, r \in Listed :
    DebtIn(obligations'[u], r) > DebtIn(obligations[u], r)
      /\ liquidity_vault'[r] < liquidity_vault[r]
    => \/ obligations[u].slot = slot
       \/ ~reserves[r].config.pyth_oracle

\* A step in which u's obligation borrows nothing from r, or may do so.
MayOwe(u, r) ==
  \/ obligations'[u] = obligations[u]
  \/ liquidity_vault'[r] >= liquidity_vault[r]
  \/ obligations[u].slot = slot
  \/ ~reserves[r].config.pyth_oracle

\* A step that is so with every obligation and reserve.
LEMMA FreshDebtFromParts ==
  ASSUME Inv, Inv', \A u \in Enrolled, r \in Listed : MayOwe(u, r)
  PROVE  FreshDebtStep
  <1>1. SUFFICES ASSUME NEW u \in Enrolled, NEW r \in Listed,
                        DebtIn(obligations'[u], r) > DebtIn(obligations[u], r),
                        liquidity_vault'[r] < liquidity_vault[r]
                 PROVE  \/ obligations[u].slot = slot
                        \/ ~reserves[r].config.pyth_oracle
    BY DEF FreshDebtStep
  <1>2. r \in Reserves
    BY InvFacts
  <1>3. liquidity_vault[r] \in Nat /\ liquidity_vault'[r] \in Nat
    BY <1>2, Widths DEF Inv, TypeOK
  <1>4. DebtIn(obligations[u], r) \in Nat
    BY <1>2, InvFacts, DebtNatural
  <1> QED BY <1>1, <1>3, <1>4 DEF MayOwe

\* One obligation borrows from one reserve.
LEMMA LendMayOwe ==
  ASSUME Inv, Inv', NEW u \in Enrolled, NEW q \in Listed, NEW a \in Amounts, Lend(u, q, a),
         obligations[u].slot = slot \/ ~reserves[q].config.pyth_oracle
  PROVE  FreshDebtStep
  <1>1. /\ \A v \in Enrolled : v # u => obligations'[v] = obligations[v]
        /\ \A r \in Reserves : r # q => liquidity_vault'[r] = liquidity_vault[r]
    BY InvFacts DEF Lend, Enrolled
  <1>2. /\ \A r \in Reserves : liquidity_vault[r] \in Nat
        /\ Listed \subseteq Reserves
    BY InvFacts
  <1>3. \A v \in Enrolled, r \in Listed : MayOwe(v, r)
    BY <1>1, <1>2 DEF MayOwe
  <1> QED BY <1>3, FreshDebtFromParts

\* A liquidator pays in.
LEMMA SeizeMayOwe ==
  ASSUME Inv, Inv', NEW l \in Users, NEW u \in Enrolled, NEW rr \in Listed, NEW wr \in Listed,
         NEW a \in Amounts, Seize(l, u, rr, wr, a)
  PROVE  FreshDebtStep
  <1>1. \A v \in Enrolled, r \in Listed : MayOwe(v, r)
    <2>1. obligations[u].slot = slot
      BY DEF Seize, CanSeize, is_slot_stale
    <2>2. \A v \in Enrolled : v # u => obligations'[v] = obligations[v]
      BY InvFacts DEF Seize, Enrolled
    <2> QED BY <2>1, <2>2 DEF MayOwe
  <1> QED BY <1>1, FreshDebtFromParts

\* A step that takes no obligation further, or nothing from any vault.
LEMMA QuietMayOwe ==
  ASSUME Inv, Inv',
         \/ obligations' = obligations
         \/ \A u \in Enrolled : obligations'[u] = obligations[u]
         \/ liquidity_vault' = liquidity_vault
  PROVE  FreshDebtStep
  <1>1. \A r \in Listed : r \in Reserves /\ liquidity_vault[r] \in Nat
    BY InvFacts
  <1>2. \A v \in Enrolled, r \in Listed : MayOwe(v, r)
    BY <1>1 DEF MayOwe
  <1> QED BY <1>2, FreshDebtFromParts

\* Each instruction, public or private.
LEMMA FreshDebtNext ==
  ASSUME Inv, Inv', [PrivateNext]_all_vars
  PROVE  FreshDebtStep
  <1>1. ASSUME NEW u \in Users, UserStep(u) PROVE FreshDebtStep
    <2>1. ASSUME NEW v \in Enrolled, NEW rr \in Listed, NEW wr \in Listed, NEW a \in Amounts,
                 Liquidate(u, v, rr, wr, a)
          PROVE  FreshDebtStep
      BY <2>1, SeizeMayOwe DEF Liquidate
    <2>2. CASE InitObligation(u)
      BY <2>2, QuietMayOwe DEF InitObligation, balances
    <2>3. ASSUME NEW r \in Listed, NEW a \in Amounts, Deposit(u, r, a) \/ Withdraw(u, r, a)
          PROVE  FreshDebtStep
      BY <2>3, QuietMayOwe DEF Deposit, Withdraw
    <2> QED BY <1>1, <2>1, <2>2, <2>3 DEF UserStep
  <1>2. ASSUME NEW u \in Enrolled, ObligationStep(u) PROVE FreshDebtStep
    <2>1. ASSUME NEW r \in Listed, NEW a \in Amounts, Borrow(u, r, a) PROVE FreshDebtStep
      BY <2>1, LendMayOwe DEF Borrow, is_slot_stale
    <2>2. ASSUME NEW r \in Listed, NEW a \in Amounts, Repay(u, r, a) PROVE FreshDebtStep
      <3>1. /\ liquidity_vault' = [liquidity_vault EXCEPT ![r] = liquidity_vault[r] + a]
            /\ a \in Nat
        BY <2>2, AmountType DEF Repay
      <3>2. /\ liquidity_vault \in [Reserves -> Nat]
            /\ Listed \subseteq Reserves
        BY InvFacts
      <3>3. \A q \in Listed : liquidity_vault'[q] >= liquidity_vault[q]
        BY <3>1, <3>2
      <3> QED BY <3>3, FreshDebtFromParts DEF MayOwe
    <2> QED BY <1>2, <2>1, <2>2, QuietMayOwe
         DEF ObligationStep, RefreshObligation, balances, DepositCollateral, WithdrawCollateral
  <1>3. ASSUME OwnerStep PROVE FreshDebtStep
    BY <1>3, QuietMayOwe
       DEF OwnerStep, AddReserve, SetPause, UpdateMarketAuthority, UpdateReserveConfig
  <1>4. ASSUME \/ \E r \in Listed, m \in Messages : RefreshReserve(r, m)
               \/ Tick
               \/ UNCHANGED vars
        PROVE  FreshDebtStep
    BY <1>4, QuietMayOwe DEF RefreshReserve, Tick, vars, accounts
  <1>5. ASSUME NEW u \in Users, PrivateStep(u) PROVE FreshDebtStep
    <2>1. ASSUME NEW o \in Offsets, NEW r \in Listed, NEW a \in Amounts, u \in Enrolled,
                 PrivateBorrow(u, r, a, o)
          PROVE  FreshDebtStep
      BY <2>1, LendMayOwe DEF PrivateBorrow, PriceKnown, is_slot_stale
    <2>2. ASSUME NEW h \in Users, NEW v \in Enrolled, NEW rr \in Listed, NEW wr \in Listed,
                 NEW a \in Amounts, ExecutePrivateLiquidation(u, h, v, rr, wr, a)
          PROVE  FreshDebtStep
      BY <2>2, SeizeMayOwe DEF ExecutePrivateLiquidation
    <2>3. ASSUME NEW o \in Offsets, NEW r \in Listed, NEW a \in Amounts,
                 PrivateDepositCollateral(u, r, a, o)
          PROVE  FreshDebtStep
      BY <2>3, QuietMayOwe DEF PrivateDepositCollateral, DepositCollateral
    <2>4. ASSUME UNCHANGED market_vars PROVE FreshDebtStep
      BY <2>4, <1>4 DEF market_vars
    <2> QED BY <1>5, <2>1, <2>2, <2>3, <2>4
         DEF PrivateStep, InitPrivateObligation, PrivateCheckLiquidatable, Run, Callback, Lost
  <1> QED BY <1>1, <1>2, <1>3, <1>4, <1>5 DEF PrivateNext, Next, all_vars

\* Debt is taken on, by either instruction, only on values of this very slot or
\* in a reserve without an oracle.
THEOREM FreshDebts == PrivateSpec => DebtOnFreshValues
  <1>1. Inv /\ Inv' /\ [PrivateNext]_all_vars => FreshDebtStep
    BY FreshDebtNext
  <1> QED BY <1>1, MarketInvariance, PTL DEF PrivateSpec, DebtOnFreshValues, FreshDebtStep

(***************************************************************************)
(* Each reserve of the market is a Reserve.                                *)
(***************************************************************************)

\* private_borrow, on the reserve, is its PrivateBorrow.
LEMMA PrivateBorrowMaps ==
  ASSUME Inv, Inv', NEW u \in Enrolled, NEW r \in Listed, NEW a \in Amounts, PriceKnown(u, r),
         Lend(u, r, a)
  PROVE  OneReserve(r)!PrivateBorrow(a)
  <1>1. /\ a \in Nat \ {0} /\ Later(reserves[r], Current(r)) /\ r \in Reserves
        /\ Current(r).available_amount = reserves[r].available_amount
        /\ Current(r).mint_total_supply = reserves[r].mint_total_supply
    BY AmountType, CurrentLater DEF Lend
  <1>2. /\ r \in Listed' /\ reserves'[r] = borrow(Current(r), a)
        /\ slot' = slot
        /\ is_active(reserves[r]) /\ Accrues(r) /\ CanBorrow(Current(r), a)
        /\ a <= liquidity_vault[r]
        /\ reserves[r].config.pyth_oracle => reserves[r].market_price_sf > 0
    BY InvFacts DEF Lend, Listed, PriceKnown
  <1>3. /\ reserves'[r].available_amount = Current(r).available_amount - a
        /\ reserves'[r].mint_total_supply = Current(r).mint_total_supply
    BY <1>1, <1>2, LaterLent
  <1>4. liquidity_vault'[r] = liquidity_vault[r] - a /\ CTokenSupply(r)' = CTokenSupply(r)
    BY <1>1, <1>2, <1>3, Books
  <1> QED BY <1>2, <1>4, SameCurrent, SameMethods DEF OneReserve!PrivateBorrow

\* Each instruction, public or private.
LEMMA PrivateNextMaps ==
  ASSUME Inv, Inv', [PrivateNext]_all_vars
  PROVE  MarketStep
  <1>1. ASSUME [Next]_vars PROVE MarketStep
    BY <1>1, NextMaps
  <1>2. ASSUME NEW u \in Users, PrivateStep(u) PROVE MarketStep
    <2>1. ASSUME NEW o \in Offsets, NEW r \in Listed, NEW a \in Amounts, u \in Enrolled,
                 PrivateBorrow(u, r, a, o)
          PROVE  MarketStep
      <3>1. a \in OneAmounts
        BY AmountType, WithinAmounts
      <3>2. OneReserve(r)!PrivateBorrow(a)
        BY <2>1, PrivateBorrowMaps DEF PrivateBorrow
      <3>3. OneReserve(r)!Next
        BY <3>1, <3>2 DEF OneReserve!Next, OneAmounts
      <3>4. PICK p : p = borrow(Current(r), a)
        OBVIOUS
      <3> QED BY <2>1, <3>3, <3>4, OneMaps DEF PrivateBorrow, Lend
    <2>2. ASSUME NEW h \in Users, NEW v \in Enrolled, NEW rr \in Listed, NEW wr \in Listed,
                 NEW a \in Amounts, ExecutePrivateLiquidation(u, h, v, rr, wr, a)
          PROVE  MarketStep
      BY <2>2, SeizeMaps DEF ExecutePrivateLiquidation
    <2>3. ASSUME NEW o \in Offsets, NEW r \in Listed, NEW a \in Amounts,
                 PrivateDepositCollateral(u, r, a, o)
          PROVE  MarketStep
      BY <2>3, NoneMaps DEF PrivateDepositCollateral, DepositCollateral
    <2>4. ASSUME UNCHANGED market_vars PROVE MarketStep
      BY <1>1, <2>4 DEF market_vars
    <2> QED BY <1>2, <2>1, <2>2, <2>3, <2>4
         DEF PrivateStep, InitPrivateObligation, PrivateCheckLiquidatable, Run, Callback, Lost
  <1> QED BY <1>1, <1>2 DEF PrivateNext, all_vars

\* Every reserve of the market is a Reserve also when users borrow privately.
THEOREM PrivateReserves == PrivateSpec => ImplementsReserves
  <1>1. PrivateInit => Listed = {}
    BY DEF PrivateInit, Init, Listed
  <1>2. Inv /\ Inv' /\ [PrivateNext]_all_vars => MarketStep
    BY PrivateNextMaps
  <1> QED BY <1>1, <1>2, MarketInvariance, PTL DEF PrivateSpec, ImplementsReserves, MarketStep

(***************************************************************************)
(* Each private position is a PrivatePosition.                             *)
(***************************************************************************)

\* Every user keeps one account, and the computations queued on it.
LEMMA PrivateNextInv ==
  ASSUME PrivateInv, [PrivateNext]_all_vars
  PROVE  PrivateInv'
  <1>1. ASSUME UNCHANGED private_vars PROVE PrivateInv'
    BY <1>1 DEF private_vars, PrivateInv
  <1>2. ASSUME NEW u \in Users, PrivateStep(u) PROVE PrivateInv'
    <2>1. ASSUME NEW o, NEW c, NEW a, NEW p, Queue(u, o, c, a, p)
          PROVE  DOMAIN pending' = Users
      BY <2>1 DEF Queue, PrivateInv
    <2>2. ASSUME NEW o \in Offsets, InitPrivateObligation(u, o) PROVE PrivateInv'
      BY <2>1, <2>2 DEF InitPrivateObligation, PrivateInv
    <2>3. ASSUME NEW o \in Offsets, NEW r \in Listed, NEW a \in Amounts,
                 PrivateDepositCollateral(u, r, a, o) \/ PrivateBorrow(u, r, a, o)
          PROVE  PrivateInv'
      BY <2>1, <2>3 DEF PrivateDepositCollateral, PrivateBorrow, PrivateInv
    <2>4. ASSUME NEW o \in Offsets, NEW prices \in Prices, PrivateCheckLiquidatable(u, prices, o)
          PROVE  PrivateInv'
      BY <2>1, <2>4 DEF PrivateCheckLiquidatable, PrivateInv
    <2>5. ASSUME NEW h \in Users, NEW v \in Enrolled, NEW rr \in Listed, NEW wr \in Listed,
                 NEW a \in Amounts, ExecutePrivateLiquidation(u, h, v, rr, wr, a)
          PROVE  PrivateInv'
      BY <2>5 DEF ExecutePrivateLiquidation, PrivateInv
    <2>6. ASSUME NEW o \in DOMAIN pending[u], Run(u, o) \/ Callback(u, o) \/ Lost(u, o)
          PROVE  PrivateInv'
      <3>1. CASE Run(u, o)
        BY <3>1 DEF Run, PrivateInv
      <3>2. CASE Callback(u, o) \/ Lost(u, o)
        BY <3>2 DEF Callback, Lost, PrivateInv
      <3> QED BY <2>6, <3>1, <3>2
    <2> QED BY <1>2, <2>2, <2>3, <2>4, <2>5, <2>6 DEF PrivateStep
  <1> QED BY <1>1, <1>2 DEF PrivateNext, all_vars

\* The instance's circuits are this module's,
LEMMA SameCircuits ==
  ASSUME NEW u
  PROVE  /\ \A p, a : OnePosition(u)!CanAddCollateral(p, a) = CanAddCollateral(p, a)
         /\ \A p, a : OnePosition(u)!CanAddBorrow(p, a) = CanAddBorrow(p, a)
         /\ \A p, a : OnePosition(u)!add_collateral_v2(p, a) = add_collateral_v2(p, a)
         /\ \A p, a : OnePosition(u)!add_borrow_v2(p, a) = add_borrow_v2(p, a)
         /\ \A p, q : OnePosition(u)!check_health_v2(p, q) = check_health_v2(p, q)
         /\ OnePosition(u)!init_position_v2 = init_position_v2
  <1>1. /\ \A p, a : OnePosition(u)!CanAddCollateral(p, a) = CanAddCollateral(p, a)
        /\ \A p, a : OnePosition(u)!CanAddBorrow(p, a) = CanAddBorrow(p, a)
    BY DEF OnePosition!CanAddCollateral, CanAddCollateral, OnePosition!CanAddBorrow, CanAddBorrow
  <1>2. /\ \A p, a : OnePosition(u)!add_collateral_v2(p, a) = add_collateral_v2(p, a)
        /\ \A p, a : OnePosition(u)!add_borrow_v2(p, a) = add_borrow_v2(p, a)
        /\ OnePosition(u)!init_position_v2 = init_position_v2
    BY DEF OnePosition!add_collateral_v2, add_collateral_v2, OnePosition!add_borrow_v2,
           add_borrow_v2, OnePosition!init_position_v2, init_position_v2
  <1>3. OnePosition(u)!BPS_SQUARED = BPS_SQUARED
    BY DEF OnePosition!BPS_SQUARED, BPS_SQUARED
  <1>4. \A p, q : OnePosition(u)!check_health_v2(p, q) = check_health_v2(p, q)
    BY <1>3 DEF OnePosition!check_health_v2, check_health_v2
  <1> QED BY <1>1, <1>2, <1>4

\* so are its nonces and new accounts,
LEMMA SameAccounts ==
  ASSUME NEW u
  PROVE  /\ \A x, n : OnePosition(u)!decrypt(x, n) = decrypt(x, n)
         /\ OnePosition(u)!Updates = Updates
         /\ OnePosition(u)!Nonces = Nonces
         /\ OnePosition(u)!NewAccount = NewAccount
  <1>1. \A x, n : OnePosition(u)!decrypt(x, n) = decrypt(x, n)
    BY DEF OnePosition!decrypt, decrypt
  <1>2. OnePosition(u)!Updates = Updates
    BY DEF OnePosition!Updates, Updates
  <1>3. OnePosition(u)!Cardinality(Offsets) = Cardinality(Offsets)
    BY DEF OnePosition!Cardinality, Cardinality
  <1>4. OnePosition(u)!Nonces = Nonces
    BY <1>3 DEF OnePosition!Nonces, Nonces
  <1>5. OnePosition(u)!NewAccount = NewAccount
    BY DEF OnePosition!NewAccount, NewAccount
  <1> QED BY <1>1, <1>2, <1>4, <1>5

\* what an instruction does to an account and its computations,
LEMMA SameQueueing ==
  ASSUME NEW u
  PROVE  /\ \A p, o : OnePosition(u)!CanQueue(p, o) = CanQueue(p, o)
         /\ \A a, p, o, c, m, q : OnePosition(u)!queue_computation(a, p, o, c, m, q)
                                    = queue_computation(a, p, o, c, m, q)
         /\ \A a : OnePosition(u)!CanInitPrivate(a) = CanInitPrivate(a)
         /\ \A a : OnePosition(u)!init_private(a) = init_private(a)
         /\ \A a, m : OnePosition(u)!CanPrivateDeposit(a, m) = CanPrivateDeposit(a, m)
         /\ \A a, m : OnePosition(u)!CanPrivateBorrow(a, m) = CanPrivateBorrow(a, m)
         /\ \A a, r : OnePosition(u)!with_collateral_reserve(a, r) = with_collateral_reserve(a, r)
         /\ \A a, r : OnePosition(u)!with_borrow_reserve(a, r) = with_borrow_reserve(a, r)
         /\ \A p, o : OnePosition(u)!Without(p, o) = Without(p, o)
  <1>1. \A a : OnePosition(u)!Plain(a) = Plain(a)
    BY SameCircuits, SameAccounts DEF OnePosition!Plain, Plain
  <1>2. /\ \A a, m : OnePosition(u)!CanPrivateDeposit(a, m) = CanPrivateDeposit(a, m)
        /\ \A a, m : OnePosition(u)!CanPrivateBorrow(a, m) = CanPrivateBorrow(a, m)
    BY <1>1, SameCircuits, SameAccounts DEF OnePosition!CanPrivateDeposit, CanPrivateDeposit,
                              OnePosition!CanPrivateBorrow, CanPrivateBorrow
  <1>3. /\ \A p, o : OnePosition(u)!CanQueue(p, o) = CanQueue(p, o)
        /\ \A a, p, o, c, m, q : OnePosition(u)!queue_computation(a, p, o, c, m, q)
                                   = queue_computation(a, p, o, c, m, q)
    BY DEF OnePosition!CanQueue, CanQueue, OnePosition!queue_computation, queue_computation
  <1>4. /\ \A a : OnePosition(u)!CanInitPrivate(a) = CanInitPrivate(a)
        /\ \A a : OnePosition(u)!init_private(a) = init_private(a)
        /\ \A a, r : OnePosition(u)!with_collateral_reserve(a, r) = with_collateral_reserve(a, r)
        /\ \A a, r : OnePosition(u)!with_borrow_reserve(a, r) = with_borrow_reserve(a, r)
        /\ \A p, o : OnePosition(u)!Without(p, o) = Without(p, o)
    BY DEF OnePosition!CanInitPrivate, CanInitPrivate, OnePosition!init_private, init_private,
           OnePosition!with_collateral_reserve, with_collateral_reserve,
           OnePosition!with_borrow_reserve, with_borrow_reserve, OnePosition!Without, Without
  <1> QED BY <1>2, <1>3, <1>4

\* and what the cluster computes and calls back with.
LEMMA SameCluster ==
  ASSUME NEW u
  PROVE  /\ \A a, p : OnePosition(u)!FreshNonce(a, p) = FreshNonce(a, p)
         /\ \A a, c, n : OnePosition(u)!Outputs(a, c, n) = Outputs(a, c, n)
         /\ \A a, c : OnePosition(u)!Delivered(a, c) = Delivered(a, c)
  <1>1. \A a, p : OnePosition(u)!NoncesInUse(a, p) = NoncesInUse(a, p)
    BY SameCircuits, SameAccounts DEF OnePosition!NoncesInUse, NoncesInUse
  <1>2. \A a, p : OnePosition(u)!FreshNonce(a, p) = FreshNonce(a, p)
    BY <1>1, SameCircuits, SameAccounts DEF OnePosition!FreshNonce, FreshNonce, OnePosition!Min, Min
  <1>3. /\ \A a, c : OnePosition(u)!Input(a, c) = Input(a, c)
        /\ \A p, c : OnePosition(u)!Added(p, c) = Added(p, c)
        /\ \A p, c : OnePosition(u)!Verdicts(p, c) = Verdicts(p, c)
    BY SameCircuits, SameAccounts DEF OnePosition!Input, Input, OnePosition!Added, Added,
                        OnePosition!Verdicts, Verdicts
  <1>4. \A a, c, n : OnePosition(u)!Outputs(a, c, n) = Outputs(a, c, n)
    BY <1>3, SameCircuits, SameAccounts DEF OnePosition!Outputs, Outputs
  <1>5. \A a, c : OnePosition(u)!Delivered(a, c) = Delivered(a, c)
    <2>1. /\ \A a, o : OnePosition(u)!init_position_v2_callback(a, o)
                         = init_position_v2_callback(a, o)
          /\ \A a, o : OnePosition(u)!add_v2_callback(a, o) = add_v2_callback(a, o)
          /\ \A a, o : OnePosition(u)!check_health_v2_callback(a, o)
                         = check_health_v2_callback(a, o)
      BY DEF OnePosition!init_position_v2_callback, init_position_v2_callback,
             OnePosition!add_v2_callback, add_v2_callback,
             OnePosition!check_health_v2_callback, check_health_v2_callback
    <2> QED BY <2>1 DEF OnePosition!Delivered, Delivered
  <1> QED BY <1>2, <1>4, <1>5

\* A step of the market as the private position of u sees it.
PositionStep(u) == OnePosition(u)!Next \/ UNCHANGED OnePosition(u)!vars

\* The others' positions are left alone.
OthersStay(u) ==
  \A v \in Users : v # u => private'[v] = private[v] /\ pending'[v] = pending[v]

\* A step that is one of u's position, and of no other.
LEMMA OnePositionMaps ==
  ASSUME NEW u \in Users, OthersStay(u), OnePosition(u)!Next
  PROVE  \A v \in Users : PositionStep(v)
  BY DEF OthersStay, PositionStep, OnePosition!vars

\* A step that queues a computation queues it on u's position only.
LEMMA QueueStays ==
  ASSUME PrivateInv, NEW u \in Users, NEW o, NEW c, NEW m, NEW q, Queue(u, o, c, m, q), NEW a,
         private' = private \/ private' = [private EXCEPT ![u] = a]
  PROVE  /\ OthersStay(u)
         /\ CanQueue(pending[u], o)
         /\ pending'[u] = queue_computation(private[u], pending[u], o, c, m, q)
  <1>1. PICK p : p = queue_computation(private[u], pending[u], o, c, m, q)
    OBVIOUS
  <1>2. pending' = [pending EXCEPT ![u] = p] /\ CanQueue(pending[u], o)
    BY <1>1 DEF Queue
  <1> QED BY <1>1, <1>2 DEF PrivateInv, OthersStay

\* A client adds no more than the cap at once.
LEMMA WholeTokensFit ==
  ASSUME NEW a \in Amounts
  PROVE  whole_tokens(a) \in 0 .. MaxTokens
  <1>1. a \in Nat
    BY AmountType
  <1>2. a \div WholeToken \in Nat
    <2>1. PICK w \in Nat \ {0} : w = WholeToken
      BY WholeTokenAssumption
    <2>2. a \div w \in Nat
      BY <1>1, <2>1
    <2> QED BY <2>1, <2>2
  <1> QED BY <1>2, WholeTokenAssumption, CapAssumption DEF whole_tokens

\* Nobody is made to wait for an answer.
LEMMA NobodyWaits ==
  ASSUME NEW u
  PROVE  OnePosition(u)!OwnerReady
  BY DEF OnePosition!OwnerReady

\* init_private_obligation is one of the position.
LEMMA InitPrivateMaps ==
  ASSUME PrivateInv, NEW u \in Users, NEW o \in Offsets, InitPrivateObligation(u, o)
  PROVE  OthersStay(u) /\ OnePosition(u)!Next
  <1>1. PICK a : a = init_private(private[u])
    OBVIOUS
  <1>2. /\ private' = [private EXCEPT ![u] = a] /\ CanInitPrivate(private[u])
        /\ Queue(u, o, "init_position_v2", 0, NoPrices)
    BY <1>1 DEF InitPrivateObligation
  <1>3. private'[u] = init_private(private[u])
    BY <1>1, <1>2 DEF PrivateInv
  <1>4. /\ OthersStay(u)
        /\ CanQueue(pending[u], o)
        /\ pending'[u] = queue_computation(private[u], pending[u], o, "init_position_v2",
                                           0, NoPrices)
    BY <1>2, QueueStays
  <1>5. OnePosition(u)!init_private_obligation(o)
    BY <1>2, <1>3, <1>4, SameQueueing, NobodyWaits
       DEF OnePosition!init_private_obligation
  <1> QED BY <1>4, <1>5 DEF OnePosition!Next, OnePosition!OwnerStep

\* So is private_deposit_collateral,
LEMMA PrivateDepositMaps ==
  ASSUME Inv, PrivateInv, NEW u \in Users, NEW o \in Offsets, NEW r \in Listed, NEW m \in Amounts,
         PrivateDepositCollateral(u, r, m, o)
  PROVE  OthersStay(u) /\ OnePosition(u)!Next
  <1>1. PICK a : a = with_collateral_reserve(private[u], r)
    OBVIOUS
  <1>2. /\ private' = [private EXCEPT ![u] = a]
        /\ CanPrivateDeposit(private[u], whole_tokens(m))
        /\ Queue(u, o, "add_collateral_v2", whole_tokens(m), NoPrices)
    BY <1>1 DEF PrivateDepositCollateral
  <1>3. private'[u] = with_collateral_reserve(private[u], r)
    BY <1>1, <1>2 DEF PrivateInv
  <1>4. /\ OthersStay(u)
        /\ CanQueue(pending[u], o)
        /\ pending'[u] = queue_computation(private[u], pending[u], o, "add_collateral_v2",
                                           whole_tokens(m), NoPrices)
    BY <1>2, QueueStays
  <1>5. OnePosition(u)!private_deposit_collateral(o, r, whole_tokens(m))
    BY <1>2, <1>3, <1>4, SameQueueing, NobodyWaits
       DEF OnePosition!private_deposit_collateral
  <1>6. r \in Reserves /\ whole_tokens(m) \in 0 .. MaxTokens
    BY InvFacts, WholeTokensFit
  <1> QED BY <1>4, <1>5, <1>6 DEF OnePosition!Next, OnePosition!OwnerStep

\* private_borrow,
LEMMA PrivateLoanMaps ==
  ASSUME Inv, PrivateInv, NEW u \in Users, NEW o \in Offsets, NEW r \in Listed, NEW m \in Amounts,
         PrivateBorrow(u, r, m, o)
  PROVE  OthersStay(u) /\ OnePosition(u)!Next
  <1>1. PICK a : a = with_borrow_reserve(private[u], r)
    OBVIOUS
  <1>2. /\ private' = [private EXCEPT ![u] = a]
        /\ CanPrivateBorrow(private[u], whole_tokens(m))
        /\ Queue(u, o, "add_borrow_v2", whole_tokens(m), NoPrices)
    BY <1>1 DEF PrivateBorrow
  <1>3. private'[u] = with_borrow_reserve(private[u], r)
    BY <1>1, <1>2 DEF PrivateInv
  <1>4. /\ OthersStay(u)
        /\ CanQueue(pending[u], o)
        /\ pending'[u] = queue_computation(private[u], pending[u], o, "add_borrow_v2",
                                           whole_tokens(m), NoPrices)
    BY <1>2, QueueStays
  <1>5. OnePosition(u)!private_borrow(o, r, whole_tokens(m))
    BY <1>2, <1>3, <1>4, SameQueueing, NobodyWaits
       DEF OnePosition!private_borrow
  <1>6. r \in Reserves /\ whole_tokens(m) \in 0 .. MaxTokens
    BY InvFacts, WholeTokensFit
  <1> QED BY <1>4, <1>5, <1>6 DEF OnePosition!Next, OnePosition!OwnerStep

\* private_check_liquidatable,
LEMMA PrivateCheckMaps ==
  ASSUME PrivateInv, NEW u \in Users, NEW o \in Offsets, NEW prices \in Prices,
         PrivateCheckLiquidatable(u, prices, o)
  PROVE  OthersStay(u) /\ OnePosition(u)!Next
  <1>1. /\ private' = private /\ private[u].is_initialized
        /\ Queue(u, o, "check_health_v2", 0, prices)
    BY DEF PrivateCheckLiquidatable
  <1>2. OnePosition(u)!private_check_liquidatable(o, prices)
    BY <1>1, QueueStays, SameQueueing DEF OnePosition!private_check_liquidatable
  <1> QED BY <1>1, <1>2, QueueStays DEF OnePosition!Next

\* execute_private_liquidation, of the holder's position,
LEMMA ExecuteMaps ==
  ASSUME PrivateInv, NEW l, NEW h \in Users, NEW v, NEW rr, NEW wr, NEW m,
         ExecutePrivateLiquidation(l, h, v, rr, wr, m)
  PROVE  OthersStay(h) /\ OnePosition(h)!Next
  <1>1. PICK a : a = [private[h] EXCEPT !.is_liquidatable = FALSE]
    OBVIOUS
  <1>2. /\ private' = [private EXCEPT ![h] = a] /\ private[h].is_liquidatable
        /\ pending' = pending
    BY <1>1 DEF ExecutePrivateLiquidation
  <1>3. private'[h] = a /\ OthersStay(h)
    BY <1>2 DEF PrivateInv, OthersStay
  <1>4. OnePosition(h)!execute_private_liquidation
    BY <1>1, <1>2, <1>3 DEF OnePosition!execute_private_liquidation
  <1> QED BY <1>3, <1>4 DEF OnePosition!Next

\* and what the cluster does.
LEMMA ClusterMaps ==
  ASSUME PrivateInv, NEW u \in Users, NEW o \in DOMAIN pending[u],
         Run(u, o) \/ Callback(u, o) \/ Lost(u, o)
  PROVE  OthersStay(u) /\ OnePosition(u)!Next
  <1>1. ASSUME Run(u, o) PROVE OthersStay(u) /\ OnePosition(u)!ClusterStep(o)
    <2>1. PICK x \in Outputs(private[u], pending[u][o], FreshNonce(private[u], pending[u]))
                       \cup {Failure} :
            pending' = [pending EXCEPT ![u][o].output = x]
      BY <1>1 DEF Run
    <2>2. PICK c : c = [pending[u][o] EXCEPT !.output = x]
      OBVIOUS
    <2>3. PICK p : p = [pending[u] EXCEPT ![o] = c]
      OBVIOUS
    <2>4. pending' = [pending EXCEPT ![u] = p]
      BY <2>1, <2>2, <2>3
    <2>5. pending'[u] = [pending[u] EXCEPT ![o].output = x] /\ OthersStay(u)
      BY <1>1, <2>2, <2>3, <2>4 DEF PrivateInv, OthersStay, Run
    <2>6. pending[u][o].output = NoOutput /\ private'[u] = private[u]
      BY <1>1 DEF Run
    <2>7. OnePosition(u)!Run(o) \/ OnePosition(u)!Fail(o)
      BY <2>1, <2>5, <2>6, SameCluster DEF OnePosition!Run, OnePosition!Fail
    <2> QED BY <2>5, <2>7 DEF OnePosition!ClusterStep
  <1>2. ASSUME Callback(u, o) PROVE OthersStay(u) /\ OnePosition(u)!ClusterStep(o)
    <2>1. PICK a : a = Delivered(private[u], pending[u][o])
      OBVIOUS
    <2>2. PICK p : p = Without(pending[u], o)
      OBVIOUS
    <2>3. /\ pending[u][o].output \notin {NoOutput, Failure}
          /\ private' = [private EXCEPT ![u] = a] /\ pending' = [pending EXCEPT ![u] = p]
      BY <1>2, <2>1, <2>2 DEF Callback
    <2>4. private'[u] = a /\ pending'[u] = p /\ OthersStay(u)
      BY <2>3 DEF PrivateInv, OthersStay
    <2>5. OnePosition(u)!Callback(o)
      BY <2>1, <2>2, <2>3, <2>4, SameCluster, SameQueueing DEF OnePosition!Callback
    <2> QED BY <2>4, <2>5 DEF OnePosition!ClusterStep
  <1>3. ASSUME Lost(u, o) PROVE OthersStay(u) /\ OnePosition(u)!ClusterStep(o)
    <2>1. PICK p : p = Without(pending[u], o)
      OBVIOUS
    <2>2. private' = private /\ pending' = [pending EXCEPT ![u] = p]
      BY <1>3, <2>1 DEF Lost
    <2>3. private'[u] = private[u] /\ pending'[u] = p /\ OthersStay(u)
      BY <2>2 DEF PrivateInv, OthersStay
    <2>4. OnePosition(u)!Lost(o)
      BY <2>1, <2>3, SameQueueing DEF OnePosition!Lost
    <2> QED BY <2>3, <2>4 DEF OnePosition!ClusterStep
  <1> QED BY <1>1, <1>2, <1>3 DEF OnePosition!Next

\* Each instruction, public or private.
LEMMA PrivateNextPositions ==
  ASSUME Inv, PrivateInv, [PrivateNext]_all_vars
  PROVE  \A v \in Users : PositionStep(v)
  <1>1. ASSUME UNCHANGED private_vars PROVE \A v \in Users : PositionStep(v)
    BY <1>1 DEF private_vars, PositionStep, OnePosition!vars
  <1>2. ASSUME NEW u \in Users, PrivateStep(u)
        PROVE  \E v \in Users : OthersStay(v) /\ OnePosition(v)!Next
    BY <1>2, InitPrivateMaps, PrivateDepositMaps, PrivateLoanMaps, PrivateCheckMaps, ExecuteMaps,
       ClusterMaps DEF PrivateStep
  <1> QED BY <1>1, <1>2, OnePositionMaps DEF PrivateNext, all_vars

\* Each user's account starts as an account that does not exist yet.
LEMMA PositionsOpen == PrivateInit => \A u \in Users : OnePosition(u)!Init
  BY SameCircuits, SameAccounts DEF PrivateInit, OnePosition!Init

\* Both invariants hold throughout.
LEMMA PrivateInvariance == PrivateSpec => [](Inv /\ PrivateInv)
  <1>1. PrivateInit => Inv /\ PrivateInv
    BY PrivateInitInv
  <1>2. Inv /\ PrivateInv /\ [PrivateNext]_all_vars => (Inv /\ PrivateInv)'
    BY MarketNextInv, PrivateNextInv
  <1> QED BY <1>1, <1>2, PTL DEF PrivateSpec

\* Each user's private position is a PrivatePosition, whatever the market and its
\* pause let through: what is proved of PrivatePosition is true of each of them.
THEOREM PrivatePositions == PrivateSpec => ImplementsPositions
  <1>1. PrivateInit => \A u \in Users : OnePosition(u)!Init
    BY PositionsOpen
  <1>2. Inv /\ PrivateInv /\ [PrivateNext]_all_vars => \A u \in Users : PositionStep(u)
    BY PrivateNextPositions
  <1> QED BY <1>1, <1>2, PrivateInvariance, PTL DEF PrivateSpec, ImplementsPositions, PositionStep
===============================================================================
