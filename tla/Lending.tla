-------------------------------- MODULE Lending --------------------------------
(***************************************************************************)
(* The lending market: its reserves, its users' obligations, the token     *)
(* accounts and the clock, and one action per instruction.  A transaction  *)
(* is atomic and a failed one changes nothing, so the interleavings are    *)
(* those of whole instructions of different users in and across slots.     *)
(***************************************************************************)
EXTENDS ObligationHandlers, PriceFeed

CONSTANTS
  Users,        \* depositors, borrowers and liquidators
  Owner,        \* the authority the market's address is derived from
  Authorities,  \* keys the market may be handed to
  Amounts,      \* amounts an instruction may be called with
  Messages,     \* Pyth messages there may be, by age: publish_time is relative
  Configs,      \* configurations the owner may submit
  MaxSlot,      \* bound: the last slot of the clock
  SlotSeconds   \* seconds from one slot of the model to the next

\* Users are keys of 32 bytes: as many as one likes, but finitely many.
ASSUME LendingAssumption ==
  /\ IsFiniteSet(Users)
  /\ Owner \in Authorities
  /\ Amounts \subseteq U64 \ {0}
  /\ Messages \subseteq MessageType
  /\ Configs \subseteq ConfigType
  /\ MaxSlot \in U64 \ {0}
  /\ SlotSeconds \in Nat

VARIABLES
  market,            \* LendingMarket: its owner and its emergency pause
  reserves,          \* the Reserve accounts there are, by address
  obligations,       \* the Obligation accounts there are, by owner
  liquidity_vault,   \* SPL balances of the reserves' liquidity vaults
  collateral_vault,  \* SPL balances of the reserves' collateral supply vaults
  ctokens,           \* SPL balances of the users' cToken accounts
  slot               \* Clock::slot

accounts == <<market, reserves, obligations>>
balances == <<liquidity_vault, collateral_vault, ctokens>>
vars     == <<market, reserves, obligations, liquidity_vault, collateral_vault, ctokens, slot>>

\* Clock::unix_timestamp.
now == slot * SlotSeconds

SumOver(f, S) == MapThenSumSet(LAMBDA x : f[x], S)

\* SPL supply of a cToken mint: the users' and the locked ones.
CTokenSupply(r) == collateral_vault[r] + SumOver([u \in Users |-> ctokens[u][r]], Users)

\* Every instruction derives the market's address from the owner it finds
\* in the account; Anchor refuses it when that is another address.
MarketResolves == market.owner = Owner

\* Mutant of Open: the pause is never looked at.
OpenWhilePaused == MarketResolves

Open == MarketResolves /\ ~market.emergency_pause

\* The reserve after the accrual that opens most handlers.
Current(r) == accrue_interest(reserves[r], slot)
Accrues(r) == CanAccrue(reserves[r], slot)

-------------------------------------------------------------------------------
\* initialize_market.  A token account that does not exist yet holds nothing.
Init ==
  /\ slot = 1
  /\ market = [owner |-> Owner, emergency_pause |-> FALSE]
  /\ reserves = << >>
  /\ obligations = << >>
  /\ liquidity_vault = [r \in Reserves |-> 0]
  /\ collateral_vault = [r \in Reserves |-> 0]
  /\ ctokens = [u \in Users |-> [r \in Reserves |-> 0]]

\* add_reserve: only a configuration that validates gets in.
AddReserve(r, c) ==
  /\ Open
  /\ r \notin DOMAIN reserves
  /\ validate(c)
  /\ reserves' = [q \in DOMAIN reserves \cup {r} |->
                   IF q = r THEN NewReserve(c, slot) ELSE reserves[q]]
  /\ UNCHANGED <<market, obligations, balances, slot>>

\* Also while the market is paused.
InitObligation(u) ==
  /\ MarketResolves
  /\ u \notin DOMAIN obligations
  /\ obligations' = [v \in DOMAIN obligations \cup {u} |->
                      IF v = u THEN NewObligation ELSE obligations[v]]
  /\ UNCHANGED <<market, reserves, balances, slot>>

Deposit(u, r, amount) ==
  LET minted == liquidity_to_collateral(Current(r), amount)
  IN  /\ Open
      /\ is_active(reserves[r])
      /\ Accrues(r)
      /\ CanDepositLiquidity(Current(r), amount)
      /\ liquidity_vault[r] + amount <= MAX_U64
      /\ CTokenSupply(r) + minted <= MAX_U64
      /\ reserves' = [reserves EXCEPT ![r] = deposit_liquidity(Current(r), amount)]
      /\ liquidity_vault' = [liquidity_vault EXCEPT ![r] = @ + amount]
      /\ ctokens' = [ctokens EXCEPT ![u][r] = @ + minted]
      /\ UNCHANGED <<market, obligations, collateral_vault, slot>>

Withdraw(u, r, amount) ==
  LET paid == collateral_to_liquidity(Current(r), amount)
  IN  /\ Open
      /\ is_active(reserves[r])
      /\ Accrues(r)
      /\ CanRedeemCollateral(Current(r), amount)
      /\ amount <= ctokens[u][r]
      /\ paid <= liquidity_vault[r]
      /\ reserves' = [reserves EXCEPT ![r] = redeem_collateral(Current(r), amount)]
      /\ liquidity_vault' = [liquidity_vault EXCEPT ![r] = @ - paid]
      /\ ctokens' = [ctokens EXCEPT ![u][r] = @ - amount]
      /\ UNCHANGED <<market, obligations, collateral_vault, slot>>

DepositCollateral(u, r, amount) ==
  /\ Open
  /\ is_active(reserves[r])
  /\ CanDeposit(obligations[u], r, amount)
  /\ amount <= ctokens[u][r]
  /\ obligations' = [obligations EXCEPT ![u] = deposit(@, r, amount)]
  /\ ctokens' = [ctokens EXCEPT ![u][r] = @ - amount]
  /\ collateral_vault' = [collateral_vault EXCEPT ![r] = @ + amount]
  /\ UNCHANGED <<market, reserves, liquidity_vault, slot>>

\* Neither the reserve's status nor its price is looked at.
WithdrawCollateral(u, r, amount) ==
  /\ Open
  /\ CanReleaseCollateral(obligations[u], r, amount, slot)
  /\ amount <= collateral_vault[r]
  /\ obligations' = [obligations EXCEPT ![u] = release_collateral(@, r, amount)]
  /\ collateral_vault' = [collateral_vault EXCEPT ![r] = @ - amount]
  /\ ctokens' = [ctokens EXCEPT ![u][r] = @ + amount]
  /\ UNCHANGED <<market, reserves, liquidity_vault, slot>>

\* Mutant of Lend: the accrual is done on a copy of the reserve.
LendFromStored(u, r, amount) ==
  /\ is_active(reserves[r])
  /\ Accrues(r)
  /\ CanBorrow(Current(r), amount)
  /\ CanBorrowAgainst(obligations[u], r, amount, Current(r))
  /\ amount <= liquidity_vault[r]
  /\ reserves' = [reserves EXCEPT ![r] = borrow(@, amount)]
  /\ obligations' = [obligations EXCEPT ![u] = borrow_against(@, r, amount, Current(r))]
  /\ liquidity_vault' = [liquidity_vault EXCEPT ![r] = @ - amount]
  /\ UNCHANGED <<market, collateral_vault, ctokens, slot>>

\* What borrow and private_borrow have in common.
Lend(u, r, amount) ==
  /\ is_active(reserves[r])
  /\ Accrues(r)
  /\ CanBorrow(Current(r), amount)
  /\ CanBorrowAgainst(obligations[u], r, amount, Current(r))
  /\ amount <= liquidity_vault[r]
  /\ reserves' = [reserves EXCEPT ![r] = borrow(Current(r), amount)]
  /\ obligations' = [obligations EXCEPT ![u] = borrow_against(@, r, amount, Current(r))]
  /\ liquidity_vault' = [liquidity_vault EXCEPT ![r] = @ - amount]
  /\ UNCHANGED <<market, collateral_vault, ctokens, slot>>

Borrow(u, r, amount) ==
  /\ Open
  /\ reserves[r].market_price_sf > 0
  /\ ~is_slot_stale(obligations[u], slot)
  /\ Lend(u, r, amount)

\* Also while the market is paused.
Repay(u, r, amount) ==
  /\ MarketResolves
  /\ is_active(reserves[r])
  /\ Accrues(r)
  /\ CanRepay(Current(r), amount)
  /\ CanRepayDebt(obligations[u], r, amount, Current(r))
  /\ liquidity_vault[r] + amount <= MAX_U64
  /\ reserves' = [reserves EXCEPT ![r] = repay(Current(r), amount)]
  /\ obligations' = [obligations EXCEPT ![u] = repay_debt(@, r, amount, Current(r))]
  /\ liquidity_vault' = [liquidity_vault EXCEPT ![r] = @ + amount]
  /\ UNCHANGED <<market, collateral_vault, ctokens, slot>>

\* m.publish_time is how long before now the message was published.
RefreshReserve(r, m) ==
  LET message == [m EXCEPT !.publish_time = now - @]
  IN  /\ MarketResolves
      /\ reserves[r].config.pyth_oracle
      /\ Accrues(r)
      /\ CanGetPythPrice(message, now)
      /\ reserves' = [reserves EXCEPT ![r] =
           [Current(r) EXCEPT !.market_price_sf = pyth_price_sf(message),
                              !.price_last_updated_ts = message.publish_time]]
      /\ UNCHANGED <<market, obligations, balances, slot>>

\* Anyone may; the reserves are read as they are stored, without an accrual.
RefreshObligation(u) ==
  /\ CanRefreshObligation(obligations[u], reserves)
  /\ obligations' = [obligations EXCEPT ![u] = refresh_obligation(@, reserves, slot)]
  /\ UNCHANGED <<market, reserves, balances, slot>>

\* What liquidate and execute_private_liquidation have in common.  The two
\* reserves may be one; it then accrues once and is repaid.
Seize(liquidator, u, rr, wr, repay_amount) ==
  LET amount  == ActualRepay(obligations[u], rr, Current(rr), repay_amount)
      seized  == Seized(obligations[u], wr, amount, Current(rr), Current(wr))
      accrued == [reserves EXCEPT ![wr] = Current(wr)]
  IN  /\ is_active(reserves[rr])
      /\ is_active(reserves[wr])
      /\ Accrues(rr)
      /\ Accrues(wr)
      /\ CanSeize(obligations[u], rr, wr, repay_amount, Current(rr), Current(wr), slot)
      /\ CanRepay(Current(rr), amount)
      /\ liquidity_vault[rr] + amount <= MAX_U64
      /\ seized <= collateral_vault[wr]
      /\ reserves' = [accrued EXCEPT ![rr] = repay(Current(rr), amount)]
      /\ obligations' = [obligations EXCEPT ![u] =
                           liquidated(@, rr, wr, amount, seized, Current(rr))]
      /\ liquidity_vault' = [liquidity_vault EXCEPT ![rr] = @ + amount]
      /\ collateral_vault' = [collateral_vault EXCEPT ![wr] = @ - seized]
      /\ ctokens' = [ctokens EXCEPT ![liquidator][wr] = @ + seized]
      /\ UNCHANGED <<market, slot>>

Liquidate(liquidator, u, rr, wr, repay_amount) ==
  /\ Open
  /\ ~is_healthy(obligations[u])
  /\ Seize(liquidator, u, rr, wr, repay_amount)

\* The owner's instructions: the address is derived from the signer's key.
SetPause(paused) ==
  /\ MarketResolves
  /\ market' = [market EXCEPT !.emergency_pause = paused]
  /\ UNCHANGED <<reserves, obligations, balances, slot>>

UpdateMarketAuthority(new_authority) ==
  /\ MarketResolves
  /\ market' = [market EXCEPT !.owner = new_authority]
  /\ UNCHANGED <<reserves, obligations, balances, slot>>

\* Mutant of UpdateReserveConfig: whatever the owner sends is stored.
StoreAnyConfig(r, c) ==
  /\ MarketResolves
  /\ reserves' = [reserves EXCEPT ![r].config = c]
  /\ UNCHANGED <<market, obligations, balances, slot>>

UpdateReserveConfig(r, c) ==
  /\ MarketResolves
  /\ validate(c)
  /\ reserves' = [reserves EXCEPT ![r].config = c]
  /\ UNCHANGED <<market, obligations, balances, slot>>

Tick ==
  /\ slot < MaxSlot
  /\ slot' = slot + 1
  /\ UNCHANGED <<accounts, balances>>

\* Steps that need an account are taken only where there is one.
Listed   == DOMAIN reserves
Enrolled == DOMAIN obligations

UserStep(u) ==
  \/ InitObligation(u)
  \/ \E r \in Listed, a \in Amounts : Deposit(u, r, a) \/ Withdraw(u, r, a)
  \/ \E v \in Enrolled, rr, wr \in Listed, a \in Amounts : Liquidate(u, v, rr, wr, a)

ObligationStep(u) ==
  \/ RefreshObligation(u)
  \/ \E r \in Listed, a \in Amounts :
       \/ DepositCollateral(u, r, a)
       \/ WithdrawCollateral(u, r, a)
       \/ Borrow(u, r, a)
       \/ Repay(u, r, a)

OwnerStep ==
  \/ \E r \in Reserves, c \in Configs : AddReserve(r, c)
  \/ \E paused \in BOOLEAN : SetPause(paused)
  \/ \E key \in Authorities : UpdateMarketAuthority(key)
  \/ \E r \in Listed, c \in Configs : UpdateReserveConfig(r, c)

Next ==
  \/ \E u \in Users : UserStep(u)
  \/ \E u \in Enrolled : ObligationStep(u)
  \/ OwnerStep
  \/ \E r \in Listed, m \in Messages : RefreshReserve(r, m)
  \/ Tick

Spec == Init /\ [][Next]_vars

-------------------------------------------------------------------------------
TypeOK ==
  /\ market \in [owner : Authorities, emergency_pause : BOOLEAN]
  /\ Listed \subseteq Reserves /\ reserves \in [Listed -> ReserveType]
  /\ \A r \in Listed : validate(reserves[r].config)
  /\ Enrolled \subseteq Users /\ obligations \in [Enrolled -> ObligationType]
  /\ liquidity_vault \in [Reserves -> U64]
  /\ collateral_vault \in [Reserves -> U64]
  /\ ctokens \in [Users -> [Reserves -> U64]]
  /\ slot \in 1 .. MaxSlot

\* The cTokens in a reserve's collateral vault are those its borrowers locked,
\* and each of them is on exactly one obligation: no sequence of locking,
\* releasing and seizing loses one or hands one out twice.
CollateralInCustody ==
  \A r \in Reserves :
    collateral_vault[r] = SumOver([u \in Enrolled |-> CollateralIn(obligations[u], r)], Enrolled)

\* No instruction moves tokens without the books or books without the tokens:
\* a vault holds what its reserve calls available, and the cTokens there are,
\* held or locked, are those the reserve has issued.
VaultsMatchBooks ==
  \A r \in Reserves :
    IF r \in Listed
    THEN /\ liquidity_vault[r] = reserves[r].available_amount
         /\ CTokenSupply(r) = reserves[r].mint_total_supply
    ELSE /\ liquidity_vault[r] = 0
         /\ CTokenSupply(r) = 0

\* No obligation's snapshot is ahead of its reserve's index, so no debt ever
\* gets into the state that accrue_interest refuses (BorrowRateDecreased) and
\* that could be neither repaid nor liquidated.
SnapshotsBehind ==
  \A u \in Enrolled : \A i \in Active(obligations[u].borrows) :
    LET b == obligations[u].borrows[i]
    IN  b.cumulative_borrow_rate_sf
          \in RATE_SCALE .. reserves[b.reserve].cumulative_borrow_rate_sf

\* What a user holds in cTokens of r, in the own account or locked.
Held(u, r) ==
  ctokens[u][r] + (IF u \in Enrolled THEN CollateralIn(obligations[u], r) ELSE 0)

\* The debt of u in rr at the index the reserve ends up with.
DueIn(u, rr, rate) ==
  AccruedDebt(obligations[u].borrows[find(obligations[u].borrows, rr)], rate).borrowed_amount_sf

\* Nobody's cTokens, held or locked, ever become fewer unless liquidity is paid
\* out for them or at least one whole token of their owner's debt is repaid,
\* whoever sends the instruction and whichever reserves it names.
NothingTakenUnpaid ==
  [][\A u \in Users, r \in Reserves :
       Held(u, r)' < Held(u, r) =>
         \/ liquidity_vault'[r] < liquidity_vault[r]
         \/ \E rr \in Listed :
              /\ CanFind(obligations[u].borrows, rr)
              /\ DebtIn(obligations'[u], rr) + RATE_SCALE
                   <= DueIn(u, rr, reserves'[rr].cumulative_borrow_rate_sf)]_vars

\* A step that takes collateral and debt off an obligation is a liquidation.  With
\* interest up to this very slot, also when no refresh has counted it yet, it
\* leaves at least half of the debt, and seizes no more than the worth of what it
\* repays and the bonus, at the exchange rate before its own repayment.
LiquidationsBounded ==
  [][\A u \in Enrolled, rr, wr \in Listed :
       /\ CollateralIn(obligations'[u], wr) < CollateralIn(obligations[u], wr)
       /\ CanFind(obligations[u].borrows, rr)
       /\ DebtIn(obligations'[u], rr) # DebtIn(obligations[u], rr)
       => LET due    == DueIn(u, rr, Current(rr).cumulative_borrow_rate_sf)
              repaid == due - DebtIn(obligations'[u], rr)
              seized == CollateralIn(obligations[u], wr) - CollateralIn(obligations'[u], wr)
          IN  /\ 2 * repaid <= due
              /\ seized * RateLiquidity(Current(wr)) * Current(wr).market_price_sf
                   * BPS_SCALER * RATE_SCALE
                 <= repaid * Current(rr).market_price_sf
                      * (BPS_SCALER + Current(wr).config.liquidation_bonus_pct)
                      * RateSupply(Current(wr))]_vars

\* ARCHITECTURE.md's permission matrix: a paused market pays nothing out and
\* issues nothing, lists no reserve, nobody's collateral moves and no slot of
\* debt is opened.
FrozenWhilePaused ==
  [][market.emergency_pause =>
       /\ Listed' = Listed
       /\ \A r \in Listed :
            /\ liquidity_vault'[r] >= liquidity_vault[r]
            /\ reserves'[r].mint_total_supply = reserves[r].mint_total_supply
       /\ collateral_vault' = collateral_vault
       /\ ctokens' = ctokens
       /\ \A u \in Enrolled :
            obligations'[u].borrows_count <= obligations[u].borrows_count]_vars

\* New debt and released collateral only on values that a refresh of this very
\* slot wrote, whoever else acted on the reserves in between.
RiskOnlyAfterRefresh ==
  [][\A u \in Enrolled, r \in Reserves :
       \/ /\ liquidity_vault'[r] < liquidity_vault[r]
          /\ obligations'[u] # obligations[u]
       \/ CollateralIn(obligations'[u], r) < CollateralIn(obligations[u], r)
       => obligations[u].slot = slot]_vars

\* Each reserve of the market is a Reserve from the moment it is listed,
\* whatever the handlers pass it.
OneReserve(r) ==
  INSTANCE Reserve WITH
    reserve         <- reserves[r],
    liquidity_vault <- liquidity_vault[r],
    ctoken_supply   <- CTokenSupply(r),
    Amounts         <- {a \in U64 \ {0} : \E b \in Amounts : a <= b},
    Prices          <- {pyth_price_sf(m) : m \in Messages} \cap U128,
    Timestamps      <- {s * SlotSeconds - m.publish_time : s \in 1 .. MaxSlot, m \in Messages},
    MaxOutside      <- 0
ImplementsReserves ==
  /\ Listed = {}
  /\ [][/\ \A r \in Listed : UNCHANGED OneReserve(r)!vars \/ OneReserve(r)!Next
        /\ \A r \in Listed' \ Listed : OneReserve(r)!Init']_vars

-------------------------------------------------------------------------------
(***************************************************************************)
(* What documents and comments of the program say, and it does not keep.   *)
(***************************************************************************)

\* LLD.md accrues "Debt accrual on Reserve" and "Debt catch-up on Obligation"
\* at one rate, so that what a borrower owes, the reserve has lent.
DebtsOnTheBooks ==
  \A r \in Listed :
    SumOver([u \in Enrolled |-> DebtIn(obligations[u], r) \div RATE_SCALE], Enrolled)
      <= reserves[r].borrowed_amount_sf
===============================================================================
