----------------------------- MODULE LendingProofs -----------------------------

(***************************************************************************)
(* Proofs about Lending, for every finite set of users, set of reserves,   *)
(* set of amounts, messages and configurations, scale and integer width.   *)
(***************************************************************************)
EXTENDS Lending, ObligationLemmas

(***************************************************************************)
(* A reserve on its way through the handlers.                              *)
(***************************************************************************)

\* A reserve the handlers can rely on.
SoundReserve(q) ==
  /\ q \in ReserveType
  /\ Backed(q)
  /\ validate(q.config)
  /\ q.cumulative_borrow_rate_sf >= RATE_SCALE

\* p is what may become of q.
Later(q, p) ==
  /\ SoundReserve(p)
  /\ p.cumulative_borrow_rate_sf >= q.cumulative_borrow_rate_sf

\* The facts about a sound reserve that arithmetic needs.
LEMMA Fields ==
  ASSUME NEW q, SoundReserve(q)
  PROVE  /\ q \in ReserveType /\ Backed(q) /\ validate(q.config)
         /\ q.cumulative_borrow_rate_sf \in Nat /\ q.cumulative_borrow_rate_sf >= RATE_SCALE
         /\ q.cumulative_borrow_rate_sf \in U128
         /\ q.available_amount \in U64 /\ q.mint_total_supply \in U64
         /\ q.available_amount \in Nat /\ q.mint_total_supply \in Nat
         /\ q.config.protocol_fee <= MAX_PROTOCOL_FEE_BPS
         /\ q.market_price_sf \in U128
  <1>1. q \in ReserveType
    BY DEF SoundReserve
  <1> QED BY <1>1, ReserveFields DEF SoundReserve, validate, ReserveType

\* What add_reserve lists is sound, and its books are empty.
LEMMA ListedNew ==
  ASSUME NEW c \in ConfigType, validate(c), NEW s \in U64
  PROVE  /\ SoundReserve(NewReserve(c, s))
         /\ NewReserve(c, s).available_amount = 0
         /\ NewReserve(c, s).mint_total_supply = 0
  <1>1. 0 \in U64 /\ 0 \in U128 /\ RATE_SCALE \in U128
    BY ScaleAssumption, WidthAssumption DEF U64, U128
  <1>2. NewReserve(c, s) \in ReserveType
    BY <1>1 DEF NewReserve, ReserveType
  <1>3. /\ NewReserve(c, s).config = c
        /\ NewReserve(c, s).available_amount = 0 /\ NewReserve(c, s).borrowed_amount_sf = 0
        /\ NewReserve(c, s).accumulated_protocol_fees = 0
        /\ NewReserve(c, s).mint_total_supply = 0
        /\ NewReserve(c, s).cumulative_borrow_rate_sf = RATE_SCALE
    BY DEF NewReserve
  <1>4. Backed(NewReserve(c, s))
    BY <1>3 DEF Backed, total_supply
  <1> QED BY <1>2, <1>3, <1>4, ScaleAssumption DEF SoundReserve

\* The accrual that opens most handlers.
LEMMA LaterAccrued ==
  ASSUME NEW q, SoundReserve(q), NEW s \in U64, CanAccrue(q, s),
         NEW c, c = accrue_interest(q, s)
  PROVE  /\ Later(q, c)
         /\ c.available_amount = q.available_amount
         /\ c.mint_total_supply = q.mint_total_supply
         /\ c.config = q.config
         /\ c.market_price_sf = q.market_price_sf
  <1>1. Grows(q, c) /\ c.market_price_sf = q.market_price_sf
    BY Fields, AccrueGrows
  <1>2. Fair(q, c)
    BY <1>1, Fields, FairAccrual
  <1>3. c.cumulative_borrow_rate_sf \in Nat
    BY <1>1, ReserveFields DEF Grows
  <1> QED BY <1>1, <1>2, <1>3, Fields, ScaleAssumption DEF Grows, Fair, Later, SoundReserve

\* Whatever keeps the books' record keeps the order.
LEMMA LaterKept ==
  ASSUME NEW q, NEW c, Later(q, c), NEW p, Keeps(c, p), Backed(p)
  PROVE  Later(q, p)
  BY DEF Later, SoundReserve, Keeps

\* A deposit puts the amount on the books and issues the cTokens minted.
LEMMA LaterDeposited ==
  ASSUME NEW q, NEW c, Later(q, c), NEW a \in Nat \ {0},
         CanDepositLiquidity(c, a), NEW p, p = deposit_liquidity(c, a)
  PROVE  /\ Later(q, p)
         /\ liquidity_to_collateral(c, a) \in Nat
         /\ p.available_amount = c.available_amount + a
         /\ p.mint_total_supply = c.mint_total_supply + liquidity_to_collateral(c, a)
  <1>1. SoundReserve(c) /\ c \in ReserveType /\ Backed(c) /\ CanTotalSupply(c)
    BY DEF Later, SoundReserve, CanDepositLiquidity
  <1>2. Fair(c, p)
    BY <1>1, GrowsReflexive, FairDeposit
  <1>3. /\ Keeps(c, p)
        /\ p.available_amount = c.available_amount + a
        /\ p.mint_total_supply = c.mint_total_supply + liquidity_to_collateral(c, a)
    BY <1>1, DepositFacts
  <1>4. liquidity_to_collateral(c, a) \in Nat
    BY <1>1, MintRoundsDown, Widths
  <1> QED BY <1>2, <1>3, <1>4, LaterKept DEF Fair

\* A redemption takes what it pays off the books, and the cTokens burned.
LEMMA LaterRedeemed ==
  ASSUME NEW q, NEW c, Later(q, c), NEW a \in Nat \ {0},
         CanRedeemCollateral(c, a), NEW p, p = redeem_collateral(c, a)
  PROVE  /\ Later(q, p)
         /\ collateral_to_liquidity(c, a) \in Nat
         /\ p.available_amount = c.available_amount - collateral_to_liquidity(c, a)
         /\ p.mint_total_supply = c.mint_total_supply - a
  <1>1. SoundReserve(c) /\ c \in ReserveType /\ Backed(c)
    BY DEF Later, SoundReserve
  <1>2. Fair(c, p)
    BY <1>1, GrowsReflexive, FairRedeem
  <1>3. /\ Keeps(c, p)
        /\ p.available_amount = c.available_amount - collateral_to_liquidity(c, a)
        /\ p.mint_total_supply = c.mint_total_supply - a
    BY <1>1, RedeemFacts
  <1>4. collateral_to_liquidity(c, a) \in Nat
    BY <1>1, RedeemRoundsDown, Widths
  <1> QED BY <1>2, <1>3, <1>4, LaterKept DEF Fair

\* A loan takes the amount off the books and touches no cToken.
LEMMA LaterLent ==
  ASSUME NEW q, NEW c, Later(q, c), NEW a \in Nat, CanBorrow(c, a), NEW p, p = borrow(c, a)
  PROVE  /\ Later(q, p)
         /\ p.available_amount = c.available_amount - a
         /\ p.mint_total_supply = c.mint_total_supply
         /\ p.cumulative_borrow_rate_sf = c.cumulative_borrow_rate_sf
  <1>1. c \in ReserveType /\ Backed(c)
    BY DEF Later, SoundReserve
  <1>2. /\ Keeps(c, p)
        /\ p.available_amount = c.available_amount - a
        /\ p.mint_total_supply = c.mint_total_supply
        /\ total_supply(p) = total_supply(c)
    BY <1>1, BorrowFacts
  <1> QED BY <1>1, <1>2, LaterKept DEF Backed, Keeps

\* A repayment puts the amount back and touches no cToken.
LEMMA LaterRepaid ==
  ASSUME NEW q, NEW c, Later(q, c), NEW a \in Nat, CanRepay(c, a), NEW p, p = repay(c, a)
  PROVE  /\ Later(q, p)
         /\ p.available_amount = c.available_amount + a
         /\ p.mint_total_supply = c.mint_total_supply
         /\ p.cumulative_borrow_rate_sf = c.cumulative_borrow_rate_sf
  <1>1. c \in ReserveType /\ Backed(c)
    BY DEF Later, SoundReserve
  <1>2. /\ Keeps(c, p)
        /\ p.available_amount = c.available_amount + a
        /\ p.mint_total_supply = c.mint_total_supply
        /\ total_supply(p) = total_supply(c)
    BY <1>1, RepayFacts
  <1> QED BY <1>1, <1>2, LaterKept DEF Backed, Keeps

Priced(c, price, ts) == [c EXCEPT !.market_price_sf = price, !.price_last_updated_ts = ts]

\* refresh_reserve's write of the price is none of the books' business.
LEMMA LaterPriced ==
  ASSUME NEW q, NEW c, Later(q, c), NEW price \in U128, NEW ts \in Int,
         NEW p, p = Priced(c, price, ts)
  PROVE  /\ Later(q, p)
         /\ p.available_amount = c.available_amount
         /\ p.mint_total_supply = c.mint_total_supply
  <1>1. c \in ReserveType /\ Backed(c)
    BY DEF Later, SoundReserve
  <1>2. /\ Keeps(c, p)
        /\ p.available_amount = c.available_amount
        /\ p.mint_total_supply = c.mint_total_supply
        /\ p.borrowed_amount_sf = c.borrowed_amount_sf
    BY <1>1 DEF ReserveType, Keeps, Priced
  <1>3. total_supply(p) = total_supply(c)
    BY <1>2 DEF total_supply, Keeps
  <1> QED BY <1>1, <1>2, <1>3, LaterKept DEF Backed

\* update_reserve_config swaps one valid configuration for another.
LEMMA LaterConfigured ==
  ASSUME NEW q, SoundReserve(q), NEW k \in ConfigType, validate(k),
         NEW p, p = [q EXCEPT !.config = k]
  PROVE  /\ Later(q, p)
         /\ p.available_amount = q.available_amount
         /\ p.mint_total_supply = q.mint_total_supply
  <1>1. q \in ReserveType /\ Backed(q) /\ q.cumulative_borrow_rate_sf \in Nat
    BY Fields
  <1>2. /\ p \in ReserveType /\ p.config = k
        /\ p.available_amount = q.available_amount
        /\ p.mint_total_supply = q.mint_total_supply
        /\ p.borrowed_amount_sf = q.borrowed_amount_sf
        /\ p.accumulated_protocol_fees = q.accumulated_protocol_fees
        /\ p.cumulative_borrow_rate_sf = q.cumulative_borrow_rate_sf
    BY <1>1 DEF ReserveType
  <1>3. Backed(p)
    BY <1>1, <1>2 DEF Backed, total_supply
  <1> QED BY <1>1, <1>2, <1>3, Fields DEF Later, SoundReserve

\* A reserve may stay as it is.
LEMMA LaterReflexive ==
  ASSUME NEW q, SoundReserve(q)
  PROVE  Later(q, q)
  BY Fields DEF Later

ReservesSound    == \A r \in Listed : SoundReserve(reserves[r])
ObligationsSound == \A u \in Enrolled : Sound(obligations[u], reserves)

\* Collateral is locked only in reserves there are.
LockedOnlyInListed ==
  \A u \in Enrolled, r \in Reserves \ Listed : CollateralIn(obligations[u], r) = 0

Inv ==
  /\ TypeOK
  /\ ReservesSound
  /\ ObligationsSound
  /\ LockedOnlyInListed
  /\ CollateralInCustody
  /\ VaultsMatchBooks

\* What an instruction may do to the reserves, and to the obligations.
ReservesStep ==
  /\ Listed \subseteq Listed' /\ Listed' \subseteq Reserves
  /\ reserves' \in [Listed' -> ReserveType]
  /\ \A r \in Listed' : SoundReserve(reserves'[r])
  /\ \A r \in Listed : Later(reserves[r], reserves'[r])

ObligationsStep ==
  /\ Enrolled \subseteq Enrolled' /\ Enrolled' \subseteq Users
  /\ obligations' \in [Enrolled' -> ObligationType]
  /\ \A u \in Enrolled' : Sound(obligations'[u], reserves')

BalancesStep ==
  /\ liquidity_vault' \in [Reserves -> Nat]
  /\ collateral_vault' \in [Reserves -> Nat]
  /\ ctokens' \in [Users -> [Reserves -> Nat]]

\* The invariant as the proofs of the instructions use it.
LEMMA InvFacts ==
  ASSUME Inv
  PROVE  /\ market \in [owner : Authorities, emergency_pause : BOOLEAN]
         /\ Listed \subseteq Reserves /\ reserves \in [Listed -> ReserveType]
         /\ Enrolled \subseteq Users /\ obligations \in [Enrolled -> ObligationType]
         /\ liquidity_vault \in [Reserves -> Nat]
         /\ collateral_vault \in [Reserves -> Nat]
         /\ ctokens \in [Users -> [Reserves -> Nat]]
         /\ slot \in 1 .. MaxSlot /\ slot \in U64
         /\ \A r \in Listed : SoundReserve(reserves[r])
         /\ \A u \in Enrolled : Sound(obligations[u], reserves)
         /\ IsFiniteSet(Users) /\ IsFiniteSet(Enrolled)
         /\ MAX_U64 \in Nat
  <1>1. TypeOK /\ ReservesSound /\ ObligationsSound
    BY DEF Inv
  <1>2. IsFiniteSet(Users) /\ IsFiniteSet(Enrolled)
    BY <1>1, LendingAssumption, FS_Subset DEF TypeOK
  <1>3. slot \in 1 .. MaxSlot /\ slot \in U64
    BY <1>1, LendingAssumption, WidthAssumption DEF TypeOK, U64
  <1>4. /\ liquidity_vault \in [Reserves -> Nat]
        /\ collateral_vault \in [Reserves -> Nat]
        /\ ctokens \in [Users -> [Reserves -> Nat]]
    BY <1>1, Widths DEF TypeOK
  <1> QED BY <1>1, <1>2, <1>3, <1>4, WidthAssumption DEF TypeOK, ReservesSound, ObligationsSound

\* The sum the market is stated with is the sum the lemmas are about.
LEMMA SumIsTotal ==
  ASSUME NEW f, NEW S
  PROVE  SumOver(f, S) = Total(f, S)
  BY DEF SumOver, Total

\* A supply is a natural that no balance in it exceeds.
LEMMA SupplyBounds ==
  ASSUME NEW cv \in [Reserves -> Nat], NEW ct \in [Users -> [Reserves -> Nat]],
         NEW r \in Reserves, NEW supply,
         supply = cv[r] + Total([u \in Users |-> ct[u][r]], Users)
  PROVE  /\ supply \in Nat /\ cv[r] <= supply
         /\ \A u \in Users : ct[u][r] + cv[r] <= supply
  <1> DEFINE f == [u \in Users |-> ct[u][r]]
  <1>1. IsFiniteSet(Users) /\ cv[r] \in Nat /\ \A u \in Users : f[u] \in Nat
    BY LendingAssumption
  <1>2. supply = cv[r] + Total(f, Users)
    OBVIOUS
  <1> HIDE DEF f
  <1>3. Total(f, Users) \in Nat
    BY <1>1, TotalBound
  <1>4. ASSUME NEW u \in Users
        PROVE  f[u] <= Total(f, Users)
    BY <1>1, TotalMember
  <1> QED BY <1>1, <1>2, <1>3, <1>4 DEF f

\* One user's account and one vault change: the supply changes by both changes.
LEMMA SupplyMoves ==
  ASSUME Inv, NEW u \in Users, NEW r \in Reserves, NEW x \in Nat, NEW y \in Nat,
         ctokens' = [ctokens EXCEPT ![u][r] = x],
         collateral_vault' = [collateral_vault EXCEPT ![r] = y]
  PROVE  /\ ctokens' \in [Users -> [Reserves -> Nat]]
         /\ collateral_vault' \in [Reserves -> Nat]
         /\ CTokenSupply(r)' = CTokenSupply(r) - ctokens[u][r] + x - collateral_vault[r] + y
         /\ \A q \in Reserves : q # r => CTokenSupply(q)' = CTokenSupply(q)
  <1>1. /\ ctokens \in [Users -> [Reserves -> Nat]] /\ collateral_vault \in [Reserves -> Nat]
        /\ IsFiniteSet(Users)
    BY InvFacts
  <1>2. ctokens' \in [Users -> [Reserves -> Nat]] /\ collateral_vault' \in [Reserves -> Nat]
    BY <1>1
  <1>3. ASSUME NEW q \in Reserves
        PROVE  CTokenSupply(q)' =
                 collateral_vault'[q] + Total([v \in Users |-> ctokens'[v][q]], Users)
    BY SumIsTotal DEF CTokenSupply
  <1>4. ASSUME NEW q \in Reserves
        PROVE  CTokenSupply(q) = collateral_vault[q] + Total([v \in Users |-> ctokens[v][q]], Users)
    BY SumIsTotal DEF CTokenSupply
  <1>5. ASSUME NEW q \in Reserves, q # r
        PROVE  CTokenSupply(q)' = CTokenSupply(q)
    <2>1. [v \in Users |-> ctokens'[v][q]] = [v \in Users |-> ctokens[v][q]]
      BY <1>1, <1>5
    <2>2. collateral_vault'[q] = collateral_vault[q]
      BY <1>1, <1>5
    <2> QED BY <1>3, <1>4, <2>1, <2>2
  <1>6. CTokenSupply(r)' = CTokenSupply(r) - ctokens[u][r] + x - collateral_vault[r] + y
    <2> DEFINE f == [v \in Users |-> ctokens[v][r]]
    <2> DEFINE h == [v \in Users |-> ctokens'[v][r]]
    <2>1. /\ \A v \in Users : f[v] \in Nat /\ h[v] \in Nat
          /\ \A v \in Users \ {u} : h[v] = f[v]
          /\ f[u] = ctokens[u][r] /\ h[u] = x
      BY <1>1, <1>2
    <2>2. /\ CTokenSupply(r)' = y + Total(h, Users)
          /\ CTokenSupply(r) = collateral_vault[r] + Total(f, Users)
      BY <1>1, <1>3, <1>4
    <2> HIDE DEF f, h
    <2>3. Total(h, Users) = Total(f, Users) - f[u] + h[u]
      BY <1>1, <2>1, TotalChange
    <2>4. Total(f, Users) \in Nat
      BY <1>1, <2>1, TotalBound
    <2> QED BY <1>1, <2>1, <2>2, <2>3, <2>4
  <1> QED BY <1>2, <1>5, <1>6

\* No cToken account changes: neither does any supply.
LEMMA SupplySame ==
  ASSUME NEW r, UNCHANGED <<collateral_vault, ctokens>>
  PROVE  CTokenSupply(r)' = CTokenSupply(r)
  <1>1. CTokenSupply(r)' =
          collateral_vault'[r] + Total([u \in Users |-> ctokens'[u][r]], Users)
    BY SumIsTotal DEF CTokenSupply
  <1> QED BY <1>1, SumIsTotal DEF CTokenSupply

\* What an obligation has locked in a reserve is a natural.
LEMMA CollateralNatural ==
  ASSUME NEW o, NEW rs, Sound(o, rs), NEW r \in Reserves
  PROVE  CollateralIn(o, r) \in Nat
  <1>1. CASE CanFind(o.deposits, r)
    BY <1>1, FoundDeposit
  <1>2. CASE ~CanFind(o.deposits, r)
    BY <1>2 DEF CollateralIn
  <1> QED BY <1>1, <1>2

\* One obligation and the vaults change alike: the vaults still hold what is locked.
LEMMA CustodyMoves ==
  ASSUME Inv, NEW u \in Enrolled, NEW p, obligations' = [obligations EXCEPT ![u] = p],
         \A q \in Reserves :
           /\ CollateralIn(p, q) \in Nat
           /\ collateral_vault'[q]
                = collateral_vault[q] - CollateralIn(obligations[u], q) + CollateralIn(p, q)
  PROVE  CollateralInCustody'
  <1>1. /\ obligations \in [Enrolled -> ObligationType] /\ IsFiniteSet(Enrolled)
        /\ \A v \in Enrolled, q \in Reserves : CollateralIn(obligations[v], q) \in Nat
    BY InvFacts, CollateralNatural
  <1>2. /\ Enrolled' = Enrolled /\ obligations'[u] = p
        /\ \A v \in Enrolled \ {u} : obligations'[v] = obligations[v]
    BY <1>1 DEF Enrolled
  <1> SUFFICES ASSUME NEW r \in Reserves
               PROVE  collateral_vault'[r] =
                        SumOver([v \in Enrolled |-> CollateralIn(obligations'[v], r)], Enrolled)
    BY <1>2 DEF CollateralInCustody
  <1> DEFINE f == [v \in Enrolled |-> CollateralIn(obligations[v], r)]
  <1> DEFINE h == [v \in Enrolled |-> CollateralIn(obligations'[v], r)]
  <1>3. /\ \A v \in Enrolled : f[v] \in Nat /\ h[v] \in Nat
        /\ \A v \in Enrolled \ {u} : h[v] = f[v]
        /\ f[u] = CollateralIn(obligations[u], r) /\ h[u] = CollateralIn(p, r)
    BY <1>1, <1>2
  <1>4. collateral_vault[r] = Total(f, Enrolled)
    BY SumIsTotal DEF Inv, CollateralInCustody
  <1> HIDE DEF f, h
  <1>5. Total(h, Enrolled) = Total(f, Enrolled) - f[u] + h[u]
    BY <1>1, <1>3, TotalChange
  <1>6. Total(f, Enrolled) \in Nat
    BY <1>1, <1>3, TotalBound
  <1>7. collateral_vault'[r] = Total(h, Enrolled)
    BY <1>3, <1>4, <1>5, <1>6
  <1> QED BY <1>7, SumIsTotal DEF h

\* No obligation and no vault changes.
LEMMA CustodySame ==
  ASSUME Inv, UNCHANGED <<obligations, collateral_vault>>
  PROVE  CollateralInCustody'
  <1> SUFFICES ASSUME NEW r \in Reserves
               PROVE  collateral_vault'[r] =
                        SumOver([v \in Enrolled' |-> CollateralIn(obligations'[v], r)], Enrolled')
    BY DEF CollateralInCustody
  <1> QED BY DEF Inv, CollateralInCustody, Enrolled

\* A new obligation has nothing locked.
LEMMA CustodyOpens ==
  ASSUME Inv, NEW u \in Users \ Enrolled, collateral_vault' = collateral_vault,
         obligations' = [v \in Enrolled \cup {u} |->
                           IF v = u THEN NewObligation ELSE obligations[v]]
  PROVE  CollateralInCustody'
  <1>1. /\ obligations \in [Enrolled -> ObligationType] /\ IsFiniteSet(Enrolled)
        /\ \A v \in Enrolled, q \in Reserves : CollateralIn(obligations[v], q) \in Nat
    BY InvFacts, CollateralNatural
  <1>2. /\ Enrolled' = Enrolled \cup {u} /\ obligations'[u] = NewObligation
        /\ \A v \in Enrolled : obligations'[v] = obligations[v]
        /\ IsFiniteSet(Enrolled') /\ Enrolled' \ {u} = Enrolled /\ u \in Enrolled'
    <2>1. /\ Enrolled' = Enrolled \cup {u} /\ obligations'[u] = NewObligation
          /\ \A v \in Enrolled : obligations'[v] = obligations[v]
      BY DEF Enrolled
    <2>2. Enrolled' \subseteq Users
      BY <2>1, InvFacts
    <2> QED BY <2>1, <2>2, InvFacts, FS_Subset
  <1> SUFFICES ASSUME NEW r \in Reserves
               PROVE  collateral_vault'[r] =
                        SumOver([v \in Enrolled' |-> CollateralIn(obligations'[v], r)], Enrolled')
    BY DEF CollateralInCustody
  <1> DEFINE f == [v \in Enrolled |-> CollateralIn(obligations[v], r)]
  <1> DEFINE h == [v \in Enrolled' |-> CollateralIn(obligations'[v], r)]
  <1>3. CollateralIn(NewObligation, r) = 0
    BY AddressAssumption DEF CollateralIn, CanFind, Holding, NewObligation, EmptyCollateral,
                             FreshCollateral
  <1>4. /\ \A v \in Enrolled : f[v] = h[v]
        /\ \A v \in Enrolled' : h[v] \in Nat
        /\ h[u] = 0
    BY <1>1, <1>2, <1>3
  <1>5. collateral_vault[r] = Total(f, Enrolled)
    BY SumIsTotal DEF Inv, CollateralInCustody
  <1> HIDE DEF f, h
  <1>6. Total(h, Enrolled') = h[u] + Total(h, Enrolled)
    BY <1>2, <1>4, TotalWithout
  <1>7. Total(h, Enrolled) = Total(f, Enrolled)
    BY <1>1, <1>4, TotalSame
  <1>8. Total(h, Enrolled) \in Nat
    BY <1>1, <1>2, <1>4, TotalBound
  <1>9. collateral_vault'[r] = Total(h, Enrolled')
    BY <1>4, <1>5, <1>6, <1>7, <1>8
  <1> QED BY <1>9, SumIsTotal DEF h

(***************************************************************************)
(* What an instruction has to show, and the accounts it leaves alone.      *)
(***************************************************************************)

\* Supplies and books before a step, in the arithmetic of the instructions.
LEMMA SupplyFacts ==
  ASSUME Inv, NEW r \in Reserves
  PROVE  /\ CTokenSupply(r) \in Nat
         /\ collateral_vault[r] <= CTokenSupply(r)
         /\ \A u \in Users : ctokens[u][r] + collateral_vault[r] <= CTokenSupply(r)
         /\ r \in Listed => /\ CTokenSupply(r) = reserves[r].mint_total_supply
                            /\ liquidity_vault[r] = reserves[r].available_amount
         /\ r \notin Listed => CTokenSupply(r) = 0 /\ liquidity_vault[r] = 0
  <1>1. CTokenSupply(r) = collateral_vault[r] + Total([u \in Users |-> ctokens[u][r]], Users)
    BY SumIsTotal DEF CTokenSupply
  <1>2. /\ collateral_vault \in [Reserves -> Nat]
        /\ ctokens \in [Users -> [Reserves -> Nat]]
    BY InvFacts
  <1> QED BY <1>1, <1>2, SupplyBounds DEF Inv, VaultsMatchBooks

\* What an instruction has to show to have kept the invariant.
LEMMA StepInv ==
  ASSUME Inv, market' \in [owner : Authorities, emergency_pause : BOOLEAN],
         slot' \in 1 .. MaxSlot, ReservesStep, ObligationsStep, BalancesStep,
         LockedOnlyInListed', CollateralInCustody', VaultsMatchBooks'
  PROVE  Inv'
  <1>1. ASSUME NEW r \in Reserves
        PROVE  /\ liquidity_vault'[r] \in U64 /\ collateral_vault'[r] \in U64
               /\ \A u \in Users : ctokens'[u][r] \in U64
    <2>1. CTokenSupply(r)' =
            collateral_vault'[r] + Total([u \in Users |-> ctokens'[u][r]], Users)
      BY SumIsTotal DEF CTokenSupply
    <2>2. /\ collateral_vault' \in [Reserves -> Nat]
          /\ ctokens' \in [Users -> [Reserves -> Nat]]
          /\ liquidity_vault' \in [Reserves -> Nat]
      BY DEF BalancesStep
    <2>3. /\ CTokenSupply(r)' \in Nat /\ collateral_vault'[r] <= CTokenSupply(r)'
          /\ \A u \in Users : ctokens'[u][r] + collateral_vault'[r] <= CTokenSupply(r)'
      BY <2>1, <2>2, SupplyBounds
    <2>4. CTokenSupply(r)' \in U64 /\ liquidity_vault'[r] \in U64
      <3>1. CASE r \in Listed'
        <4>1. /\ reserves'[r].available_amount \in U64
              /\ reserves'[r].mint_total_supply \in U64
          BY <3>1, Fields DEF ReservesStep
        <4> QED BY <3>1, <4>1 DEF VaultsMatchBooks
      <3>2. CASE r \notin Listed'
        BY <3>2, WidthAssumption DEF VaultsMatchBooks, U64
      <3> QED BY <3>1, <3>2
    <2>5. CTokenSupply(r)' <= MAX_U64 /\ MAX_U64 \in Nat
      BY <2>4, WidthAssumption DEF U64
    <2>6. collateral_vault'[r] \in Nat /\ \A u \in Users : ctokens'[u][r] \in Nat
      BY <2>2
    <2>7. collateral_vault'[r] \in U64
      BY <2>3, <2>5, <2>6 DEF U64
    <2>8. ASSUME NEW u \in Users
          PROVE  ctokens'[u][r] \in U64
      BY <2>3, <2>5, <2>6 DEF U64
    <2> QED BY <2>4, <2>7, <2>8
  <1>2. /\ liquidity_vault' \in [Reserves -> U64]
        /\ collateral_vault' \in [Reserves -> U64]
        /\ ctokens' \in [Users -> [Reserves -> U64]]
    BY <1>1 DEF BalancesStep
  <1>3. \A r \in Listed' : validate(reserves'[r].config)
    BY Fields DEF ReservesStep
  <1>4. TypeOK'
    BY <1>2, <1>3 DEF TypeOK, ReservesStep, ObligationsStep
  <1>5. ReservesSound' /\ ObligationsSound'
    BY DEF ReservesSound, ObligationsSound, ReservesStep, ObligationsStep
  <1> QED BY <1>4, <1>5 DEF Inv

\* One reserve is written, by what it may become.
LEMMA WriteReserve ==
  ASSUME Inv, NEW r \in Listed, NEW p, Later(reserves[r], p),
         reserves' = [reserves EXCEPT ![r] = p]
  PROVE  /\ ReservesStep /\ Listed' = Listed
         /\ reserves'[r] = p /\ \A q \in Listed : q # r => reserves'[q] = reserves[q]
  <1>1. /\ Listed' = Listed /\ Listed \subseteq Reserves
        /\ reserves'[r] = p /\ \A q \in Listed : q # r => reserves'[q] = reserves[q]
    BY InvFacts DEF Listed
  <1>2. \A q \in Listed : SoundReserve(reserves[q]) /\ Later(reserves[q], reserves[q])
    BY InvFacts, LaterReflexive
  <1>3. SoundReserve(p) /\ p \in ReserveType
    BY DEF Later, SoundReserve
  <1>4. reserves' \in [Listed -> ReserveType]
    BY <1>3, InvFacts
  <1> QED BY <1>1, <1>2, <1>3, <1>4 DEF ReservesStep

\* No reserve is written.
LEMMA SameReserves ==
  ASSUME Inv, reserves' = reserves
  PROVE  ReservesStep /\ Listed' = Listed
  BY InvFacts, LaterReflexive DEF ReservesStep, Listed

\* An obligation stays sound when reserves only move on: their indices never fall.
LEMMA StillSound ==
  ASSUME Inv, ReservesStep, NEW u \in Enrolled
  PROVE  Sound(obligations[u], reserves')
  <1>1. /\ DOMAIN reserves \subseteq DOMAIN reserves'
        /\ \A q \in DOMAIN reserves : /\ SoundReserve(reserves[q])
                                      /\ SoundReserve(reserves'[q])
                                      /\ Later(reserves[q], reserves'[q])
    BY InvFacts DEF ReservesStep, Listed
  <1>2. \A q \in DOMAIN reserves : /\ reserves[q].cumulative_borrow_rate_sf \in Nat
                                   /\ reserves'[q].cumulative_borrow_rate_sf \in Nat
                                   /\ reserves[q].cumulative_borrow_rate_sf
                                        <= reserves'[q].cumulative_borrow_rate_sf
    BY <1>1, Fields DEF Later
  <1> QED BY <1>1, <1>2, InvFacts, SoundLater

\* No obligation is written.
LEMMA SameObligations ==
  ASSUME Inv, ReservesStep, obligations' = obligations
  PROVE  ObligationsStep /\ LockedOnlyInListed'
  <1>1. ObligationsStep
    BY InvFacts, StillSound DEF ObligationsStep, Enrolled
  <1>2. LockedOnlyInListed'
    BY DEF Inv, LockedOnlyInListed, Enrolled, ReservesStep
  <1> QED BY <1>1, <1>2

\* One obligation is written, by a sound one.
LEMMA WriteObligation ==
  ASSUME Inv, ReservesStep, NEW u \in Enrolled, NEW p, Sound(p, reserves'),
         obligations' = [obligations EXCEPT ![u] = p],
         \A q \in Reserves \ Listed : CollateralIn(p, q) = 0
  PROVE  /\ ObligationsStep /\ LockedOnlyInListed'
         /\ Enrolled' = Enrolled /\ obligations'[u] = p
         /\ \A v \in Enrolled : v # u => obligations'[v] = obligations[v]
  <1>1. /\ Enrolled' = Enrolled /\ obligations'[u] = p
        /\ \A v \in Enrolled : v # u => obligations'[v] = obligations[v]
    BY InvFacts DEF Enrolled
  <1>2. \A v \in Enrolled : Sound(obligations'[v], reserves')
    BY <1>1, StillSound
  <1>3. p \in ObligationType
    BY DEF Sound
  <1>4. obligations' \in [Enrolled -> ObligationType]
    BY <1>3, InvFacts
  <1>5. ObligationsStep
    BY <1>1, <1>2, <1>4, InvFacts DEF ObligationsStep
  <1>6. LockedOnlyInListed'
    BY <1>1 DEF Inv, LockedOnlyInListed, ReservesStep
  <1> QED BY <1>1, <1>5, <1>6

(***************************************************************************)
(* The instructions, one by one.                                           *)
(***************************************************************************)

\* add_reserve.
LEMMA AddReserveInv ==
  ASSUME Inv, NEW r \in Reserves, NEW c \in Configs, AddReserve(r, c)
  PROVE  Inv'
  <1>1. /\ r \notin Listed /\ validate(c) /\ c \in ConfigType /\ slot \in U64
        /\ reserves' = [q \in Listed \cup {r} |->
                          IF q = r THEN NewReserve(c, slot) ELSE reserves[q]]
        /\ UNCHANGED <<market, obligations, balances, slot>>
    BY InvFacts, LendingAssumption DEF AddReserve, Listed
  <1>2. /\ Listed' = Listed \cup {r}
        /\ reserves'[r] = NewReserve(c, slot)
        /\ \A q \in Listed : reserves'[q] = reserves[q]
    BY <1>1 DEF Listed
  <1>3. /\ SoundReserve(reserves'[r])
        /\ reserves'[r].available_amount = 0 /\ reserves'[r].mint_total_supply = 0
    BY <1>1, <1>2, ListedNew
  <1>4. ReservesStep
    <2>1. \A q \in Listed : SoundReserve(reserves[q]) /\ Later(reserves[q], reserves[q])
      BY InvFacts, LaterReflexive
    <2>2. \A q \in Listed' : SoundReserve(reserves'[q]) /\ reserves'[q] \in ReserveType
      BY <1>2, <1>3, <2>1, Fields
    <2>3. reserves' \in [Listed' -> ReserveType]
      BY <1>1, <1>2, <2>2
    <2> QED BY <1>2, <2>1, <2>2, <2>3, InvFacts DEF ReservesStep
  <1>5. /\ market' = market /\ slot' = slot /\ obligations' = obligations
        /\ liquidity_vault' = liquidity_vault /\ collateral_vault' = collateral_vault
        /\ ctokens' = ctokens
    BY <1>1 DEF balances
  <1>6. ObligationsStep /\ LockedOnlyInListed'
    BY <1>4, <1>5, SameObligations
  <1>7. CollateralInCustody'
    BY <1>5, CustodySame
  <1>8. VaultsMatchBooks'
    <2>1. \A q : CTokenSupply(q)' = CTokenSupply(q)
      BY <1>5, SupplySame
    <2> QED BY <1>1, <1>2, <1>3, <1>5, <2>1, SupplyFacts DEF VaultsMatchBooks
  <1> QED BY <1>4, <1>5, <1>6, <1>7, <1>8, InvFacts, StepInv DEF BalancesStep

\* init_obligation.
LEMMA InitObligationInv ==
  ASSUME Inv, NEW u \in Users, InitObligation(u)
  PROVE  Inv'
  <1>1. /\ u \notin Enrolled
        /\ obligations' = [v \in Enrolled \cup {u} |->
                             IF v = u THEN NewObligation ELSE obligations[v]]
        /\ market' = market /\ slot' = slot /\ reserves' = reserves
        /\ liquidity_vault' = liquidity_vault /\ collateral_vault' = collateral_vault
        /\ ctokens' = ctokens
    BY DEF InitObligation, Enrolled, balances
  <1>2. /\ Enrolled' = Enrolled \cup {u} /\ obligations'[u] = NewObligation
        /\ \A v \in Enrolled : obligations'[v] = obligations[v]
    BY <1>1 DEF Enrolled
  <1>3. ReservesStep /\ Listed' = Listed
    BY <1>1, SameReserves
  <1>4. Sound(NewObligation, reserves') /\ NewObligation \in ObligationType
    BY NewIsSound DEF Sound
  <1>5. ObligationsStep
    <2>1. \A v \in Enrolled' : Sound(obligations'[v], reserves')
      BY <1>2, <1>3, <1>4, StillSound
    <2>2. obligations' \in [Enrolled' -> ObligationType]
      BY <1>1, <1>2, <1>4, InvFacts
    <2> QED BY <1>2, <2>1, <2>2, InvFacts DEF ObligationsStep
  <1>6. LockedOnlyInListed'
    <2>1. \A r \in Reserves : CollateralIn(NewObligation, r) = 0
      BY AddressAssumption DEF CollateralIn, CanFind, Holding, NewObligation, EmptyCollateral,
                               FreshCollateral
    <2> QED BY <1>2, <1>3, <2>1 DEF Inv, LockedOnlyInListed
  <1>7. CollateralInCustody'
    BY <1>1, CustodyOpens
  <1>8. VaultsMatchBooks'
    <2>1. \A q : CTokenSupply(q)' = CTokenSupply(q)
      BY <1>1, SupplySame
    <2> QED BY <1>1, <1>3, <2>1 DEF Inv, VaultsMatchBooks
  <1> QED BY <1>1, <1>3, <1>5, <1>6, <1>7, <1>8, InvFacts, StepInv DEF BalancesStep

\* The accrual at the head of a handler.
LEMMA CurrentLater ==
  ASSUME Inv, NEW r \in Listed, Accrues(r)
  PROVE  /\ Later(reserves[r], Current(r))
         /\ Current(r).available_amount = reserves[r].available_amount
         /\ Current(r).mint_total_supply = reserves[r].mint_total_supply
         /\ Current(r).config = reserves[r].config
         /\ Current(r).market_price_sf = reserves[r].market_price_sf
         /\ r \in Reserves
  BY InvFacts, LaterAccrued DEF Accrues, Current

\* Amounts are positive.
LEMMA AmountType ==
  ASSUME NEW a \in Amounts
  PROVE  a \in Nat \ {0}
  BY LendingAssumption, Widths

\* deposit: vault and books rise by the amount, supply and books by what is minted.
LEMMA DepositInv ==
  ASSUME Inv, NEW u \in Users, NEW r \in Listed, NEW a \in Amounts, Deposit(u, r, a)
  PROVE  Inv'
  <1>1. a \in Nat \ {0} /\ Later(reserves[r], Current(r)) /\ r \in Reserves
    BY AmountType, CurrentLater DEF Deposit
  <1>2. PICK m : m = liquidity_to_collateral(Current(r), a)
    OBVIOUS
  <1>3. PICK p : p = deposit_liquidity(Current(r), a)
    OBVIOUS
  <1>4. /\ Later(reserves[r], p) /\ m \in Nat
        /\ p.available_amount = reserves[r].available_amount + a
        /\ p.mint_total_supply = reserves[r].mint_total_supply + m
    BY <1>1, <1>2, <1>3, CurrentLater, LaterDeposited DEF Deposit
  <1>5. /\ reserves' = [reserves EXCEPT ![r] = p]
        /\ liquidity_vault' = [liquidity_vault EXCEPT ![r] = @ + a]
        /\ ctokens' = [ctokens EXCEPT ![u][r] = @ + m]
        /\ market' = market /\ slot' = slot /\ obligations' = obligations
        /\ collateral_vault' = collateral_vault
    BY <1>2, <1>3 DEF Deposit
  <1>6. /\ ReservesStep /\ Listed' = Listed /\ reserves'[r] = p
        /\ \A q \in Listed : q # r => reserves'[q] = reserves[q]
    BY <1>4, <1>5, WriteReserve
  <1>7. ObligationsStep /\ LockedOnlyInListed' /\ CollateralInCustody'
    BY <1>5, <1>6, SameObligations, CustodySame
  <1>8. /\ liquidity_vault' \in [Reserves -> Nat]
        /\ liquidity_vault'[r] = liquidity_vault[r] + a
        /\ \A q \in Reserves : q # r => liquidity_vault'[q] = liquidity_vault[q]
    BY <1>1, <1>5, InvFacts
  <1>9. /\ ctokens' \in [Users -> [Reserves -> Nat]]
        /\ collateral_vault' \in [Reserves -> Nat]
        /\ CTokenSupply(r)' = CTokenSupply(r) + m
        /\ \A q \in Reserves : q # r => CTokenSupply(q)' = CTokenSupply(q)
    <2>1. PICK x, y \in Nat : x = ctokens[u][r] + m /\ y = collateral_vault[r]
      BY <1>1, <1>4, InvFacts
    <2>2. /\ ctokens' = [ctokens EXCEPT ![u][r] = x]
          /\ collateral_vault' = [collateral_vault EXCEPT ![r] = y]
          /\ ctokens[u][r] \in Nat
      BY <1>1, <1>5, <2>1, InvFacts
    <2>3. /\ ctokens' \in [Users -> [Reserves -> Nat]]
          /\ collateral_vault' \in [Reserves -> Nat]
          /\ CTokenSupply(r)' = CTokenSupply(r) - ctokens[u][r] + x - collateral_vault[r] + y
          /\ \A q \in Reserves : q # r => CTokenSupply(q)' = CTokenSupply(q)
      BY ONLY Inv, u \in Users, <1>1, <2>2, x \in Nat, y \in Nat, SupplyMoves
    <2>4. CTokenSupply(r) \in Nat /\ ctokens[u][r] \in Nat /\ collateral_vault[r] \in Nat
      BY <1>1, InvFacts, SupplyFacts
    <2> QED BY <1>1, <1>4, <2>1, <2>3, <2>4
  <1>10. VaultsMatchBooks'
    BY <1>1, <1>4, <1>6, <1>8, <1>9, SupplyFacts DEF VaultsMatchBooks
  <1> QED BY <1>5, <1>6, <1>7, <1>8, <1>9, <1>10, InvFacts, StepInv DEF BalancesStep

\* withdraw: vault and books fall by what is paid, supply and books by what is burned.
LEMMA WithdrawInv ==
  ASSUME Inv, NEW u \in Users, NEW r \in Listed, NEW a \in Amounts, Withdraw(u, r, a)
  PROVE  Inv'
  <1>1. a \in Nat \ {0} /\ Later(reserves[r], Current(r)) /\ r \in Reserves
    BY AmountType, CurrentLater DEF Withdraw
  <1>2. PICK l : l = collateral_to_liquidity(Current(r), a)
    OBVIOUS
  <1>3. PICK p : p = redeem_collateral(Current(r), a)
    OBVIOUS
  <1>4. /\ Later(reserves[r], p) /\ l \in Nat
        /\ p.available_amount = reserves[r].available_amount - l
        /\ p.mint_total_supply = reserves[r].mint_total_supply - a
    BY <1>1, <1>2, <1>3, CurrentLater, LaterRedeemed DEF Withdraw
  <1>5. /\ reserves' = [reserves EXCEPT ![r] = p]
        /\ liquidity_vault' = [liquidity_vault EXCEPT ![r] = @ - l]
        /\ ctokens' = [ctokens EXCEPT ![u][r] = @ - a]
        /\ market' = market /\ slot' = slot /\ obligations' = obligations
        /\ collateral_vault' = collateral_vault
        /\ a <= ctokens[u][r] /\ l <= liquidity_vault[r]
    BY <1>2, <1>3 DEF Withdraw
  <1>6. /\ ReservesStep /\ Listed' = Listed /\ reserves'[r] = p
        /\ \A q \in Listed : q # r => reserves'[q] = reserves[q]
    BY <1>4, <1>5, WriteReserve
  <1>7. ObligationsStep /\ LockedOnlyInListed' /\ CollateralInCustody'
    BY <1>5, <1>6, SameObligations, CustodySame
  <1>8. /\ liquidity_vault' \in [Reserves -> Nat]
        /\ liquidity_vault'[r] = liquidity_vault[r] - l
        /\ \A q \in Reserves : q # r => liquidity_vault'[q] = liquidity_vault[q]
    <2>1. liquidity_vault[r] - l \in Nat
      BY <1>1, <1>4, <1>5, InvFacts
    <2> QED BY <1>1, <1>5, <2>1, InvFacts
  <1>9. /\ ctokens' \in [Users -> [Reserves -> Nat]]
        /\ collateral_vault' \in [Reserves -> Nat]
        /\ CTokenSupply(r)' = CTokenSupply(r) - a
        /\ \A q \in Reserves : q # r => CTokenSupply(q)' = CTokenSupply(q)
    <2>1. PICK x, y \in Nat : x = ctokens[u][r] - a /\ y = collateral_vault[r]
      BY <1>1, <1>5, InvFacts
    <2>2. /\ ctokens' = [ctokens EXCEPT ![u][r] = x]
          /\ collateral_vault' = [collateral_vault EXCEPT ![r] = y]
          /\ ctokens[u][r] \in Nat
      BY <1>1, <1>5, <2>1, InvFacts
    <2>3. /\ ctokens' \in [Users -> [Reserves -> Nat]]
          /\ collateral_vault' \in [Reserves -> Nat]
          /\ CTokenSupply(r)' = CTokenSupply(r) - ctokens[u][r] + x - collateral_vault[r] + y
          /\ \A q \in Reserves : q # r => CTokenSupply(q)' = CTokenSupply(q)
      BY ONLY Inv, u \in Users, <1>1, <2>2, x \in Nat, y \in Nat, SupplyMoves
    <2>4. CTokenSupply(r) \in Nat /\ ctokens[u][r] \in Nat /\ collateral_vault[r] \in Nat
      BY <1>1, InvFacts, SupplyFacts
    <2> QED BY <1>1, <1>4, <2>1, <2>3, <2>4
  <1>10. VaultsMatchBooks'
    BY <1>1, <1>4, <1>6, <1>8, <1>9, SupplyFacts DEF VaultsMatchBooks
  <1> QED BY <1>5, <1>6, <1>7, <1>8, <1>9, <1>10, InvFacts, StepInv DEF BalancesStep

\* After a handler the stored index is the one it accrued the debt to.
LEMMA IndexReached ==
  ASSUME Inv, ReservesStep, NEW r \in Listed, Accrues(r),
         reserves'[r].cumulative_borrow_rate_sf = Current(r).cumulative_borrow_rate_sf
  PROVE  /\ IndexWithin(reserves', r, Current(r).cumulative_borrow_rate_sf)
         /\ Current(r).cumulative_borrow_rate_sf >= RATE_SCALE
         /\ Current(r) \in ReserveType
  <1>1. SoundReserve(Current(r))
    BY CurrentLater DEF Later
  <1>2. r \in DOMAIN reserves'
    BY DEF ReservesStep, Listed
  <1> QED BY <1>1, <1>2, Fields DEF IndexWithin

\* cTokens move between a user's account and the vault: no supply changes.
LEMMA CTokensLocked ==
  ASSUME Inv, NEW u \in Users, NEW r \in Reserves, NEW d \in Int,
         ctokens[u][r] - d >= 0, collateral_vault[r] + d >= 0,
         ctokens' = [ctokens EXCEPT ![u][r] = ctokens[u][r] - d],
         collateral_vault' = [collateral_vault EXCEPT ![r] = collateral_vault[r] + d]
  PROVE  /\ ctokens' \in [Users -> [Reserves -> Nat]]
         /\ collateral_vault' \in [Reserves -> Nat]
         /\ \A q \in Reserves : CTokenSupply(q)' = CTokenSupply(q)
         /\ collateral_vault'[r] = collateral_vault[r] + d
         /\ \A q \in Reserves : q # r => collateral_vault'[q] = collateral_vault[q]
  <1>1. /\ ctokens[u][r] \in Nat /\ collateral_vault[r] \in Nat
        /\ CTokenSupply(r) \in Nat
    BY InvFacts, SupplyFacts
  <1>2. PICK x, y \in Nat : x = ctokens[u][r] - d /\ y = collateral_vault[r] + d
    BY <1>1
  <1>3. /\ ctokens' = [ctokens EXCEPT ![u][r] = x]
        /\ collateral_vault' = [collateral_vault EXCEPT ![r] = y]
    BY <1>2
  <1>4. /\ ctokens' \in [Users -> [Reserves -> Nat]]
        /\ collateral_vault' \in [Reserves -> Nat]
        /\ CTokenSupply(r)' = CTokenSupply(r) - ctokens[u][r] + x - collateral_vault[r] + y
        /\ \A q \in Reserves : q # r => CTokenSupply(q)' = CTokenSupply(q)
    BY ONLY Inv, u \in Users, r \in Reserves, <1>3, x \in Nat, y \in Nat, SupplyMoves
  <1>5. CTokenSupply(r)' = CTokenSupply(r)
    BY <1>1, <1>2, <1>4
  <1>6. /\ collateral_vault'[r] = collateral_vault[r] + d
        /\ \A q \in Reserves : q # r => collateral_vault'[q] = collateral_vault[q]
    BY <1>2, <1>3, InvFacts
  <1> QED BY <1>4, <1>5, <1>6

\* deposit_collateral: what enters the vault is what the obligation gains.
LEMMA DepositCollateralInv ==
  ASSUME Inv, NEW u \in Enrolled, NEW r \in Listed, NEW a \in Amounts, DepositCollateral(u, r, a)
  PROVE  Inv'
  <1>1. /\ a \in Nat \ {0} /\ u \in Users /\ r \in Reserves
        /\ ctokens[u][r] \in Nat /\ collateral_vault[r] \in Nat
    BY AmountType, InvFacts
  <1>2. PICK p : p = deposit(obligations[u], r, a)
    OBVIOUS
  <1>3. /\ CanDeposit(obligations[u], r, a) /\ a <= ctokens[u][r]
        /\ obligations' = [obligations EXCEPT ![u] = p]
        /\ ctokens' = [ctokens EXCEPT ![u][r] = ctokens[u][r] - a]
        /\ collateral_vault' = [collateral_vault EXCEPT ![r] = collateral_vault[r] + a]
        /\ market' = market /\ reserves' = reserves /\ liquidity_vault' = liquidity_vault
        /\ slot' = slot
    BY <1>2, InvFacts DEF DepositCollateral
  <1>4. ReservesStep /\ Listed' = Listed
    BY <1>3, SameReserves
  <1>5. /\ Sound(p, reserves')
        /\ CollateralIn(p, r) = CollateralIn(obligations[u], r) + a
        /\ \A q \in Reserves : q # r => CollateralIn(p, q) = CollateralIn(obligations[u], q)
    BY <1>1, <1>2, <1>3, <1>4, StillSound, Deposited
  <1>6. \A q \in Reserves : CollateralIn(p, q) \in Nat /\ CollateralIn(obligations[u], q) \in Nat
    BY <1>5, InvFacts, CollateralNatural
  <1>7. /\ ctokens' \in [Users -> [Reserves -> Nat]]
        /\ collateral_vault' \in [Reserves -> Nat]
        /\ \A q \in Reserves : CTokenSupply(q)' = CTokenSupply(q)
        /\ collateral_vault'[r] = collateral_vault[r] + a
        /\ \A q \in Reserves : q # r => collateral_vault'[q] = collateral_vault[q]
    <2>1. a \in Int /\ ctokens[u][r] - a >= 0 /\ collateral_vault[r] + a >= 0
      BY <1>1, <1>3
    <2> QED BY ONLY Inv, <1>1, <1>3, <2>1, CTokensLocked
  <1>8. CollateralInCustody'
    <2>1. ASSUME NEW q \in Reserves
          PROVE  /\ CollateralIn(p, q) \in Nat
                 /\ collateral_vault'[q]
                      = collateral_vault[q] - CollateralIn(obligations[u], q) + CollateralIn(p, q)
      <3>1. collateral_vault[q] \in Nat
        BY InvFacts
      <3> QED BY <1>1, <1>5, <1>6, <1>7, <3>1
    <2> QED BY <1>3, <2>1, CustodyMoves
  <1>9. ObligationsStep /\ LockedOnlyInListed'
    <2>1. \A q \in Reserves \ Listed : CollateralIn(p, q) = 0
      BY <1>5 DEF Inv, LockedOnlyInListed
    <2> QED BY <1>3, <1>4, <1>5, <2>1, WriteObligation
  <1>10. VaultsMatchBooks'
    BY <1>3, <1>4, <1>7 DEF Inv, VaultsMatchBooks
  <1> QED BY <1>3, <1>4, <1>7, <1>8, <1>9, <1>10, InvFacts, StepInv DEF BalancesStep

\* withdraw_collateral: what leaves the vault is what the obligation loses.
LEMMA WithdrawCollateralInv ==
  ASSUME Inv, NEW u \in Enrolled, NEW r \in Listed, NEW a \in Amounts, WithdrawCollateral(u, r, a)
  PROVE  Inv'
  <1>1. /\ a \in Nat \ {0} /\ u \in Users /\ r \in Reserves
        /\ ctokens[u][r] \in Nat /\ collateral_vault[r] \in Nat
    BY AmountType, InvFacts
  <1>2. PICK p : p = release_collateral(obligations[u], r, a)
    OBVIOUS
  <1>3. /\ CanWithdraw(obligations[u], r, a) /\ a <= collateral_vault[r]
        /\ obligations' = [obligations EXCEPT ![u] = p]
        /\ ctokens' = [ctokens EXCEPT ![u][r] = ctokens[u][r] - (-a)]
        /\ collateral_vault' = [collateral_vault EXCEPT ![r] = collateral_vault[r] + (-a)]
        /\ market' = market /\ reserves' = reserves /\ liquidity_vault' = liquidity_vault
        /\ slot' = slot
    <2>1. /\ ctokens' = [ctokens EXCEPT ![u][r] = ctokens[u][r] + a]
          /\ collateral_vault' = [collateral_vault EXCEPT ![r] = collateral_vault[r] - a]
      BY InvFacts, <1>1 DEF WithdrawCollateral
    <2>2. /\ ctokens[u][r] + a = ctokens[u][r] - (-a)
          /\ collateral_vault[r] - a = collateral_vault[r] + (-a)
      BY <1>1
    <2> QED BY <1>2, <2>1, <2>2 DEF WithdrawCollateral, CanReleaseCollateral
  <1>4. ReservesStep /\ Listed' = Listed
    BY <1>3, SameReserves
  <1>5. /\ Sound(p, reserves')
        /\ CollateralIn(p, r) = CollateralIn(obligations[u], r) - a
        /\ \A q \in Reserves : q # r => CollateralIn(p, q) = CollateralIn(obligations[u], q)
    BY <1>1, <1>2, <1>3, <1>4, StillSound, Released
  <1>6. \A q \in Reserves : CollateralIn(p, q) \in Nat /\ CollateralIn(obligations[u], q) \in Nat
    BY <1>5, InvFacts, CollateralNatural
  <1>7. /\ ctokens' \in [Users -> [Reserves -> Nat]]
        /\ collateral_vault' \in [Reserves -> Nat]
        /\ \A q \in Reserves : CTokenSupply(q)' = CTokenSupply(q)
        /\ collateral_vault'[r] = collateral_vault[r] + (-a)
        /\ \A q \in Reserves : q # r => collateral_vault'[q] = collateral_vault[q]
    <2>1. -a \in Int /\ ctokens[u][r] - (-a) >= 0 /\ collateral_vault[r] + (-a) >= 0
      BY <1>1, <1>3
    <2> QED BY ONLY Inv, <1>1, <1>3, <2>1, CTokensLocked
  <1>8. CollateralInCustody'
    <2>1. ASSUME NEW q \in Reserves
          PROVE  /\ CollateralIn(p, q) \in Nat
                 /\ collateral_vault'[q]
                      = collateral_vault[q] - CollateralIn(obligations[u], q) + CollateralIn(p, q)
      <3>1. collateral_vault[q] \in Nat
        BY InvFacts
      <3> QED BY <1>1, <1>5, <1>6, <1>7, <3>1
    <2> QED BY <1>3, <2>1, CustodyMoves
  <1>9. ObligationsStep /\ LockedOnlyInListed'
    <2>1. \A q \in Reserves \ Listed : CollateralIn(p, q) = 0
      BY <1>5 DEF Inv, LockedOnlyInListed
    <2> QED BY <1>3, <1>4, <1>5, <2>1, WriteObligation
  <1>10. VaultsMatchBooks'
    BY <1>3, <1>4, <1>7 DEF Inv, VaultsMatchBooks
  <1> QED BY <1>3, <1>4, <1>7, <1>8, <1>9, <1>10, InvFacts, StepInv DEF BalancesStep

\* A handler that keeps the deposits keeps what is locked.
LEMMA SameCollateralIn ==
  ASSUME NEW o, NEW p, SameCollateral(o, p)
  PROVE  \A q : CollateralIn(p, q) = CollateralIn(o, q)
  BY DEF SameCollateral, CollateralIn

\* An obligation is written that keeps its collateral.
LEMMA DebtWritten ==
  ASSUME Inv, ReservesStep, NEW u \in Enrolled, NEW p, Sound(p, reserves'),
         obligations' = [obligations EXCEPT ![u] = p],
         \A q \in Reserves : CollateralIn(p, q) = CollateralIn(obligations[u], q),
         collateral_vault' = collateral_vault
  PROVE  ObligationsStep /\ LockedOnlyInListed' /\ CollateralInCustody'
  <1>1. \A q \in Reserves \ Listed : CollateralIn(p, q) = 0
    BY DEF Inv, LockedOnlyInListed
  <1>2. ASSUME NEW q \in Reserves
        PROVE  /\ CollateralIn(p, q) \in Nat
               /\ collateral_vault'[q]
                    = collateral_vault[q] - CollateralIn(obligations[u], q) + CollateralIn(p, q)
    <2>1. CollateralIn(p, q) \in Nat /\ collateral_vault[q] \in Nat
      BY InvFacts, CollateralNatural
    <2> QED BY <2>1
  <1>3. ObligationsStep /\ LockedOnlyInListed'
    BY <1>1, WriteObligation
  <1>4. CollateralInCustody'
    BY <1>2, CustodyMoves
  <1> QED BY <1>3, <1>4

\* borrow: the snapshot taken is the index the reserve is left with.
LEMMA LendInv ==
  ASSUME Inv, NEW u \in Enrolled, NEW r \in Listed, NEW a \in Amounts, Lend(u, r, a)
  PROVE  Inv'
  <1>1. a \in Nat \ {0} /\ Later(reserves[r], Current(r)) /\ r \in Reserves
    BY AmountType, CurrentLater DEF Lend
  <1>2. PICK q : q = borrow(Current(r), a)
    OBVIOUS
  <1>3. /\ Later(reserves[r], q)
        /\ q.available_amount = reserves[r].available_amount - a
        /\ q.mint_total_supply = reserves[r].mint_total_supply
        /\ q.cumulative_borrow_rate_sf = Current(r).cumulative_borrow_rate_sf
    BY <1>1, <1>2, CurrentLater, LaterLent DEF Lend
  <1>4. PICK p : p = borrow_against(obligations[u], r, a, Current(r))
    OBVIOUS
  <1>5. /\ Accrues(r) /\ CanBorrowAgainst(obligations[u], r, a, Current(r))
        /\ a <= liquidity_vault[r]
        /\ reserves' = [reserves EXCEPT ![r] = q]
        /\ obligations' = [obligations EXCEPT ![u] = p]
        /\ liquidity_vault' = [liquidity_vault EXCEPT ![r] = liquidity_vault[r] - a]
        /\ market' = market /\ collateral_vault' = collateral_vault /\ ctokens' = ctokens
        /\ slot' = slot
    BY <1>2, <1>4, InvFacts DEF Lend
  <1>6. /\ ReservesStep /\ Listed' = Listed /\ reserves'[r] = q
        /\ \A x \in Listed : x # r => reserves'[x] = reserves[x]
    BY <1>3, <1>5, WriteReserve
  <1>7. /\ IndexWithin(reserves', r, Current(r).cumulative_borrow_rate_sf)
        /\ Current(r).cumulative_borrow_rate_sf >= RATE_SCALE
    BY <1>3, <1>5, <1>6, IndexReached
  <1>8. Sound(p, reserves') /\ SameCollateral(obligations[u], p)
    BY <1>1, <1>4, <1>5, <1>6, <1>7, StillSound, BorrowedAgainst
  <1>9. ObligationsStep /\ LockedOnlyInListed' /\ CollateralInCustody'
    <2>1. \A x \in Reserves : CollateralIn(p, x) = CollateralIn(obligations[u], x)
      BY <1>8, SameCollateralIn
    <2> QED BY <1>5, <1>6, <1>8, <2>1, DebtWritten
  <1>10. /\ liquidity_vault' \in [Reserves -> Nat]
         /\ liquidity_vault'[r] = liquidity_vault[r] - a
         /\ \A x \in Reserves : x # r => liquidity_vault'[x] = liquidity_vault[x]
    <2>1. liquidity_vault[r] - a \in Nat
      BY <1>1, <1>5, InvFacts
    <2> QED BY <1>1, <1>5, <2>1, InvFacts
  <1>11. VaultsMatchBooks'
    <2>1. \A x : CTokenSupply(x)' = CTokenSupply(x)
      BY <1>5, SupplySame
    <2> QED BY <1>1, <1>3, <1>6, <1>10, <2>1, SupplyFacts DEF VaultsMatchBooks
  <1> QED BY <1>5, <1>6, <1>9, <1>10, <1>11, InvFacts, StepInv DEF BalancesStep

\* repay.
LEMMA RepayInv ==
  ASSUME Inv, NEW u \in Enrolled, NEW r \in Listed, NEW a \in Amounts, Repay(u, r, a)
  PROVE  Inv'
  <1>1. a \in Nat \ {0} /\ Later(reserves[r], Current(r)) /\ r \in Reserves
    BY AmountType, CurrentLater DEF Repay
  <1>2. PICK q : q = repay(Current(r), a)
    OBVIOUS
  <1>3. /\ Later(reserves[r], q)
        /\ q.available_amount = reserves[r].available_amount + a
        /\ q.mint_total_supply = reserves[r].mint_total_supply
        /\ q.cumulative_borrow_rate_sf = Current(r).cumulative_borrow_rate_sf
    BY <1>1, <1>2, CurrentLater, LaterRepaid DEF Repay
  <1>4. PICK p : p = repay_debt(obligations[u], r, a, Current(r))
    OBVIOUS
  <1>5. /\ Accrues(r) /\ CanRepayDebt(obligations[u], r, a, Current(r))
        /\ reserves' = [reserves EXCEPT ![r] = q]
        /\ obligations' = [obligations EXCEPT ![u] = p]
        /\ liquidity_vault' = [liquidity_vault EXCEPT ![r] = liquidity_vault[r] + a]
        /\ market' = market /\ collateral_vault' = collateral_vault /\ ctokens' = ctokens
        /\ slot' = slot
    BY <1>2, <1>4, InvFacts DEF Repay
  <1>6. /\ ReservesStep /\ Listed' = Listed /\ reserves'[r] = q
        /\ \A x \in Listed : x # r => reserves'[x] = reserves[x]
    BY <1>3, <1>5, WriteReserve
  <1>7. IndexWithin(reserves', r, Current(r).cumulative_borrow_rate_sf)
    BY <1>3, <1>5, <1>6, IndexReached
  <1>8. Sound(p, reserves') /\ SameCollateral(obligations[u], p)
    BY <1>1, <1>4, <1>5, <1>6, <1>7, StillSound, RepaidDebt
  <1>9. ObligationsStep /\ LockedOnlyInListed' /\ CollateralInCustody'
    <2>1. \A x \in Reserves : CollateralIn(p, x) = CollateralIn(obligations[u], x)
      BY <1>8, SameCollateralIn
    <2> QED BY <1>5, <1>6, <1>8, <2>1, DebtWritten
  <1>10. /\ liquidity_vault' \in [Reserves -> Nat]
         /\ liquidity_vault'[r] = liquidity_vault[r] + a
         /\ \A x \in Reserves : x # r => liquidity_vault'[x] = liquidity_vault[x]
    BY <1>1, <1>5, InvFacts
  <1>11. VaultsMatchBooks'
    <2>1. \A x : CTokenSupply(x)' = CTokenSupply(x)
      BY <1>5, SupplySame
    <2> QED BY <1>1, <1>3, <1>6, <1>10, <2>1, SupplyFacts DEF VaultsMatchBooks
  <1> QED BY <1>5, <1>6, <1>9, <1>10, <1>11, InvFacts, StepInv DEF BalancesStep

\* One reserve is written, its books' amounts stay, and nothing else moves.
LEMMA OnlyReserve ==
  ASSUME Inv, NEW r \in Listed, NEW p, Later(reserves[r], p),
         p.available_amount = reserves[r].available_amount,
         p.mint_total_supply = reserves[r].mint_total_supply,
         reserves' = [reserves EXCEPT ![r] = p],
         UNCHANGED <<market, obligations, balances, slot>>
  PROVE  Inv'
  <1>1. /\ ReservesStep /\ Listed' = Listed /\ reserves'[r] = p
        /\ \A x \in Listed : x # r => reserves'[x] = reserves[x]
    BY WriteReserve
  <1>2. /\ market' = market /\ slot' = slot /\ obligations' = obligations
        /\ liquidity_vault' = liquidity_vault /\ collateral_vault' = collateral_vault
        /\ ctokens' = ctokens
    BY DEF balances
  <1>3. ObligationsStep /\ LockedOnlyInListed' /\ CollateralInCustody'
    BY <1>1, <1>2, SameObligations, CustodySame
  <1>4. VaultsMatchBooks'
    <2>1. \A x : CTokenSupply(x)' = CTokenSupply(x)
      BY <1>2, SupplySame
    <2> QED BY <1>1, <1>2, <2>1, SupplyFacts DEF VaultsMatchBooks
  <1> QED BY <1>1, <1>2, <1>3, <1>4, InvFacts, StepInv DEF BalancesStep

\* The age of a message does not enter its price, and the price fits its field.
LEMMA PriceFits ==
  ASSUME NEW m \in Messages, NEW t \in Int, NEW n \in Int,
         CanGetPythPrice([m EXCEPT !.publish_time = t], n)
  PROVE  /\ pyth_price_sf([m EXCEPT !.publish_time = t]) = pyth_price_sf(m)
         /\ pyth_price_sf(m) \in U128
  <1>1. m \in MessageType
    BY LendingAssumption
  <1>2. PICK k : k = [m EXCEPT !.publish_time = t]
    OBVIOUS
  <1>3. k.price = m.price /\ k.up = m.up /\ k.down = m.down
    BY <1>1, <1>2 DEF MessageType
  <1>4. /\ m.price \in Nat /\ m.up \in Nat \ {0} /\ m.down \in Nat \ {0}
        /\ m.price * RATE_SCALE * m.up <= MAX_U128
    BY <1>1, <1>2, <1>3, ScaleAssumption DEF MessageType, CanGetPythPrice, CanMul
  <1>5. PICK x \in Nat : x = m.price * RATE_SCALE
    BY <1>4, ScaleAssumption
  <1>6. MulDiv(x, m.up, m.down) \in Nat /\ MulDiv(x, m.up, m.down) * m.down <= x * m.up
    BY <1>4, <1>5, MulDivBound
  <1>7. MulDiv(x, m.up, m.down) <= x * m.up
    <2>1. PICK y \in Nat : y = MulDiv(x, m.up, m.down)
      BY <1>6
    <2>2. y <= y * m.down
      BY <1>4
    <2>3. x * m.up \in Nat
      BY <1>4, <1>5
    <2> QED BY <1>4, <1>6, <2>1, <2>2, <2>3
  <1>8. MulDiv(x, m.up, m.down) \in U128
    <2>1. x * m.up <= MAX_U128 /\ x * m.up \in Nat
      BY <1>4, <1>5
    <2> QED BY <1>6, <1>7, <2>1, WidthAssumption DEF U128
  <1> QED BY <1>2, <1>3, <1>5, <1>8 DEF pyth_price_sf

\* refresh_reserve.
LEMMA RefreshReserveInv ==
  ASSUME Inv, NEW r \in Listed, NEW m \in Messages, RefreshReserve(r, m)
  PROVE  Inv'
  <1>1. now \in Int /\ m.publish_time \in Int
    BY InvFacts, LendingAssumption DEF now, MessageType
  <1>2. PICK t \in Int : t = now - m.publish_time
    BY <1>1
  <1>3. /\ CanGetPythPrice([m EXCEPT !.publish_time = t], now) /\ Accrues(r)
        /\ [m EXCEPT !.publish_time = t].publish_time = t
    BY <1>2, LendingAssumption DEF RefreshReserve, MessageType
  <1>4. PICK price \in U128 : price = pyth_price_sf([m EXCEPT !.publish_time = t])
    BY <1>1, <1>3, PriceFits
  <1>5. PICK p : p = Priced(Current(r), price, t)
    OBVIOUS
  <1>6. /\ reserves' = [reserves EXCEPT ![r] = p]
        /\ UNCHANGED <<market, obligations, balances, slot>>
    BY <1>2, <1>3, <1>4, <1>5 DEF RefreshReserve, Priced
  <1>7. /\ Later(reserves[r], p)
        /\ p.available_amount = reserves[r].available_amount
        /\ p.mint_total_supply = reserves[r].mint_total_supply
    <2>1. /\ Later(reserves[r], p)
          /\ p.available_amount = Current(r).available_amount
          /\ p.mint_total_supply = Current(r).mint_total_supply
      <3>1. Later(reserves[r], Current(r))
        BY <1>3, CurrentLater
      <3> QED BY <1>5, <3>1, LaterPriced
    <2> QED BY <1>3, <2>1, CurrentLater
  <1> QED BY <1>6, <1>7, OnlyReserve

\* update_reserve_config.
LEMMA UpdateReserveConfigInv ==
  ASSUME Inv, NEW r \in Listed, NEW c \in Configs, UpdateReserveConfig(r, c)
  PROVE  Inv'
  <1>1. PICK p : p = [reserves[r] EXCEPT !.config = c]
    OBVIOUS
  <1>2. /\ reserves' = [reserves EXCEPT ![r] = p]
        /\ UNCHANGED <<market, obligations, balances, slot>>
        /\ validate(c) /\ c \in ConfigType
    BY <1>1, InvFacts, LendingAssumption DEF UpdateReserveConfig
  <1>3. /\ Later(reserves[r], p)
        /\ p.available_amount = reserves[r].available_amount
        /\ p.mint_total_supply = reserves[r].mint_total_supply
    BY <1>1, <1>2, InvFacts, LaterConfigured
  <1> QED BY <1>2, <1>3, OnlyReserve

\* refresh_obligation in a market that satisfies the invariant.
LEMMA RefreshedHere ==
  ASSUME Inv, NEW u \in Enrolled, NEW p, CanRefreshObligation(obligations[u], reserves),
         p = refresh_obligation(obligations[u], reserves, slot)
  PROVE  /\ Sound(p, reserves)
         /\ p.borrows_count = obligations[u].borrows_count
         /\ \A q : CollateralIn(p, q) = CollateralIn(obligations[u], q)
  <1>1. Sound(obligations[u], reserves) /\ slot \in U64
    BY InvFacts
  <1>2. CollateralListed(obligations[u], reserves)
    <2> SUFFICES ASSUME NEW i \in DepositSlots, obligations[u].deposits[i].reserve # NoReserve
                 PROVE  obligations[u].deposits[i].reserve \in Listed
      BY DEF CollateralListed, Listed
    <2>1. PICK r \in Reserves : r = obligations[u].deposits[i].reserve
      BY <1>1, SoundParts DEF CollateralType
    <2>2. CanFind(obligations[u].deposits, r)
      BY <1>1, <2>1, SoundParts DEF CanFind, Holding
    <2>3. CollateralIn(obligations[u], r) # 0
      BY <1>1, <2>2, FoundDeposit
    <2> QED BY <2>1, <2>3 DEF Inv, LockedOnlyInListed
  <1>3. \A q \in DOMAIN reserves : reserves[q] \in ReserveType
    BY InvFacts, Fields DEF Listed
  <1> QED BY <1>1, <1>2, <1>3, Refreshed

\* refresh_obligation.
LEMMA RefreshObligationInv ==
  ASSUME Inv, NEW u \in Enrolled, RefreshObligation(u)
  PROVE  Inv'
  <1>1. PICK p : p = refresh_obligation(obligations[u], reserves, slot)
    OBVIOUS
  <1>2. /\ CanRefreshObligation(obligations[u], reserves)
        /\ obligations' = [obligations EXCEPT ![u] = p]
        /\ market' = market /\ slot' = slot /\ reserves' = reserves
        /\ liquidity_vault' = liquidity_vault /\ collateral_vault' = collateral_vault
        /\ ctokens' = ctokens
    BY <1>1, InvFacts DEF RefreshObligation, balances
  <1>3. ReservesStep /\ Listed' = Listed
    BY <1>2, SameReserves
  <1>4. /\ Sound(p, reserves')
        /\ \A q \in Reserves : CollateralIn(p, q) = CollateralIn(obligations[u], q)
    BY <1>1, <1>2, RefreshedHere
  <1>5. ObligationsStep /\ LockedOnlyInListed' /\ CollateralInCustody'
    BY <1>2, <1>3, <1>4, DebtWritten
  <1>6. VaultsMatchBooks'
    <2>1. \A x : CTokenSupply(x)' = CTokenSupply(x)
      BY <1>2, SupplySame
    <2> QED BY <1>2, <1>3, <2>1 DEF Inv, VaultsMatchBooks
  <1> QED BY <1>2, <1>3, <1>5, <1>6, InvFacts, StepInv DEF BalancesStep

\* No account or balance that the invariant relates changes.
LEMMA NothingMoves ==
  ASSUME Inv, UNCHANGED <<reserves, obligations, balances>>,
         market' \in [owner : Authorities, emergency_pause : BOOLEAN], slot' \in 1 .. MaxSlot
  PROVE  Inv'
  <1>1. /\ reserves' = reserves /\ obligations' = obligations
        /\ liquidity_vault' = liquidity_vault /\ collateral_vault' = collateral_vault
        /\ ctokens' = ctokens
    BY DEF balances
  <1>2. ReservesStep /\ Listed' = Listed
    BY <1>1, SameReserves
  <1>3. ObligationsStep /\ LockedOnlyInListed' /\ CollateralInCustody'
    BY <1>1, <1>2, SameObligations, CustodySame
  <1>4. VaultsMatchBooks'
    <2>1. \A x : CTokenSupply(x)' = CTokenSupply(x)
      BY <1>1, SupplySame
    <2> QED BY <1>1, <1>2, <2>1 DEF Inv, VaultsMatchBooks
  <1> QED BY <1>1, <1>2, <1>3, <1>4, InvFacts, StepInv DEF BalancesStep

\* Both liquidations on the reserves: one is repaid, the other accrues, or both are one.
LEMMA SeizeReserves ==
  ASSUME Inv, NEW liquidator \in Users, NEW u \in Enrolled, NEW rr \in Listed, NEW wr \in Listed,
         NEW a \in Amounts, Seize(liquidator, u, rr, wr, a),
         NEW amount, amount = ActualRepay(obligations[u], rr, Current(rr), a),
         amount \in Nat
  PROVE  /\ ReservesStep /\ Listed' = Listed
         /\ reserves'[rr] = repay(Current(rr), amount)
         /\ wr # rr => reserves'[wr] = Current(wr)
         /\ \A x \in Listed : x # rr /\ x # wr => reserves'[x] = reserves[x]
         /\ reserves'[rr].cumulative_borrow_rate_sf = Current(rr).cumulative_borrow_rate_sf
         /\ reserves'[rr].available_amount = reserves[rr].available_amount + amount
         /\ \A x \in Listed : x # rr => reserves'[x].available_amount = reserves[x].available_amount
         /\ \A x \in Listed : reserves'[x].mint_total_supply = reserves[x].mint_total_supply
  <1>1. PICK q, c : q = repay(Current(rr), amount) /\ c = Current(wr)
    OBVIOUS
  <1>2. /\ Accrues(rr) /\ Accrues(wr) /\ CanRepay(Current(rr), amount)
        /\ reserves' = [[reserves EXCEPT ![wr] = c] EXCEPT ![rr] = q]
    BY <1>1 DEF Seize
  <1>3. /\ Later(reserves[rr], q)
        /\ q.available_amount = reserves[rr].available_amount + amount
        /\ q.mint_total_supply = reserves[rr].mint_total_supply
        /\ q.cumulative_borrow_rate_sf = Current(rr).cumulative_borrow_rate_sf
    BY <1>1, <1>2, CurrentLater, LaterRepaid
  <1>4. /\ Later(reserves[wr], c)
        /\ c.available_amount = reserves[wr].available_amount
        /\ c.mint_total_supply = reserves[wr].mint_total_supply
    BY <1>1, <1>2, CurrentLater
  <1>5. /\ Listed' = Listed /\ reserves'[rr] = q
        /\ wr # rr => reserves'[wr] = c
        /\ \A x \in Listed : x # rr /\ x # wr => reserves'[x] = reserves[x]
    BY <1>2, InvFacts DEF Listed
  <1>6. \A x \in Listed : Later(reserves[x], reserves'[x])
    BY <1>3, <1>4, <1>5, InvFacts, LaterReflexive
  <1>7. \A x \in Listed : SoundReserve(reserves'[x]) /\ reserves'[x] \in ReserveType
    BY <1>6, Fields DEF Later
  <1>8. reserves' \in [Listed -> ReserveType]
    BY <1>2, <1>7, InvFacts
  <1>9. ReservesStep
    BY <1>5, <1>6, <1>7, <1>8, InvFacts DEF ReservesStep
  <1> QED BY <1>1, <1>3, <1>4, <1>5, <1>9

\* Both liquidations on the obligation.
LEMMA SeizeFacts ==
  ASSUME Inv, NEW liquidator \in Users, NEW u \in Enrolled, NEW rr \in Listed, NEW wr \in Listed,
         NEW a \in Amounts, Seize(liquidator, u, rr, wr, a),
         NEW amount, amount = ActualRepay(obligations[u], rr, Current(rr), a),
         NEW seized, seized = Seized(obligations[u], wr, amount, Current(rr), Current(wr)),
         NEW p, p = liquidated(obligations[u], rr, wr, amount, seized, Current(rr))
  PROVE  /\ amount \in Nat \ {0} /\ amount <= a
         /\ seized \in Nat \ {0}
         /\ Sound(p, reserves')
         /\ CollateralIn(p, wr) = CollateralIn(obligations[u], wr) - seized
         /\ \A q \in Reserves : q # wr => CollateralIn(p, q) = CollateralIn(obligations[u], q)
         /\ p.borrows_count <= obligations[u].borrows_count
         /\ CanFind(obligations[u].borrows, rr)
         /\ DebtIn(p, rr) + RATE_SCALE
              <= Due(obligations[u], rr, Current(rr).cumulative_borrow_rate_sf)
         /\ Seizure(obligations[u], p, rr, wr, amount, seized,
                    Due(obligations[u], rr, Current(rr).cumulative_borrow_rate_sf))
  <1>1. /\ CanSeize(obligations[u], rr, wr, a, Current(rr), Current(wr), slot)
        /\ Accrues(rr) /\ Accrues(wr)
    BY DEF Seize
  <1>2. a \in Nat \ {0} /\ rr \in Reserves /\ wr \in Reserves
    BY AmountType, InvFacts
  <1>3. /\ SoundReserve(Current(rr)) /\ Current(rr) \in ReserveType
        /\ SoundReserve(Current(wr)) /\ Current(wr) \in ReserveType
    BY <1>1, CurrentLater, Fields DEF Later
  <1>4. amount \in Nat
    <2>1. IndexWithin(reserves, rr, reserves[rr].cumulative_borrow_rate_sf)
      BY InvFacts, Fields DEF IndexWithin, Listed
    <2>2. PICK b : b = obligations[u].borrows[find(obligations[u].borrows, rr)]
      OBVIOUS
    <2>3. b \in LiquidityType /\ DebtOK(b, reserves) /\ b.reserve = rr
      BY <1>1, <1>2, <2>2, InvFacts, FoundBorrow DEF CanSeize
    <2>4. b.cumulative_borrow_rate_sf \in Nat \ {0}
      BY <2>3, LiquidityFields, ScaleAssumption, InvFacts, Fields DEF DebtOK
    <2>5. CanAccrueDebt(b, Current(rr).cumulative_borrow_rate_sf)
      BY <1>1, <2>2 DEF CanSeize, CanObligationAccrue
    <2>6. Current(rr).cumulative_borrow_rate_sf \in U128
      BY <1>3, Fields
    <2>7. AccruedDebt(b, Current(rr).cumulative_borrow_rate_sf) \in LiquidityType
      BY <2>3, <2>4, <2>5, <2>6, DebtAccruedFacts
    <2>8. AccruedDebt(b, Current(rr).cumulative_borrow_rate_sf).borrowed_amount_sf \in Nat
      BY <2>7, LiquidityFields
    <2>9. RawDebt(obligations[u], rr, Current(rr)) \in Nat
      BY <2>2, <2>8, ScaleAssumption DEF RawDebt
    <2> QED BY <1>2, <2>9, ActualRepayBound
  <1>5. /\ ReservesStep
        /\ reserves'[rr].cumulative_borrow_rate_sf = Current(rr).cumulative_borrow_rate_sf
    BY <1>4, SeizeReserves
  <1>6. IndexWithin(reserves', rr, Current(rr).cumulative_borrow_rate_sf)
    BY <1>1, <1>5, IndexReached
  <1>7. Sound(obligations[u], reserves')
    BY <1>5, StillSound
  <1>8. /\ Sound(p, reserves') /\ p.borrows_count <= obligations[u].borrows_count
        /\ amount <= a
        /\ Seizure(obligations[u], p, rr, wr, amount, seized,
                   Due(obligations[u], rr, Current(rr).cumulative_borrow_rate_sf))
    BY <1>1, <1>2, <1>3, <1>6, <1>7, Liquidated
  <1>9. /\ CanFind(obligations[u].borrows, rr)
        /\ DebtIn(p, rr) + RATE_SCALE
             <= Due(obligations[u], rr, Current(rr).cumulative_borrow_rate_sf)
    <2>1. PICK due, n \in Nat :
            /\ due = Due(obligations[u], rr, Current(rr).cumulative_borrow_rate_sf)
            /\ n = amount * RATE_SCALE /\ n >= RATE_SCALE
            /\ DebtIn(p, rr) = due - n
      <3>1. amount * RATE_SCALE \in Nat /\ amount * RATE_SCALE >= RATE_SCALE
        BY <1>8, ScaleAssumption DEF Seizure
      <3> QED BY <1>8, <3>1 DEF Seizure
    <2> QED BY <1>1, <2>1, ScaleAssumption DEF CanSeize
  <1> QED BY <1>8, <1>9 DEF Seizure

\* liquidate: what is seized leaves the vault, the slot and nobody's supply.
LEMMA SeizeInv ==
  ASSUME Inv, NEW liquidator \in Users, NEW u \in Enrolled, NEW rr \in Listed, NEW wr \in Listed,
         NEW a \in Amounts, Seize(liquidator, u, rr, wr, a)
  PROVE  Inv'
  <1>1. PICK amount : amount = ActualRepay(obligations[u], rr, Current(rr), a)
    OBVIOUS
  <1>2. PICK seized : seized = Seized(obligations[u], wr, amount, Current(rr), Current(wr))
    OBVIOUS
  <1>3. PICK p : p = liquidated(obligations[u], rr, wr, amount, seized, Current(rr))
    OBVIOUS
  <1>4. /\ amount \in Nat \ {0} /\ seized \in Nat \ {0} /\ Sound(p, reserves')
        /\ CollateralIn(p, wr) = CollateralIn(obligations[u], wr) - seized
        /\ \A q \in Reserves : q # wr => CollateralIn(p, q) = CollateralIn(obligations[u], q)
    BY <1>1, <1>2, <1>3, SeizeFacts
  <1>5. /\ ReservesStep /\ Listed' = Listed
        /\ reserves'[rr].available_amount = reserves[rr].available_amount + amount
        /\ \A x \in Listed : x # rr => reserves'[x].available_amount = reserves[x].available_amount
        /\ \A x \in Listed : reserves'[x].mint_total_supply = reserves[x].mint_total_supply
    BY <1>1, <1>4, SeizeReserves
  <1>6. /\ rr \in Reserves /\ wr \in Reserves
        /\ ctokens[liquidator][wr] \in Nat /\ collateral_vault[wr] \in Nat
    BY InvFacts
  <1>7. /\ seized <= collateral_vault[wr]
        /\ obligations' = [obligations EXCEPT ![u] = p]
        /\ liquidity_vault' = [liquidity_vault EXCEPT ![rr] = liquidity_vault[rr] + amount]
        /\ ctokens' = [ctokens EXCEPT ![liquidator][wr] = ctokens[liquidator][wr] - (-seized)]
        /\ collateral_vault' = [collateral_vault EXCEPT ![wr] = collateral_vault[wr] + (-seized)]
        /\ market' = market /\ slot' = slot
    <2>1. /\ ctokens' = [ctokens EXCEPT ![liquidator][wr] = ctokens[liquidator][wr] + seized]
          /\ collateral_vault' = [collateral_vault EXCEPT ![wr] = collateral_vault[wr] - seized]
      BY <1>1, <1>2, <1>6, InvFacts DEF Seize
    <2>2. /\ ctokens[liquidator][wr] + seized = ctokens[liquidator][wr] - (-seized)
          /\ collateral_vault[wr] - seized = collateral_vault[wr] + (-seized)
      BY <1>4, <1>6
    <2> QED BY <1>1, <1>2, <1>3, <2>1, <2>2, InvFacts DEF Seize
  <1>8. /\ ctokens' \in [Users -> [Reserves -> Nat]]
        /\ collateral_vault' \in [Reserves -> Nat]
        /\ \A q \in Reserves : CTokenSupply(q)' = CTokenSupply(q)
        /\ collateral_vault'[wr] = collateral_vault[wr] + (-seized)
        /\ \A q \in Reserves : q # wr => collateral_vault'[q] = collateral_vault[q]
    <2>1. /\ -seized \in Int /\ ctokens[liquidator][wr] - (-seized) >= 0
          /\ collateral_vault[wr] + (-seized) >= 0
      BY <1>4, <1>6, <1>7
    <2> QED BY ONLY Inv, liquidator \in Users, <1>6, <1>7, <2>1, CTokensLocked
  <1>9. \A q \in Reserves : CollateralIn(p, q) \in Nat /\ CollateralIn(obligations[u], q) \in Nat
    BY <1>4, InvFacts, CollateralNatural
  <1>10. CollateralInCustody'
    <2>1. ASSUME NEW q \in Reserves
          PROVE  /\ CollateralIn(p, q) \in Nat
                 /\ collateral_vault'[q]
                      = collateral_vault[q] - CollateralIn(obligations[u], q) + CollateralIn(p, q)
      <3>1. collateral_vault[q] \in Nat
        BY InvFacts
      <3> QED BY <1>4, <1>8, <1>9, <3>1
    <2> QED BY <1>7, <2>1, CustodyMoves
  <1>11. ObligationsStep /\ LockedOnlyInListed'
    <2>1. \A q \in Reserves \ Listed : CollateralIn(p, q) = 0
      BY <1>4 DEF Inv, LockedOnlyInListed
    <2> QED BY <1>4, <1>5, <1>7, <2>1, WriteObligation
  <1>12. /\ liquidity_vault' \in [Reserves -> Nat]
         /\ liquidity_vault'[rr] = liquidity_vault[rr] + amount
         /\ \A x \in Reserves : x # rr => liquidity_vault'[x] = liquidity_vault[x]
    BY <1>4, <1>6, <1>7, InvFacts
  <1>13. VaultsMatchBooks'
    BY <1>5, <1>6, <1>8, <1>12, SupplyFacts DEF VaultsMatchBooks
  <1> QED BY <1>5, <1>7, <1>8, <1>10, <1>11, <1>12, <1>13, InvFacts, StepInv DEF BalancesStep

\* A market just initialized.
LEMMA InitInv == Init => Inv
  <1> SUFFICES ASSUME Init PROVE Inv
    OBVIOUS
  <1>1. /\ slot = 1 /\ market = [owner |-> Owner, emergency_pause |-> FALSE]
        /\ Listed = {} /\ Enrolled = {} /\ reserves = << >> /\ obligations = << >>
        /\ liquidity_vault = [r \in Reserves |-> 0]
        /\ collateral_vault = [r \in Reserves |-> 0]
        /\ ctokens = [u \in Users |-> [r \in Reserves |-> 0]]
    BY DEF Init, Listed, Enrolled
  <1>2. 0 \in U64 /\ slot \in 1 .. MaxSlot
    BY <1>1, WidthAssumption, LendingAssumption, Widths DEF U64
  <1>3. /\ reserves \in [Listed -> ReserveType] /\ obligations \in [Enrolled -> ObligationType]
    BY <1>1
  <1>4. TypeOK
    BY <1>1, <1>2, <1>3, LendingAssumption DEF TypeOK
  <1>5. CollateralInCustody
    <2>1. ASSUME NEW f
          PROVE  Total(f, {}) = 0
      BY FS_EmptySet, TotalStep
    <2> QED BY <1>1, <2>1, SumIsTotal DEF CollateralInCustody
  <1>6. VaultsMatchBooks
    <2> SUFFICES ASSUME NEW r \in Reserves
                 PROVE  CTokenSupply(r) = 0 /\ liquidity_vault[r] = 0
      BY <1>1 DEF VaultsMatchBooks
    <2> DEFINE f == [u \in Users |-> ctokens[u][r]]
    <2>1. \A u \in Users : f[u] = 0
      BY <1>1
    <2>2. CTokenSupply(r) = 0 + Total(f, Users)
      BY <1>1, SumIsTotal DEF CTokenSupply
    <2> HIDE DEF f
    <2>3. Total(f, Users) = 0
      BY <2>1, LendingAssumption, TotalZero
    <2> QED BY <1>1, <2>2, <2>3
  <1> QED BY <1>1, <1>4, <1>5, <1>6
          DEF Inv, ReservesSound, ObligationsSound, LockedOnlyInListed

(***************************************************************************)
(* The invariant always holds, and what follows from it.                   *)
(***************************************************************************)

\* Every instruction, and the clock, keeps the invariant.
LEMMA NextInv ==
  ASSUME Inv, [Next]_vars
  PROVE  Inv'
  <1>1. ASSUME NEW u \in Users, UserStep(u) PROVE Inv'
    <2>1. CASE InitObligation(u)
      BY <2>1, InitObligationInv
    <2>2. ASSUME NEW r \in Listed, NEW a \in Amounts, Deposit(u, r, a) PROVE Inv'
      BY <2>2, DepositInv
    <2>3. ASSUME NEW r \in Listed, NEW a \in Amounts, Withdraw(u, r, a) PROVE Inv'
      BY <2>3, WithdrawInv
    <2>4. ASSUME NEW v \in Enrolled, NEW rr \in Listed, NEW wr \in Listed, NEW a \in Amounts,
                 Liquidate(u, v, rr, wr, a)
          PROVE  Inv'
      BY <2>4, SeizeInv DEF Liquidate
    <2> QED BY <1>1, <2>1, <2>2, <2>3, <2>4 DEF UserStep
  <1>2. ASSUME NEW u \in Enrolled, ObligationStep(u) PROVE Inv'
    <2>1. CASE RefreshObligation(u)
      BY <2>1, RefreshObligationInv
    <2>2. ASSUME NEW r \in Listed, NEW a \in Amounts, DepositCollateral(u, r, a) PROVE Inv'
      BY <2>2, DepositCollateralInv
    <2>3. ASSUME NEW r \in Listed, NEW a \in Amounts, WithdrawCollateral(u, r, a) PROVE Inv'
      BY <2>3, WithdrawCollateralInv
    <2>4. ASSUME NEW r \in Listed, NEW a \in Amounts, Borrow(u, r, a) PROVE Inv'
      BY <2>4, LendInv DEF Borrow
    <2>5. ASSUME NEW r \in Listed, NEW a \in Amounts, Repay(u, r, a) PROVE Inv'
      BY <2>5, RepayInv
    <2> QED BY <1>2, <2>1, <2>2, <2>3, <2>4, <2>5 DEF ObligationStep
  <1>3. ASSUME OwnerStep PROVE Inv'
    <2>1. ASSUME NEW r \in Reserves, NEW c \in Configs, AddReserve(r, c) PROVE Inv'
      BY <2>1, AddReserveInv
    <2>2. ASSUME NEW paused \in BOOLEAN, SetPause(paused) PROVE Inv'
      BY <2>2, InvFacts, NothingMoves DEF SetPause
    <2>3. ASSUME NEW key \in Authorities, UpdateMarketAuthority(key) PROVE Inv'
      BY <2>3, InvFacts, NothingMoves DEF UpdateMarketAuthority
    <2>4. ASSUME NEW r \in Listed, NEW c \in Configs, UpdateReserveConfig(r, c) PROVE Inv'
      BY <2>4, UpdateReserveConfigInv
    <2> QED BY <1>3, <2>1, <2>2, <2>3, <2>4 DEF OwnerStep
  <1>4. ASSUME NEW r \in Listed, NEW m \in Messages, RefreshReserve(r, m) PROVE Inv'
    BY <1>4, RefreshReserveInv
  <1>5. ASSUME Tick PROVE Inv'
    <2>1. slot' \in 1 .. MaxSlot
      BY <1>5, InvFacts, LendingAssumption, Widths DEF Tick
    <2> QED BY <1>5, <2>1, InvFacts, NothingMoves DEF Tick, accounts
  <1>6. ASSUME UNCHANGED vars PROVE Inv'
    BY <1>6, InvFacts, NothingMoves DEF vars, balances
  <1> QED BY <1>1, <1>2, <1>3, <1>4, <1>5, <1>6 DEF Next

\* The invariant is inductive, so it always holds.
LEMMA Invariance == Spec => []Inv
  <1>1. Init => Inv
    BY InitInv
  <1>2. Inv /\ [Next]_vars => Inv'
    BY NextInv
  <1> QED BY <1>1, <1>2, PTL DEF Spec

\* Accounts, balances and the clock always have their types: every amount fits
\* its field, and every configuration stored has been validated.
THEOREM TypeCorrect == Spec => []TypeOK
  <1>1. Inv => TypeOK
    BY DEF Inv
  <1> QED BY <1>1, Invariance, PTL

\* The collateral vaults always hold exactly what the obligations have locked,
\* however many users deposit, release and seize in whichever order.
THEOREM Custody == Spec => []CollateralInCustody
  <1>1. Inv => CollateralInCustody
    BY DEF Inv
  <1> QED BY <1>1, Invariance, PTL

\* Tokens and books never part: each vault holds its reserve's available_amount,
\* and the cTokens in all accounts are the mint_total_supply of the reserve.
THEOREM BooksMatch == Spec => []VaultsMatchBooks
  <1>1. Inv => VaultsMatchBooks
    BY DEF Inv
  <1> QED BY <1>1, Invariance, PTL

\* A debt's snapshot is an earlier value of its reserve's index.
LEMMA InvSnapshots == Inv => SnapshotsBehind
  <1> SUFFICES ASSUME Inv, NEW u \in Enrolled, NEW i \in Active(obligations[u].borrows)
               PROVE  obligations[u].borrows[i].cumulative_borrow_rate_sf
                        \in RATE_SCALE .. reserves[obligations[u].borrows[i].reserve]
                                            .cumulative_borrow_rate_sf
    BY DEF SnapshotsBehind
  <1>1. Sound(obligations[u], reserves)
    BY InvFacts
  <1>2. i \in BorrowSlots /\ obligations[u].borrows[i].reserve # NoReserve
    BY <1>1, SoundParts DEF Active
  <1> QED BY <1>1, <1>2 DEF Sound, BorrowsOK, DebtOK

\* No snapshot ever gets ahead of its reserve's index, so accrue_interest never
\* refuses a debt for a rate that has decreased.
THEOREM DebtsPayable == Spec => []SnapshotsBehind
  BY InvSnapshots, Invariance, PTL

\* The liquidity that belongs to the depositors of a reserve, idle or lent, is at
\* least a unit for each of the cTokens in the users' accounts and the vaults.
EveryCTokenBacked == \A r \in Listed : CTokenSupply(r) <= total_supply(reserves[r])

\* The books say how many cTokens there are, and a sound reserve backs its books.
LEMMA InvBacked == Inv => EveryCTokenBacked
  <1> SUFFICES ASSUME Inv, NEW r \in Listed PROVE CTokenSupply(r) <= total_supply(reserves[r])
    BY DEF EveryCTokenBacked
  <1>1. SoundReserve(reserves[r]) /\ r \in Reserves
    BY InvFacts
  <1>2. CTokenSupply(r) = reserves[r].mint_total_supply
    BY <1>1 DEF Inv, VaultsMatchBooks
  <1> QED BY <1>1, <1>2 DEF SoundReserve, Backed

\* Every cToken of the market is backed, however the instructions of its users and
\* owner are mixed: what Solvency says of one reserve, with the cTokens counted.
THEOREM Solvent == Spec => []EveryCTokenBacked
  BY InvBacked, Invariance, PTL

(***************************************************************************)
(* The emergency pause.                                                    *)
(***************************************************************************)

\* The step FrozenWhilePaused asks for.
FrozenStep ==
  market.emergency_pause =>
    /\ Listed' = Listed
    /\ \A r \in Listed :
         /\ liquidity_vault'[r] >= liquidity_vault[r]
         /\ reserves'[r].mint_total_supply = reserves[r].mint_total_supply
    /\ collateral_vault' = collateral_vault
    /\ ctokens' = ctokens
    /\ \A u \in Enrolled :
         obligations'[u].borrows_count <= obligations[u].borrows_count

\* No cToken account changes, so the books' supplies cannot either.
LEMMA FrozenFromParts ==
  ASSUME Inv, Inv', Listed' = Listed,
         \A r \in Listed : liquidity_vault'[r] >= liquidity_vault[r],
         UNCHANGED <<collateral_vault, ctokens>>,
         \A u \in Enrolled : obligations'[u].borrows_count <= obligations[u].borrows_count
  PROVE  FrozenStep
  <1>1. ASSUME NEW r \in Listed
        PROVE  reserves'[r].mint_total_supply = reserves[r].mint_total_supply
    <2>1. r \in Reserves /\ CTokenSupply(r)' = CTokenSupply(r)
      BY InvFacts, SupplySame
    <2>2. reserves[r].mint_total_supply = CTokenSupply(r)
      BY <2>1 DEF Inv, VaultsMatchBooks
    <2>3. reserves'[r].mint_total_supply = CTokenSupply(r)'
      BY <2>1 DEF Inv, VaultsMatchBooks
    <2> QED BY <2>1, <2>2, <2>3
  <1> QED BY <1>1 DEF FrozenStep

\* One obligation is written, with no more slots of debt than before.
LEMMA CountsKept ==
  ASSUME Inv, NEW u \in Enrolled, NEW p, obligations' = [obligations EXCEPT ![u] = p],
         p.borrows_count <= obligations[u].borrows_count
  PROVE  \A v \in Enrolled : obligations'[v].borrows_count <= obligations[v].borrows_count
  <1>1. /\ \A v \in Enrolled : obligations[v].borrows_count \in Nat
        /\ obligations'[u] = p
        /\ \A v \in Enrolled : v # u => obligations'[v] = obligations[v]
    BY InvFacts, SoundParts, Widths
  <1> QED BY <1>1

\* What a repayment does to the obligation.
LEMMA RepayCounts ==
  ASSUME Inv, NEW u \in Enrolled, NEW r \in Listed, NEW a \in Amounts, Repay(u, r, a),
         NEW p, p = repay_debt(obligations[u], r, a, Current(r))
  PROVE  /\ p.borrows_count <= obligations[u].borrows_count
         /\ SameCollateral(obligations[u], p)
  <1>1. a \in Nat /\ r \in Reserves /\ CanRepayDebt(obligations[u], r, a, Current(r))
    BY AmountType, InvFacts DEF Repay
  <1>2. PICK q : q = repay(Current(r), a)
    OBVIOUS
  <1>3. /\ Accrues(r) /\ reserves' = [reserves EXCEPT ![r] = q] /\ CanRepay(Current(r), a)
    BY <1>2 DEF Repay
  <1>4. /\ Later(reserves[r], q)
        /\ q.cumulative_borrow_rate_sf = Current(r).cumulative_borrow_rate_sf
    BY <1>1, <1>2, <1>3, CurrentLater, LaterRepaid
  <1>5. ReservesStep /\ reserves'[r] = q
    BY <1>3, <1>4, WriteReserve
  <1>6. IndexWithin(reserves', r, Current(r).cumulative_borrow_rate_sf)
    BY <1>3, <1>4, <1>5, IndexReached
  <1>7. Sound(obligations[u], reserves')
    BY <1>5, StillSound
  <1> QED BY <1>1, <1>6, <1>7, RepaidDebt

\* Each instruction that a pause does not stop.
LEMMA FrozenNext ==
  ASSUME Inv, Inv', [Next]_vars
  PROVE  FrozenStep
  <1> SUFFICES ASSUME market.emergency_pause PROVE FrozenStep
    BY DEF FrozenStep
  <1>0. /\ \A u \in Enrolled : obligations[u].borrows_count \in Nat
        /\ \A r \in Listed : liquidity_vault[r] \in Nat /\ r \in Reserves
    BY InvFacts, SoundParts, Widths
  <1>1. ASSUME NEW u \in Users, UserStep(u) PROVE FrozenStep
    <2>1. CASE InitObligation(u)
      <3>1. /\ Listed' = Listed /\ liquidity_vault' = liquidity_vault
            /\ UNCHANGED <<collateral_vault, ctokens>>
            /\ \A v \in Enrolled : obligations'[v] = obligations[v]
        BY <2>1 DEF InitObligation, balances, Listed, Enrolled
      <3> QED BY <1>0, <3>1, FrozenFromParts
    <2> QED BY <1>1, <2>1 DEF UserStep, Deposit, Withdraw, Liquidate, Open
  <1>2. ASSUME NEW u \in Enrolled, ObligationStep(u) PROVE FrozenStep
    <2>1. CASE RefreshObligation(u)
      <3>1. PICK p : p = refresh_obligation(obligations[u], reserves, slot)
        OBVIOUS
      <3>2. /\ CanRefreshObligation(obligations[u], reserves)
            /\ obligations' = [obligations EXCEPT ![u] = p]
            /\ Listed' = Listed /\ liquidity_vault' = liquidity_vault
            /\ UNCHANGED <<collateral_vault, ctokens>>
        BY <2>1, <3>1 DEF RefreshObligation, balances, Listed
      <3>3. p.borrows_count = obligations[u].borrows_count
        BY <3>1, <3>2, RefreshedHere
      <3>4. \A v \in Enrolled : obligations'[v].borrows_count <= obligations[v].borrows_count
        BY <1>0, <3>2, <3>3, CountsKept
      <3> QED BY <1>0, <3>2, <3>4, FrozenFromParts
    <2>2. ASSUME NEW r \in Listed, NEW a \in Amounts, Repay(u, r, a) PROVE FrozenStep
      <3>1. PICK p : p = repay_debt(obligations[u], r, a, Current(r))
        OBVIOUS
      <3>2. /\ CanRepayDebt(obligations[u], r, a, Current(r)) /\ Accrues(r)
            /\ obligations' = [obligations EXCEPT ![u] = p]
            /\ Listed' = Listed
            /\ liquidity_vault' = [liquidity_vault EXCEPT ![r] = liquidity_vault[r] + a]
            /\ UNCHANGED <<collateral_vault, ctokens>>
        BY <2>2, <3>1, InvFacts DEF Repay, Listed
      <3>3. a \in Nat
        BY AmountType
      <3>4. \A q \in Listed : liquidity_vault'[q] >= liquidity_vault[q]
        BY <1>0, <3>2, <3>3, InvFacts
      <3>5. p.borrows_count <= obligations[u].borrows_count
        BY <2>2, <3>1, RepayCounts
      <3>6. \A v \in Enrolled : obligations'[v].borrows_count <= obligations[v].borrows_count
        BY <3>2, <3>5, CountsKept
      <3> QED BY <3>2, <3>4, <3>6, FrozenFromParts
    <2> QED BY <1>2, <2>1, <2>2
            DEF ObligationStep, DepositCollateral, WithdrawCollateral, Borrow, Open
  <1>3. ASSUME UNCHANGED <<Listed, liquidity_vault, collateral_vault, ctokens, obligations>>
        PROVE  FrozenStep
    BY <1>0, <1>3, FrozenFromParts
  <1>4. ASSUME OwnerStep PROVE FrozenStep
    <2>1. ASSUME NEW r \in Listed, NEW c \in Configs, UpdateReserveConfig(r, c)
          PROVE  FrozenStep
      BY <1>3, <2>1 DEF UpdateReserveConfig, Listed, balances
    <2> QED BY <1>3, <1>4, <2>1
            DEF OwnerStep, AddReserve, Open, SetPause, UpdateMarketAuthority, Listed, balances
  <1>5. ASSUME NEW r \in Listed, NEW m \in Messages, RefreshReserve(r, m) PROVE FrozenStep
    BY <1>3, <1>5 DEF RefreshReserve, Listed, balances
  <1>6. ASSUME Tick \/ UNCHANGED vars PROVE FrozenStep
    BY <1>3, <1>6 DEF Tick, vars, Listed, accounts, balances
  <1> QED BY <1>1, <1>2, <1>4, <1>5, <1>6 DEF Next

\* While the market is paused nothing is paid out or issued, nobody's collateral
\* moves and no slot of debt is opened; what is left to do is to repay, to
\* refresh and to administer.
THEOREM PauseFreezes == Spec => FrozenWhilePaused
  <1>1. Inv /\ Inv' /\ [Next]_vars => FrozenStep
    BY FrozenNext
  <1> QED BY <1>1, Invariance, PTL DEF Spec, FrozenWhilePaused, FrozenStep

(***************************************************************************)
(* Risk only on fresh values.                                              *)
(***************************************************************************)

\* The step RiskOnlyAfterRefresh asks for.
RiskStep ==
  \A u \in Enrolled, r \in Reserves :
    \/ /\ liquidity_vault'[r] < liquidity_vault[r]
       /\ obligations'[u] # obligations[u]
    \/ CollateralIn(obligations'[u], r) < CollateralIn(obligations[u], r)
    => obligations[u].slot = slot

\* A step in which u's obligation gains nothing, or whose values are fresh.
TakesNothing(u) ==
  \A r \in Reserves :
    /\ CollateralIn(obligations'[u], r) >= CollateralIn(obligations[u], r)
    /\ liquidity_vault'[r] >= liquidity_vault[r]
Cautious(u) ==
  \/ obligations[u].slot = slot
  \/ obligations'[u] = obligations[u]
  \/ TakesNothing(u)

\* A step that is cautious with every obligation.
LEMMA RiskFromParts ==
  ASSUME Inv, Inv', \A u \in Enrolled : u \in Enrolled' /\ Cautious(u)
  PROVE  RiskStep
  <1>1. ASSUME NEW u \in Enrolled, NEW r \in Reserves
        PROVE  /\ liquidity_vault[r] \in Nat /\ liquidity_vault'[r] \in Nat
               /\ CollateralIn(obligations[u], r) \in Nat
               /\ CollateralIn(obligations'[u], r) \in Nat
    <2>1. liquidity_vault[r] \in Nat /\ liquidity_vault'[r] \in Nat
      BY Widths DEF Inv, TypeOK
    <2>2. Sound(obligations[u], reserves) /\ Sound(obligations'[u], reserves')
      BY DEF Inv, ObligationsSound
    <2> QED BY <2>1, <2>2, CollateralNatural
  <1>2. ASSUME NEW u \in Enrolled, NEW r \in Reserves,
               \/ /\ liquidity_vault'[r] < liquidity_vault[r]
                  /\ obligations'[u] # obligations[u]
               \/ CollateralIn(obligations'[u], r) < CollateralIn(obligations[u], r)
        PROVE  obligations[u].slot = slot
    <2>1. CASE obligations'[u] = obligations[u]
      BY <1>1, <1>2, <2>1
    <2>2. CASE TakesNothing(u)
      BY <1>1, <1>2, <2>2 DEF TakesNothing
    <2> QED BY <2>1, <2>2 DEF Cautious
  <1> QED BY <1>2 DEF RiskStep

\* One obligation is written, and the step is cautious with that one.
LEMMA OthersCautious ==
  ASSUME Inv, Inv', NEW u \in Enrolled, NEW p, obligations' = [obligations EXCEPT ![u] = p],
         Cautious(u)
  PROVE  RiskStep
  <1>1. \A v \in Enrolled : v \in Enrolled' /\ (v # u => obligations'[v] = obligations[v])
    BY InvFacts DEF Enrolled
  <1> QED BY <1>1, RiskFromParts DEF Cautious

\* A step that writes no obligation takes no risk with one.
LEMMA UntouchedCautious ==
  ASSUME Inv, Inv', obligations' = obligations
  PROVE  RiskStep
  BY RiskFromParts DEF Cautious, Enrolled

\* Each instruction.
LEMMA RiskNext ==
  ASSUME Inv, Inv', [Next]_vars
  PROVE  RiskStep
  <1>1. ASSUME NEW u \in Users, UserStep(u) PROVE RiskStep
    <2>1. CASE InitObligation(u)
      BY <2>1, RiskFromParts DEF InitObligation, Cautious, Enrolled
    <2>2. ASSUME NEW v \in Enrolled, NEW rr \in Listed, NEW wr \in Listed, NEW a \in Amounts,
                 Liquidate(u, v, rr, wr, a)
          PROVE  RiskStep
      <3>1. PICK p : obligations' = [obligations EXCEPT ![v] = p]
        BY <2>2 DEF Liquidate, Seize
      <3>2. Cautious(v)
        BY <2>2 DEF Liquidate, Seize, CanSeize, is_slot_stale, Cautious
      <3> QED BY <3>1, <3>2, OthersCautious
    <2> QED BY <1>1, <2>1, <2>2, UntouchedCautious DEF UserStep, Deposit, Withdraw
  <1>2. ASSUME NEW u \in Enrolled, ObligationStep(u) PROVE RiskStep
    <2>0. /\ Sound(obligations[u], reserves)
          /\ \A r \in Reserves : CollateralIn(obligations[u], r) \in Nat
          /\ \A r \in Reserves : liquidity_vault[r] \in Nat
      BY InvFacts, CollateralNatural
    <2>1. CASE RefreshObligation(u)
      <3>1. PICK p : p = refresh_obligation(obligations[u], reserves, slot)
        OBVIOUS
      <3>2. /\ CanRefreshObligation(obligations[u], reserves)
            /\ obligations' = [obligations EXCEPT ![u] = p] /\ obligations'[u] = p
            /\ liquidity_vault' = liquidity_vault
        BY <2>1, <3>1, InvFacts DEF RefreshObligation, balances
      <3>3. \A r : CollateralIn(p, r) = CollateralIn(obligations[u], r)
        BY <3>1, <3>2, RefreshedHere
      <3>4. Cautious(u)
        BY <2>0, <3>2, <3>3 DEF Cautious, TakesNothing
      <3> QED BY <3>2, <3>4, OthersCautious
    <2>2. ASSUME NEW r \in Listed, NEW a \in Amounts, DepositCollateral(u, r, a)
          PROVE  RiskStep
      <3>1. PICK p : p = deposit(obligations[u], r, a)
        OBVIOUS
      <3>2. /\ CanDeposit(obligations[u], r, a) /\ liquidity_vault' = liquidity_vault
            /\ obligations' = [obligations EXCEPT ![u] = p] /\ obligations'[u] = p
        BY <2>2, <3>1, InvFacts DEF DepositCollateral
      <3>3. a \in Nat /\ r \in Reserves
        BY AmountType, InvFacts
      <3>4. /\ CollateralIn(p, r) = CollateralIn(obligations[u], r) + a
            /\ \A q \in Reserves : q # r => CollateralIn(p, q) = CollateralIn(obligations[u], q)
        BY <2>0, <3>1, <3>2, <3>3, Deposited
      <3>5. Cautious(u)
        BY <2>0, <3>2, <3>3, <3>4 DEF Cautious, TakesNothing
      <3> QED BY <3>2, <3>5, OthersCautious
    <2>3. ASSUME NEW r \in Listed, NEW a \in Amounts, WithdrawCollateral(u, r, a)
          PROVE  RiskStep
      <3>1. PICK p : obligations' = [obligations EXCEPT ![u] = p]
        BY <2>3 DEF WithdrawCollateral
      <3>2. Cautious(u)
        BY <2>3 DEF WithdrawCollateral, CanReleaseCollateral, is_slot_stale, Cautious
      <3> QED BY <3>1, <3>2, OthersCautious
    <2>4. ASSUME NEW r \in Listed, NEW a \in Amounts, Borrow(u, r, a)
          PROVE  RiskStep
      <3>1. PICK p : obligations' = [obligations EXCEPT ![u] = p]
        BY <2>4 DEF Borrow, Lend
      <3>2. Cautious(u)
        BY <2>4 DEF Borrow, is_slot_stale, Cautious
      <3> QED BY <3>1, <3>2, OthersCautious
    <2>5. ASSUME NEW r \in Listed, NEW a \in Amounts, Repay(u, r, a)
          PROVE  RiskStep
      <3>1. PICK p : p = repay_debt(obligations[u], r, a, Current(r))
        OBVIOUS
      <3>2. /\ obligations' = [obligations EXCEPT ![u] = p] /\ obligations'[u] = p
            /\ liquidity_vault' = [liquidity_vault EXCEPT ![r] = liquidity_vault[r] + a]
        BY <2>5, <3>1, InvFacts DEF Repay
      <3>3. a \in Nat
        BY AmountType
      <3>4. \A q \in Reserves : liquidity_vault'[q] >= liquidity_vault[q]
        BY <2>0, <3>2, <3>3, InvFacts
      <3>5. \A q : CollateralIn(p, q) = CollateralIn(obligations[u], q)
        BY <2>5, <3>1, RepayCounts, SameCollateralIn
      <3>6. Cautious(u)
        BY <2>0, <3>2, <3>4, <3>5 DEF Cautious, TakesNothing
      <3> QED BY <3>2, <3>6, OthersCautious
    <2> QED BY <1>2, <2>1, <2>2, <2>3, <2>4, <2>5 DEF ObligationStep
  <1>3. ASSUME OwnerStep PROVE RiskStep
    BY <1>3, UntouchedCautious
       DEF OwnerStep, AddReserve, SetPause, UpdateMarketAuthority, UpdateReserveConfig
  <1>4. ASSUME NEW r \in Listed, NEW m \in Messages, RefreshReserve(r, m) PROVE RiskStep
    BY <1>4, UntouchedCautious DEF RefreshReserve
  <1>5. ASSUME Tick \/ UNCHANGED vars PROVE RiskStep
    BY <1>5, UntouchedCautious DEF Tick, vars, accounts
  <1> QED BY <1>1, <1>2, <1>3, <1>4, <1>5 DEF Next

\* Debt is taken on and collateral released or seized only from an obligation
\* that was refreshed in this very slot.
THEOREM RiskOnFreshValues == Spec => RiskOnlyAfterRefresh
  <1>1. Inv /\ Inv' /\ [Next]_vars => RiskStep
    BY RiskNext
  <1> QED BY <1>1, Invariance, PTL DEF Spec, RiskOnlyAfterRefresh, RiskStep

(***************************************************************************)
(* Each reserve of the market is a Reserve.                                *)
(***************************************************************************)

\* The instance's arithmetic is this module's.
LEMMA SameArithmetic ==
  ASSUME NEW r
  PROVE  /\ \A a, b, d : OneReserve(r)!MulDiv(a, b, d) = MulDiv(a, b, d)
         /\ \A a, b : OneReserve(r)!CanMul(a, b) = CanMul(a, b)
         /\ \A a, b : OneReserve(r)!SaturatingSub(a, b) = SaturatingSub(a, b)
         /\ \A x : OneReserve(r)!AsU64(x) = AsU64(x)
         /\ \A x : OneReserve(r)!AsU16(x) = AsU16(x)
         /\ OneReserve(r)!BPS_SCALER = BPS_SCALER
         /\ OneReserve(r)!PERCENT_SCALER = PERCENT_SCALER
  BY DEF OneReserve!MulDiv, MulDiv, OneReserve!CanMul, CanMul, OneReserve!SaturatingSub,
         SaturatingSub, OneReserve!AsU64, AsU64, OneReserve!AsU16, AsU16,
         OneReserve!BPS_SCALER, BPS_SCALER, OneReserve!PERCENT_SCALER, PERCENT_SCALER

\* So is its exchange rate,
LEMMA SameRate ==
  ASSUME NEW r, NEW q
  PROVE  /\ OneReserve(r)!total_supply(q) = total_supply(q)
         /\ OneReserve(r)!CanTotalSupply(q) = CanTotalSupply(q)
         /\ OneReserve(r)!TotalSupplyOrZero(q) = TotalSupplyOrZero(q)
         /\ OneReserve(r)!RateSupply(q) = RateSupply(q)
         /\ OneReserve(r)!RateLiquidity(q) = RateLiquidity(q)
         /\ \A c : OneReserve(r)!collateral_to_liquidity(q, c) = collateral_to_liquidity(q, c)
         /\ \A a : OneReserve(r)!liquidity_to_collateral(q, a) = liquidity_to_collateral(q, a)
  <1>1. /\ OneReserve(r)!total_supply(q) = total_supply(q)
        /\ OneReserve(r)!CanTotalSupply(q) = CanTotalSupply(q)
    BY DEF OneReserve!total_supply, total_supply, OneReserve!CanTotalSupply, CanTotalSupply
  <1>2. OneReserve(r)!TotalSupplyOrZero(q) = TotalSupplyOrZero(q)
    BY <1>1 DEF OneReserve!TotalSupplyOrZero, TotalSupplyOrZero
  <1>3. /\ OneReserve(r)!RateSupply(q) = RateSupply(q)
        /\ OneReserve(r)!RateLiquidity(q) = RateLiquidity(q)
    BY <1>2 DEF OneReserve!AtPar, AtPar, OneReserve!RateSupply, RateSupply,
                OneReserve!RateLiquidity, RateLiquidity
  <1>4. /\ \A c : OneReserve(r)!collateral_to_liquidity(q, c) = collateral_to_liquidity(q, c)
        /\ \A a : OneReserve(r)!liquidity_to_collateral(q, a) = liquidity_to_collateral(q, a)
    BY <1>3, SameArithmetic DEF OneReserve!collateral_to_liquidity, collateral_to_liquidity,
                OneReserve!liquidity_to_collateral, liquidity_to_collateral
  <1> QED BY <1>1, <1>2, <1>3, <1>4

\* its accrual,
LEMMA SameInterest ==
  ASSUME NEW r, NEW q, NEW s
  PROVE  /\ OneReserve(r)!CanAccrue(q, s) = CanAccrue(q, s)
         /\ OneReserve(r)!accrue_interest(q, s) = accrue_interest(q, s)
  <1>1. OneReserve(r)!utilization_rate(q) = utilization_rate(q)
    BY SameArithmetic, SameRate DEF OneReserve!utilization_rate, utilization_rate
  <1>2. \A c, u : OneReserve(r)!borrow_rate(c, u) = borrow_rate(c, u)
    BY SameArithmetic DEF OneReserve!borrow_rate, borrow_rate, OneReserve!CurvePoint, CurvePoint
  <1>3. OneReserve(r)!current_borrow_rate(q) = current_borrow_rate(q)
    BY <1>1, <1>2, SameArithmetic DEF OneReserve!current_borrow_rate, current_borrow_rate
  <1>4. /\ \A b, e : OneReserve(r)!PeriodRate(b, e) = PeriodRate(b, e)
        /\ \A x : OneReserve(r)!DebtAccrued(q, x) = DebtAccrued(q, x)
        /\ \A x : OneReserve(r)!RateAccrued(q, x) = RateAccrued(q, x)
    BY SameArithmetic DEF OneReserve!PeriodRate, PeriodRate, OneReserve!DebtAccrued, DebtAccrued,
                          OneReserve!RateAccrued, RateAccrued
  <1>5. \A x : OneReserve(r)!FeeAccrued(q, x) = FeeAccrued(q, x)
    BY <1>4, SameArithmetic DEF OneReserve!FeeAccrued, FeeAccrued
  <1>6. \A x : OneReserve(r)!WithInterest(q, x) = WithInterest(q, x)
    BY <1>4, <1>5 DEF OneReserve!WithInterest, WithInterest
  <1>7. \A b, e : OneReserve(r)!CanAddInterest(q, b, e) = CanAddInterest(q, b, e)
    BY <1>4, <1>5, SameArithmetic DEF OneReserve!CanAddInterest, CanAddInterest
  <1>8. OneReserve(r)!SlotsElapsed(q, s) = SlotsElapsed(q, s)
    BY SameArithmetic DEF OneReserve!SlotsElapsed, SlotsElapsed
  <1>9. OneReserve(r)!CanAccrue(q, s) = CanAccrue(q, s)
    BY <1>1, <1>3, <1>7, <1>8, SameArithmetic, SameRate DEF OneReserve!CanAccrue, CanAccrue
  <1>10. OneReserve(r)!accrue_interest(q, s) = accrue_interest(q, s)
    BY <1>3, <1>4, <1>6, <1>8 DEF OneReserve!accrue_interest, accrue_interest
  <1> QED BY <1>9, <1>10

\* and each method of the account.
LEMMA SameMethods ==
  ASSUME NEW r, NEW q
  PROVE  /\ OneReserve(r)!is_active(q) = is_active(q)
         /\ \A a : OneReserve(r)!CanDepositLiquidity(q, a) = CanDepositLiquidity(q, a)
         /\ \A a : OneReserve(r)!deposit_liquidity(q, a) = deposit_liquidity(q, a)
         /\ \A a : OneReserve(r)!CanRedeemCollateral(q, a) = CanRedeemCollateral(q, a)
         /\ \A a : OneReserve(r)!redeem_collateral(q, a) = redeem_collateral(q, a)
         /\ \A a : OneReserve(r)!CanBorrow(q, a) = CanBorrow(q, a)
         /\ \A a : OneReserve(r)!borrow(q, a) = borrow(q, a)
         /\ \A a : OneReserve(r)!CanRepay(q, a) = CanRepay(q, a)
         /\ \A a : OneReserve(r)!repay(q, a) = repay(q, a)
         /\ \A c : OneReserve(r)!validate(c) = validate(c)
         /\ \A c, s : OneReserve(r)!NewReserve(c, s) = NewReserve(c, s)
  <1>1. /\ OneReserve(r)!is_active(q) = is_active(q)
        /\ \A c, s : OneReserve(r)!NewReserve(c, s) = NewReserve(c, s)
    BY DEF OneReserve!is_active, is_active, OneReserve!NewReserve, NewReserve
  <1>2. \A c : OneReserve(r)!validate(c) = validate(c)
    BY DEF OneReserve!validate, validate, OneReserve!MAX_LIQUIDATION_THRESHOLD_PCT,
           MAX_LIQUIDATION_THRESHOLD_PCT, OneReserve!MAX_UTILIZATION_BPS, MAX_UTILIZATION_BPS,
           OneReserve!MAX_PROTOCOL_FEE_BPS, MAX_PROTOCOL_FEE_BPS
  <1>3. /\ \A a : OneReserve(r)!CanDepositLiquidity(q, a) = CanDepositLiquidity(q, a)
        /\ \A a : OneReserve(r)!deposit_liquidity(q, a) = deposit_liquidity(q, a)
    BY SameArithmetic, SameRate
       DEF OneReserve!CanDepositLiquidity, CanDepositLiquidity,
           OneReserve!deposit_liquidity, deposit_liquidity
  <1>4. /\ \A a : OneReserve(r)!CanRedeemCollateral(q, a) = CanRedeemCollateral(q, a)
        /\ \A a : OneReserve(r)!redeem_collateral(q, a) = redeem_collateral(q, a)
    BY SameArithmetic, SameRate
       DEF OneReserve!CanRedeemCollateral, CanRedeemCollateral,
           OneReserve!redeem_collateral, redeem_collateral
  <1>5. /\ \A a : OneReserve(r)!CanBorrow(q, a) = CanBorrow(q, a)
        /\ \A a : OneReserve(r)!borrow(q, a) = borrow(q, a)
    BY DEF OneReserve!CanBorrow, CanBorrow, OneReserve!borrow_limit_crossed,
           borrow_limit_crossed, OneReserve!borrow, borrow
  <1>6. /\ \A a : OneReserve(r)!CanRepay(q, a) = CanRepay(q, a)
        /\ \A a : OneReserve(r)!repay(q, a) = repay(q, a)
    BY DEF OneReserve!CanRepay, CanRepay, OneReserve!repay, repay
  <1> QED BY <1>1, <1>2, <1>3, <1>4, <1>5, <1>6

\* The amounts of a reserve of the market: those of its users, and what a
\* handler cuts them down to.
OneAmounts == {a \in U64 \ {0} : \E b \in Amounts : a <= b}

\* An amount a handler cuts down is one a reserve may be called with.
LEMMA WithinAmounts ==
  ASSUME NEW a \in Amounts, NEW b \in Nat \ {0}, b <= a
  PROVE  b \in OneAmounts
  <1>1. a \in Nat /\ a <= MAX_U64 /\ MAX_U64 \in Nat
    BY LendingAssumption, WidthAssumption DEF U64
  <1>2. b \in U64
    BY <1>1 DEF U64
  <1> QED BY <1>2 DEF OneAmounts

\* What the market passes each reserve is what Reserve assumes of its constants,
\* so what is proved of Reserve is true of every reserve of the market.
LEMMA ReserveParameters ==
  /\ OneAmounts \subseteq U64 \ {0}
  /\ {pyth_price_sf(m) : m \in Messages} \cap U128 \subseteq U128
  /\ {s * SlotSeconds - m.publish_time : s \in 1 .. MaxSlot, m \in Messages} \subseteq Int
  /\ Configs \subseteq ConfigType
  /\ MaxSlot \in U64 \ {0}
  /\ 0 \in Nat
  <1>1. OneAmounts \subseteq U64 \ {0}
    BY DEF OneAmounts
  <1>2. \A s \in 1 .. MaxSlot, m \in Messages : s * SlotSeconds - m.publish_time \in Int
    BY LendingAssumption DEF MessageType
  <1> QED BY <1>1, <1>2, LendingAssumption

\* The reserve a handler sees.
LEMMA SameCurrent ==
  ASSUME NEW r
  PROVE  /\ OneReserve(r)!Current = Current(r)
         /\ OneReserve(r)!CanAccrue(reserves[r], slot) = Accrues(r)
  BY SameInterest DEF OneReserve!Current, Current, Accrues

\* A step of the market as the reserve r sees it.
OneStep(q) == UNCHANGED OneReserve(q)!vars \/ OneReserve(q)!Next

\* A listed reserve's tokens are on its books before and after the step.
LEMMA Books ==
  ASSUME Inv, Inv', NEW r \in Listed, r \in Listed'
  PROVE  /\ liquidity_vault[r] = reserves[r].available_amount
         /\ CTokenSupply(r) = reserves[r].mint_total_supply
         /\ liquidity_vault'[r] = reserves'[r].available_amount
         /\ CTokenSupply(r)' = reserves'[r].mint_total_supply
         /\ SoundReserve(reserves[r]) /\ SoundReserve(reserves'[r])
         /\ r \in Reserves
         /\ reserves[r].available_amount \in Nat /\ reserves[r].mint_total_supply \in Nat
  <1>1. r \in Reserves /\ SoundReserve(reserves[r])
    BY InvFacts
  <1>2. SoundReserve(reserves'[r])
    BY DEF Inv, ReservesSound
  <1>3. /\ liquidity_vault[r] = reserves[r].available_amount
        /\ CTokenSupply(r) = reserves[r].mint_total_supply
    BY <1>1 DEF Inv, VaultsMatchBooks
  <1>4. /\ liquidity_vault'[r] = reserves'[r].available_amount
        /\ CTokenSupply(r)' = reserves'[r].mint_total_supply
    BY <1>1 DEF Inv, VaultsMatchBooks
  <1> QED BY <1>1, <1>2, <1>3, <1>4, Fields

\* A reserve the step does not write stutters: the books say its tokens stay.
LEMMA Untouched ==
  ASSUME Inv, Inv', NEW r \in Listed, r \in Listed', reserves'[r] = reserves[r], slot' = slot
  PROVE  OneStep(r)
  BY Books DEF OneStep, OneReserve!vars

\* deposit is the reserve's Deposit.
LEMMA DepositMaps ==
  ASSUME Inv, Inv', NEW u \in Users, NEW r \in Listed, NEW a \in Amounts, Deposit(u, r, a)
  PROVE  OneReserve(r)!Deposit(a)
  <1>1. /\ a \in Nat \ {0} /\ Later(reserves[r], Current(r)) /\ r \in Reserves
        /\ Current(r).available_amount = reserves[r].available_amount
        /\ Current(r).mint_total_supply = reserves[r].mint_total_supply
    BY AmountType, CurrentLater DEF Deposit
  <1>2. /\ r \in Listed' /\ reserves'[r] = deposit_liquidity(Current(r), a)
        /\ slot' = slot
        /\ is_active(reserves[r]) /\ Accrues(r) /\ CanDepositLiquidity(Current(r), a)
        /\ liquidity_vault[r] + a <= MAX_U64
        /\ CTokenSupply(r) + liquidity_to_collateral(Current(r), a) <= MAX_U64
    BY InvFacts DEF Deposit, Listed
  <1>3. /\ reserves'[r].available_amount = Current(r).available_amount + a
        /\ reserves'[r].mint_total_supply
             = Current(r).mint_total_supply + liquidity_to_collateral(Current(r), a)
    BY <1>1, <1>2, LaterDeposited
  <1>4. /\ liquidity_vault'[r] = liquidity_vault[r] + a
        /\ CTokenSupply(r)' = CTokenSupply(r) + liquidity_to_collateral(Current(r), a)
    BY <1>1, <1>2, <1>3, Books
  <1> QED BY <1>2, <1>4, SameCurrent, SameMethods, SameRate DEF OneReserve!Deposit

\* withdraw is its Withdraw.
LEMMA WithdrawMaps ==
  ASSUME Inv, Inv', NEW u \in Users, NEW r \in Listed, NEW a \in Amounts, Withdraw(u, r, a)
  PROVE  OneReserve(r)!Withdraw(a)
  <1>1. /\ a \in Nat \ {0} /\ Later(reserves[r], Current(r)) /\ r \in Reserves
        /\ Current(r).available_amount = reserves[r].available_amount
        /\ Current(r).mint_total_supply = reserves[r].mint_total_supply
    BY AmountType, CurrentLater DEF Withdraw
  <1>2. /\ r \in Listed' /\ reserves'[r] = redeem_collateral(Current(r), a)
        /\ slot' = slot
        /\ is_active(reserves[r]) /\ Accrues(r) /\ CanRedeemCollateral(Current(r), a)
        /\ a <= ctokens[u][r]
        /\ collateral_to_liquidity(Current(r), a) <= liquidity_vault[r]
    BY InvFacts DEF Withdraw, Listed
  <1>3. /\ reserves'[r].available_amount
             = Current(r).available_amount - collateral_to_liquidity(Current(r), a)
        /\ reserves'[r].mint_total_supply = Current(r).mint_total_supply - a
    BY <1>1, <1>2, LaterRedeemed
  <1>4. /\ liquidity_vault'[r]
             = liquidity_vault[r] - collateral_to_liquidity(Current(r), a)
        /\ CTokenSupply(r)' = CTokenSupply(r) - a
    BY <1>1, <1>2, <1>3, Books
  <1>5. a <= CTokenSupply(r)
    <2>1. /\ ctokens[u][r] + collateral_vault[r] <= CTokenSupply(r)
          /\ ctokens[u][r] \in Nat /\ collateral_vault[r] \in Nat /\ CTokenSupply(r) \in Nat
      BY <1>1, InvFacts, SupplyFacts
    <2> QED BY <1>1, <1>2, <2>1
  <1> QED BY <1>2, <1>4, <1>5, SameCurrent, SameMethods, SameRate DEF OneReserve!Withdraw

\* borrow is its Borrow.
LEMMA BorrowMaps ==
  ASSUME Inv, Inv', NEW u \in Enrolled, NEW r \in Listed, NEW a \in Amounts, Borrow(u, r, a)
  PROVE  OneReserve(r)!Borrow(a)
  <1>1. /\ a \in Nat \ {0} /\ Later(reserves[r], Current(r)) /\ r \in Reserves
        /\ Current(r).available_amount = reserves[r].available_amount
        /\ Current(r).mint_total_supply = reserves[r].mint_total_supply
    BY AmountType, CurrentLater DEF Borrow, Lend
  <1>2. /\ r \in Listed' /\ reserves'[r] = borrow(Current(r), a)
        /\ slot' = slot
        /\ is_active(reserves[r]) /\ Accrues(r) /\ CanBorrow(Current(r), a)
        /\ a <= liquidity_vault[r] /\ reserves[r].market_price_sf > 0
    BY InvFacts DEF Borrow, Lend, Listed
  <1>3. /\ reserves'[r].available_amount = Current(r).available_amount - a
        /\ reserves'[r].mint_total_supply = Current(r).mint_total_supply
    BY <1>1, <1>2, LaterLent
  <1>4. liquidity_vault'[r] = liquidity_vault[r] - a /\ CTokenSupply(r)' = CTokenSupply(r)
    BY <1>1, <1>2, <1>3, Books
  <1> QED BY <1>2, <1>4, SameCurrent, SameMethods DEF OneReserve!Borrow

\* repay, and the side of a liquidation that is repaid, are its Repay.
LEMMA RepayMaps ==
  ASSUME Inv, Inv', NEW r \in Listed, NEW a \in Nat, is_active(reserves[r]), Accrues(r),
         CanRepay(Current(r), a), liquidity_vault[r] + a <= MAX_U64,
         r \in Listed', reserves'[r] = repay(Current(r), a), slot' = slot
  PROVE  OneReserve(r)!Repay(a)
  <1>1. /\ Later(reserves[r], Current(r)) /\ r \in Reserves
        /\ Current(r).available_amount = reserves[r].available_amount
        /\ Current(r).mint_total_supply = reserves[r].mint_total_supply
    BY CurrentLater
  <1>2. /\ reserves'[r].available_amount = Current(r).available_amount + a
        /\ reserves'[r].mint_total_supply = Current(r).mint_total_supply
    BY <1>1, LaterRepaid
  <1>3. liquidity_vault'[r] = liquidity_vault[r] + a /\ CTokenSupply(r)' = CTokenSupply(r)
    BY <1>1, <1>2, Books
  <1> QED BY <1>3, SameCurrent, SameMethods DEF OneReserve!Repay

\* The collateral side of a liquidation is its AccrueForSeizure.
LEMMA SeizureMaps ==
  ASSUME Inv, Inv', NEW r \in Listed, is_active(reserves[r]), Accrues(r),
         reserves[r].market_price_sf > 0,
         r \in Listed', reserves'[r] = Current(r), slot' = slot
  PROVE  OneReserve(r)!AccrueForSeizure
  <1>1. /\ r \in Reserves
        /\ Current(r).available_amount = reserves[r].available_amount
        /\ Current(r).mint_total_supply = reserves[r].mint_total_supply
    BY CurrentLater
  <1>2. liquidity_vault'[r] = liquidity_vault[r] /\ CTokenSupply(r)' = CTokenSupply(r)
    BY <1>1, Books
  <1> QED BY <1>2, SameCurrent, SameMethods DEF OneReserve!AccrueForSeizure

\* refresh_reserve is its RefreshReserve, at one of its prices and times.
LEMMA RefreshMaps ==
  ASSUME Inv, Inv', NEW r \in Listed, NEW m \in Messages, RefreshReserve(r, m)
  PROVE  /\ OneReserve(r)!RefreshReserve(pyth_price_sf(m), slot * SlotSeconds - m.publish_time)
         /\ pyth_price_sf(m) \in U128
  <1>1. now \in Int /\ m.publish_time \in Int
    BY InvFacts, LendingAssumption DEF now, MessageType
  <1>2. PICK t \in Int : t = now - m.publish_time
    BY <1>1
  <1>3. /\ CanGetPythPrice([m EXCEPT !.publish_time = t], now) /\ Accrues(r)
        /\ [m EXCEPT !.publish_time = t].publish_time = t
        /\ reserves[r].config.pyth_oracle
    BY <1>2, LendingAssumption DEF RefreshReserve, MessageType
  <1>4. pyth_price_sf([m EXCEPT !.publish_time = t]) = pyth_price_sf(m) /\ pyth_price_sf(m) \in U128
    BY <1>1, <1>3, PriceFits
  <1>5. /\ r \in Listed' /\ slot' = slot
        /\ liquidity_vault' = liquidity_vault
        /\ UNCHANGED <<collateral_vault, ctokens>>
        /\ reserves'[r] = [Current(r) EXCEPT !.market_price_sf = pyth_price_sf(m),
                                             !.price_last_updated_ts = t]
    BY <1>2, <1>3, <1>4, InvFacts DEF RefreshReserve, Listed, balances
  <1>6. CTokenSupply(r)' = CTokenSupply(r)
    BY <1>5, SupplySame
  <1> QED BY <1>2, <1>3, <1>4, <1>5, <1>6, SameCurrent DEF OneReserve!RefreshReserve, now

\* update_reserve_config is its UpdateReserveConfig.
LEMMA ConfigMaps ==
  ASSUME Inv, Inv', NEW r \in Listed, NEW c \in Configs, UpdateReserveConfig(r, c)
  PROVE  OneReserve(r)!UpdateReserveConfig(c)
  <1>1. /\ reserves'[r] = [reserves[r] EXCEPT !.config = c] /\ slot' = slot
        /\ liquidity_vault' = liquidity_vault
        /\ UNCHANGED <<collateral_vault, ctokens>> /\ validate(c)
    BY InvFacts DEF UpdateReserveConfig, balances
  <1>2. CTokenSupply(r)' = CTokenSupply(r)
    BY <1>1, SupplySame
  <1> QED BY <1>1, <1>2, SameMethods DEF OneReserve!UpdateReserveConfig

\* The clock is the clock of every reserve.
LEMMA TickMaps ==
  ASSUME Tick, NEW r \in Listed
  PROVE  OneReserve(r)!Tick
  <1>1. CTokenSupply(r)' = CTokenSupply(r)
    BY SupplySame DEF Tick, balances
  <1> QED BY <1>1 DEF Tick, accounts, balances, OneReserve!Tick

\* add_reserve starts a reserve in one of its initial states.
LEMMA ListingMaps ==
  ASSUME Inv, NEW r \in Reserves, NEW c \in Configs, AddReserve(r, c)
  PROVE  /\ Listed' = Listed \cup {r}
         /\ \A q \in Listed : reserves'[q] = reserves[q]
         /\ OneReserve(r)!Init'
  <1>1. /\ r \notin Listed /\ validate(c)
        /\ Listed' = Listed \cup {r}
        /\ \A q \in Listed : reserves'[q] = reserves[q]
        /\ reserves'[r] = NewReserve(c, slot) /\ slot' = slot
        /\ liquidity_vault' = liquidity_vault
        /\ UNCHANGED <<collateral_vault, ctokens>>
    BY DEF AddReserve, Listed, balances
  <1>2. CTokenSupply(r)' = 0 /\ liquidity_vault'[r] = 0
    BY <1>1, SupplySame, SupplyFacts
  <1>3. slot' \in 1 .. MaxSlot
    BY <1>1, InvFacts
  <1> QED BY <1>1, <1>2, <1>3, SameMethods DEF OneReserve!Init

\* The step ImplementsReserves asks for.
MarketStep ==
  /\ \A r \in Listed : UNCHANGED OneReserve(r)!vars \/ OneReserve(r)!Next
  /\ \A r \in Listed' \ Listed : OneReserve(r)!Init'

\* A step that writes one reserve, as one of its own steps.
LEMMA OneMaps ==
  ASSUME Inv, Inv', NEW r \in Listed, NEW p, reserves' = [reserves EXCEPT ![r] = p],
         slot' = slot, OneReserve(r)!Next
  PROVE  MarketStep
  <1>1. Listed' = Listed /\ \A q \in Listed : q # r => reserves'[q] = reserves[q]
    BY InvFacts DEF Listed
  <1>2. ASSUME NEW q \in Listed
        PROVE  OneStep(q)
    <2>1. CASE q = r
      BY <2>1 DEF OneStep
    <2>2. CASE q # r
      BY <1>1, <2>2, Untouched
    <2> QED BY <2>1, <2>2
  <1> QED BY <1>1, <1>2 DEF MarketStep, OneStep

\* A step that writes no reserve.
LEMMA NoneMaps ==
  ASSUME Inv, Inv', reserves' = reserves, slot' = slot
  PROVE  MarketStep
  <1>1. Listed' = Listed
    BY DEF Listed
  <1>2. ASSUME NEW q \in Listed
        PROVE  OneStep(q)
    BY <1>1, Untouched
  <1> QED BY <1>1, <1>2 DEF MarketStep, OneStep

\* A liquidation is a step of both its reserves, or of the one they are.
LEMMA SeizeMaps ==
  ASSUME Inv, Inv', NEW liquidator \in Users, NEW u \in Enrolled, NEW rr \in Listed,
         NEW wr \in Listed, NEW a \in Amounts, Seize(liquidator, u, rr, wr, a)
  PROVE  MarketStep
  <1>1. PICK amount : amount = ActualRepay(obligations[u], rr, Current(rr), a)
    OBVIOUS
  <1>2. amount \in Nat \ {0} /\ amount <= a
    BY <1>1, SeizeFacts
  <1>3. /\ Listed' = Listed
        /\ reserves'[rr] = repay(Current(rr), amount)
        /\ wr # rr => reserves'[wr] = Current(wr)
        /\ \A q \in Listed : q # rr /\ q # wr => reserves'[q] = reserves[q]
    BY <1>1, <1>2, SeizeReserves
  <1>4. /\ is_active(reserves[rr]) /\ is_active(reserves[wr])
        /\ Accrues(rr) /\ Accrues(wr) /\ slot' = slot
        /\ CanRepay(Current(rr), amount) /\ liquidity_vault[rr] + amount <= MAX_U64
        /\ Current(wr).market_price_sf > 0
    BY <1>1 DEF Seize, CanSeize
  <1>5. ASSUME NEW q \in Listed
        PROVE  OneStep(q)
    <2>1. CASE q = rr
      <3>1. OneReserve(rr)!Repay(amount)
        BY <1>2, <1>3, <1>4, RepayMaps
      <3>2. amount \in OneAmounts
        BY <1>2, WithinAmounts
      <3> QED BY <2>1, <3>1, <3>2 DEF OneStep, OneReserve!Next, OneAmounts
    <2>2. CASE q = wr /\ wr # rr
      <3>1. reserves[wr].market_price_sf > 0
        BY <1>4, CurrentLater
      <3>2. OneReserve(wr)!AccrueForSeizure
        BY <1>3, <1>4, <2>2, <3>1, SeizureMaps
      <3> QED BY <2>2, <3>2 DEF OneStep, OneReserve!Next
    <2>3. CASE q # rr /\ q # wr
      BY <1>3, <1>4, <2>3, Untouched
    <2> QED BY <2>1, <2>2, <2>3
  <1> QED BY <1>3, <1>5 DEF MarketStep, OneStep

\* Each instruction.
LEMMA NextMaps ==
  ASSUME Inv, Inv', [Next]_vars
  PROVE  MarketStep
  <1>0. \A a \in Amounts : a \in OneAmounts /\ a \in Nat
    BY AmountType, WithinAmounts
  <1>1. ASSUME NEW u \in Users, UserStep(u) PROVE MarketStep
    <2>1. CASE InitObligation(u)
      BY <2>1, NoneMaps DEF InitObligation
    <2>2. ASSUME NEW r \in Listed, NEW a \in Amounts, Deposit(u, r, a) PROVE MarketStep
      <3>1. OneReserve(r)!Next
        BY <1>0, <2>2, DepositMaps DEF OneReserve!Next, OneAmounts
      <3>2. PICK p : p = deposit_liquidity(Current(r), a)
        OBVIOUS
      <3> QED BY <2>2, <3>1, <3>2, OneMaps DEF Deposit
    <2>3. ASSUME NEW r \in Listed, NEW a \in Amounts, Withdraw(u, r, a) PROVE MarketStep
      <3>1. OneReserve(r)!Next
        BY <1>0, <2>3, WithdrawMaps DEF OneReserve!Next, OneAmounts
      <3>2. PICK p : p = redeem_collateral(Current(r), a)
        OBVIOUS
      <3> QED BY <2>3, <3>1, <3>2, OneMaps DEF Withdraw
    <2>4. ASSUME NEW v \in Enrolled, NEW rr \in Listed, NEW wr \in Listed, NEW a \in Amounts,
                 Liquidate(u, v, rr, wr, a)
          PROVE  MarketStep
      BY <2>4, SeizeMaps DEF Liquidate
    <2> QED BY <1>1, <2>1, <2>2, <2>3, <2>4 DEF UserStep
  <1>2. ASSUME NEW u \in Enrolled, ObligationStep(u) PROVE MarketStep
    <2>1. ASSUME NEW r \in Listed, NEW a \in Amounts, Borrow(u, r, a) PROVE MarketStep
      <3>1. OneReserve(r)!Next
        BY <1>0, <2>1, BorrowMaps DEF OneReserve!Next, OneAmounts
      <3>2. PICK p : p = borrow(Current(r), a)
        OBVIOUS
      <3> QED BY <2>1, <3>1, <3>2, OneMaps DEF Borrow, Lend
    <2>2. ASSUME NEW r \in Listed, NEW a \in Amounts, Repay(u, r, a) PROVE MarketStep
      <3>1. PICK p : p = repay(Current(r), a)
        OBVIOUS
      <3>2. /\ is_active(reserves[r]) /\ Accrues(r) /\ CanRepay(Current(r), a)
            /\ liquidity_vault[r] + a <= MAX_U64 /\ slot' = slot
            /\ reserves' = [reserves EXCEPT ![r] = p]
            /\ r \in Listed' /\ reserves'[r] = p
        BY <2>2, <3>1, InvFacts DEF Repay, Listed
      <3>3. OneReserve(r)!Repay(a)
        BY <1>0, <3>1, <3>2, RepayMaps
      <3>4. OneReserve(r)!Next
        BY <1>0, <3>3 DEF OneReserve!Next, OneAmounts
      <3> QED BY <3>2, <3>4, OneMaps
    <2> QED BY <1>2, <2>1, <2>2, NoneMaps
            DEF ObligationStep, RefreshObligation, DepositCollateral, WithdrawCollateral
  <1>3. ASSUME OwnerStep PROVE MarketStep
    <2>1. ASSUME NEW r \in Reserves, NEW c \in Configs, AddReserve(r, c) PROVE MarketStep
      <3>1. /\ Listed' = Listed \cup {r} /\ slot' = slot
            /\ \A q \in Listed : reserves'[q] = reserves[q]
            /\ OneReserve(r)!Init'
        BY <2>1, ListingMaps DEF AddReserve
      <3>2. ASSUME NEW q \in Listed
            PROVE  OneStep(q)
        BY <3>1, Untouched
      <3> QED BY <3>1, <3>2 DEF MarketStep, OneStep
    <2>2. ASSUME NEW r \in Listed, NEW c \in Configs, UpdateReserveConfig(r, c)
          PROVE  MarketStep
      <3>1. OneReserve(r)!Next
        BY <2>2, ConfigMaps DEF OneReserve!Next
      <3>2. PICK p : p = [reserves[r] EXCEPT !.config = c]
        OBVIOUS
      <3>3. reserves' = [reserves EXCEPT ![r] = p] /\ slot' = slot
        BY <2>2, <3>2, InvFacts DEF UpdateReserveConfig
      <3> QED BY <3>1, <3>3, OneMaps
    <2> QED BY <1>3, <2>1, <2>2, NoneMaps DEF OwnerStep, SetPause, UpdateMarketAuthority
  <1>4. ASSUME NEW r \in Listed, NEW m \in Messages, RefreshReserve(r, m) PROVE MarketStep
    <2>1. OneReserve(r)!Next
      <3>1. slot * SlotSeconds - m.publish_time
              \in {s * SlotSeconds - k.publish_time : s \in 1 .. MaxSlot, k \in Messages}
        BY InvFacts
      <3>2. pyth_price_sf(m) \in {pyth_price_sf(k) : k \in Messages} \cap U128
        BY <1>4, RefreshMaps
      <3>3. OneReserve(r)!RefreshReserve(pyth_price_sf(m), slot * SlotSeconds - m.publish_time)
        BY <1>4, RefreshMaps
      <3> QED BY <3>1, <3>2, <3>3 DEF OneReserve!Next
    <2>2. PICK p : reserves' = [reserves EXCEPT ![r] = p]
      BY <1>4 DEF RefreshReserve
    <2> QED BY <1>4, <2>1, <2>2, OneMaps DEF RefreshReserve
  <1>5. ASSUME Tick PROVE MarketStep
    <2>1. ASSUME NEW r \in Listed
          PROVE  OneReserve(r)!Next
      BY <1>5, TickMaps DEF OneReserve!Next
    <2>2. Listed' = Listed
      BY <1>5 DEF Tick, accounts, Listed
    <2> QED BY <2>1, <2>2 DEF MarketStep
  <1>6. ASSUME UNCHANGED vars PROVE MarketStep
    BY <1>6, NoneMaps DEF vars
  <1> QED BY <1>1, <1>2, <1>3, <1>4, <1>5, <1>6 DEF Next

\* Every reserve of the market is a Reserve from the moment it is listed: what is
\* proved of Reserve, for any sequence of calls, is true of each reserve here.
THEOREM Refinement == Spec => ImplementsReserves
  <1>1. Init => Listed = {}
    BY DEF Init, Listed
  <1>2. Inv /\ Inv' /\ [Next]_vars => MarketStep
    BY NextMaps
  <1> QED BY <1>1, <1>2, Invariance, PTL DEF Spec, ImplementsReserves, MarketStep

(***************************************************************************)
(* Nothing is taken unpaid.                                                *)
(***************************************************************************)

\* What the depositors of each reserve own, counted in tokens, fits the 64 bits
\* tokens are counted in.  total_supply is a u128, and the payout is cast.
TotalsFit == \A r \in Listed : total_supply(Current(r)) <= MAX_U64

\* cTokens of r that u parts with are paid for.
PaidFor(u, r) ==
  \/ liquidity_vault'[r] < liquidity_vault[r]
  \/ \E rr \in Listed :
       /\ CanFind(obligations[u].borrows, rr)
       /\ DebtIn(obligations'[u], rr) + RATE_SCALE
            <= DueIn(u, rr, reserves'[rr].cumulative_borrow_rate_sf)
NothingTaken == \A u \in Users, r \in Reserves : Held(u, r)' < Held(u, r) => PaidFor(u, r)

\* A redemption of some of the cTokens there are pays for each of them, when the
\* payout fits the cast.
LEMMA RedemptionPays ==
  ASSUME NEW q \in ReserveType, Backed(q), total_supply(q) <= MAX_U64,
         NEW c \in Nat \ {0}, c <= q.mint_total_supply
  PROVE  collateral_to_liquidity(q, c) >= c
  <1>1. PICK s, l \in Nat \ {0} : s = RateSupply(q) /\ l = RateLiquidity(q)
    BY RateSides
  <1>2. PICK exact : exact = (c * l) \div s
    OBVIOUS
  <1>3. collateral_to_liquidity(q, c) = AsU64(exact)
    BY <1>1, <1>2 DEF collateral_to_liquidity, MulDiv
  <1>4. /\ q.mint_total_supply \in Nat /\ q.mint_total_supply <= MAX_U64
        /\ total_supply(q) \in Nat /\ q.mint_total_supply <= total_supply(q)
        /\ MAX_U64 \in Nat
    BY ReserveFields, TotalSupplyType, WidthAssumption DEF Backed, U64
  <1>5. exact \in Nat /\ exact >= c /\ exact <= MAX_U64
    <2>1. CASE s = 1 /\ l = 1
      <3>1. exact = c
        BY <1>2, <2>1
      <3> QED BY <1>4, <3>1
    <2>2. CASE s = q.mint_total_supply /\ l = total_supply(q)
      <3>1. s <= l /\ c <= s
        BY <1>4, <2>2
      <3>2. c * s <= c * l /\ c * l <= l * s /\ c * l \in Nat
        BY <1>1, <3>1
      <3>3. exact \in Nat /\ exact >= c /\ exact <= l
        BY <1>1, <1>2, <3>2
      <3> QED BY <1>4, <2>2, <3>3
    <2> QED BY <1>1, <2>1, <2>2, RateSides
  <1> QED BY <1>3, <1>4, <1>5 DEF AsU64

\* A step that changes no user's holding takes nothing.
LEMMA NothingLost ==
  ASSUME \A u \in Users, r \in Reserves : Held(u, r)' = Held(u, r) /\ Held(u, r) \in Int
  PROVE  NothingTaken
  BY DEF NothingTaken

\* What users hold are natural numbers.
LEMMA HeldNatural ==
  ASSUME Inv, NEW u \in Users, NEW r \in Reserves
  PROVE  /\ ctokens[u][r] \in Nat
         /\ u \in Enrolled => CollateralIn(obligations[u], r) \in Nat
         /\ Held(u, r) \in Nat
         /\ u \in Enrolled => Held(u, r) = ctokens[u][r] + CollateralIn(obligations[u], r)
         /\ u \notin Enrolled => Held(u, r) = ctokens[u][r]
  <1>1. ctokens[u][r] \in Nat /\ u \in Enrolled => CollateralIn(obligations[u], r) \in Nat
    BY InvFacts, CollateralNatural
  <1>2. ctokens[u][r] \in Nat
    BY InvFacts
  <1> QED BY <1>1, <1>2 DEF Held

\* No cTokens move, and the obligation written, if any, keeps its collateral.
LEMMA HoldingsKept ==
  ASSUME Inv, ctokens' = ctokens, Enrolled' = Enrolled,
         \A u \in Enrolled, r \in Reserves :
           CollateralIn(obligations'[u], r) = CollateralIn(obligations[u], r)
  PROVE  NothingTaken
  <1>1. \A u \in Users, r \in Reserves : Held(u, r)' = Held(u, r)
    BY DEF Held
  <1> QED BY <1>1, HeldNatural, NothingLost

\* cTokens move between a user's account and the obligation of the same user.
LEMMA HoldingsMove ==
  ASSUME Inv, NEW u \in Enrolled, Enrolled' = Enrolled,
         \A v \in Users \ {u} : ctokens'[v] = ctokens[v],
         \A v \in Enrolled \ {u} : obligations'[v] = obligations[v],
         \A q \in Reserves : ctokens'[u][q] + CollateralIn(obligations'[u], q)
                               = ctokens[u][q] + CollateralIn(obligations[u], q)
  PROVE  NothingTaken
  <1>1. ASSUME NEW v \in Users, NEW q \in Reserves
        PROVE  Held(v, q)' = Held(v, q)
    <2>1. CASE v # u
      BY <2>1 DEF Held
    <2>2. CASE v = u
      BY <2>2 DEF Held
    <2> QED BY <2>1, <2>2
  <1> QED BY <1>1, HeldNatural, NothingLost

\* Only one user's account of one reserve changes.
LEMMA AccountMoves ==
  ASSUME Inv, NEW u \in Users, NEW r \in Reserves, NEW x \in Nat,
         obligations' = obligations, ctokens' = [ctokens EXCEPT ![u][r] = x],
         x < ctokens[u][r] => PaidFor(u, r)
  PROVE  NothingTaken
  <1>1. Enrolled' = Enrolled
    BY DEF Enrolled
  <1>2. /\ ctokens'[u][r] = x
        /\ \A q \in Reserves : q # r => ctokens'[u][q] = ctokens[u][q]
        /\ \A v \in Users \ {u} : ctokens'[v] = ctokens[v]
    BY InvFacts
  <1> SUFFICES ASSUME NEW v \in Users, NEW q \in Reserves, Held(v, q)' < Held(v, q)
               PROVE  PaidFor(v, q)
    BY DEF NothingTaken
  <1>3. /\ Held(v, q)' = ctokens'[v][q] + (IF v \in Enrolled THEN CollateralIn(obligations[v], q)
                                                             ELSE 0)
        /\ Held(v, q) = ctokens[v][q] + (IF v \in Enrolled THEN CollateralIn(obligations[v], q)
                                                           ELSE 0)
    BY <1>1 DEF Held
  <1>4. /\ ctokens[v][q] \in Nat
        /\ (IF v \in Enrolled THEN CollateralIn(obligations[v], q) ELSE 0) \in Nat
    BY HeldNatural
  <1>5. ctokens'[v][q] # ctokens[v][q]
    <2>1. Held(v, q) \in Nat
      BY HeldNatural
    <2> QED BY <1>3, <2>1
  <1>6. v = u /\ q = r
    BY <1>2, <1>5
  <1>7. x < ctokens[u][r]
    BY <1>2, <1>3, <1>4, <1>6
  <1> QED BY <1>6, <1>7

\* A withdrawal pays for what it burns.
LEMMA WithdrawPays ==
  ASSUME Inv, TotalsFit, NEW u \in Users, NEW r \in Listed, NEW a \in Amounts, Withdraw(u, r, a)
  PROVE  NothingTaken
  <1>1. /\ a \in Nat \ {0} /\ r \in Reserves /\ SoundReserve(Current(r))
        /\ Current(r).mint_total_supply \in Nat
    BY AmountType, CurrentLater, Fields DEF Withdraw, Later
  <1>2. PICK l : l = collateral_to_liquidity(Current(r), a)
    OBVIOUS
  <1>3. /\ liquidity_vault' = [liquidity_vault EXCEPT ![r] = @ - l]
        /\ ctokens' = [ctokens EXCEPT ![u][r] = ctokens[u][r] - a]
        /\ obligations' = obligations
        /\ a <= ctokens[u][r] /\ l <= liquidity_vault[r]
        /\ CanRedeemCollateral(Current(r), a)
    BY <1>1, <1>2, InvFacts DEF Withdraw
  <1>4. l >= a
    <2>1. total_supply(Current(r)) <= MAX_U64 /\ a <= Current(r).mint_total_supply
      BY <1>1, <1>3 DEF TotalsFit, CanRedeemCollateral
    <2> QED BY <1>1, <1>2, <2>1, Fields, RedemptionPays
  <1>5. l \in Nat
    BY <1>1, <1>2, Fields, RedeemRoundsDown, Widths
  <1>6. liquidity_vault'[r] < liquidity_vault[r]
    <2>1. liquidity_vault[r] \in Nat /\ liquidity_vault'[r] = liquidity_vault[r] - l
      BY <1>1, <1>3, InvFacts
    <2> QED BY <1>1, <1>4, <1>5, <2>1
  <1>7. ctokens[u][r] - a \in Nat
    BY <1>1, <1>3, InvFacts
  <1> QED BY <1>1, <1>3, <1>6, <1>7, AccountMoves DEF PaidFor

\* A deposit gives cTokens and takes none.
LEMMA DepositGives ==
  ASSUME Inv, NEW u \in Users, NEW r \in Listed, NEW a \in Amounts, Deposit(u, r, a)
  PROVE  NothingTaken
  <1>1. a \in Nat \ {0} /\ Later(reserves[r], Current(r)) /\ r \in Reserves
    BY AmountType, CurrentLater DEF Deposit
  <1>2. PICK minted : minted = liquidity_to_collateral(Current(r), a)
    OBVIOUS
  <1>3. minted \in Nat
    BY <1>1, <1>2, LaterDeposited DEF Deposit
  <1>4. /\ ctokens' = [ctokens EXCEPT ![u][r] = ctokens[u][r] + minted]
        /\ obligations' = obligations
    BY <1>1, <1>2, InvFacts DEF Deposit
  <1>5. PICK x \in Nat : x = ctokens[u][r] + minted
    BY <1>1, <1>3, InvFacts
  <1>6. ~(x < ctokens[u][r])
    BY <1>1, <1>3, <1>5, InvFacts
  <1> QED BY <1>1, <1>4, <1>5, <1>6, AccountMoves

\* A liquidation repays a token at least for what it seizes, whoever sends it.
LEMMA SeizurePays ==
  ASSUME Inv, NEW liquidator \in Users, NEW u \in Enrolled, NEW rr \in Listed, NEW wr \in Listed,
         NEW a \in Amounts, Seize(liquidator, u, rr, wr, a)
  PROVE  NothingTaken
  <1>1. PICK amount : amount = ActualRepay(obligations[u], rr, Current(rr), a)
    OBVIOUS
  <1>2. PICK seized : seized = Seized(obligations[u], wr, amount, Current(rr), Current(wr))
    OBVIOUS
  <1>3. PICK p : p = liquidated(obligations[u], rr, wr, amount, seized, Current(rr))
    OBVIOUS
  <1>4. /\ amount \in Nat /\ seized \in Nat \ {0}
        /\ CollateralIn(p, wr) = CollateralIn(obligations[u], wr) - seized
        /\ \A q \in Reserves : q # wr => CollateralIn(p, q) = CollateralIn(obligations[u], q)
        /\ CanFind(obligations[u].borrows, rr)
        /\ DebtIn(p, rr) + RATE_SCALE
             <= Due(obligations[u], rr, Current(rr).cumulative_borrow_rate_sf)
    BY <1>1, <1>2, <1>3, SeizeFacts
  <1>5. reserves'[rr].cumulative_borrow_rate_sf = Current(rr).cumulative_borrow_rate_sf
    BY <1>1, <1>4, SeizeReserves
  <1>6. /\ obligations' = [obligations EXCEPT ![u] = p]
        /\ ctokens' = [ctokens EXCEPT ![liquidator][wr] = ctokens[liquidator][wr] + seized]
        /\ wr \in Reserves
    BY <1>1, <1>2, <1>3, InvFacts DEF Seize
  <1>7. /\ Enrolled' = Enrolled /\ obligations'[u] = p
        /\ \A v \in Enrolled \ {u} : obligations'[v] = obligations[v]
    BY <1>6, InvFacts DEF Enrolled
  <1>8. PaidFor(u, wr)
    BY <1>4, <1>5, <1>7 DEF PaidFor, DueIn, Due
  <1> SUFFICES ASSUME NEW v \in Users, NEW q \in Reserves, Held(v, q)' < Held(v, q)
               PROVE  PaidFor(v, q)
    BY DEF NothingTaken
  <1>9. ctokens[v][q] \in Nat /\ ctokens'[v][q] \in Nat /\ ctokens'[v][q] >= ctokens[v][q]
    <2>1. ctokens[liquidator][wr] \in Nat /\ ctokens[v][q] \in Nat
      BY <1>6, InvFacts
    <2>2. ctokens'[v][q] = IF v = liquidator /\ q = wr THEN ctokens[liquidator][wr] + seized
                                                     ELSE ctokens[v][q]
      BY <1>6, InvFacts
    <2> QED BY <1>4, <2>1, <2>2
  <1>10. v = u /\ q = wr
    <2>1. SUFFICES ASSUME ~(v = u /\ q = wr) PROVE FALSE
      OBVIOUS
    <2>2. v \in Enrolled => CollateralIn(obligations'[v], q) = CollateralIn(obligations[v], q)
      BY <1>4, <1>7, <2>1
    <2>3. v \in Enrolled => CollateralIn(obligations[v], q) \in Nat
      BY HeldNatural
    <2>4. CASE v \in Enrolled
      <3>1. /\ Held(v, q)' = ctokens'[v][q] + CollateralIn(obligations[v], q)
            /\ Held(v, q) = ctokens[v][q] + CollateralIn(obligations[v], q)
        BY <1>7, <2>2, <2>4 DEF Held
      <3> QED BY <1>9, <2>3, <2>4, <3>1
    <2>5. CASE v \notin Enrolled
      <3>1. /\ Held(v, q)' = ctokens'[v][q] + 0
            /\ Held(v, q) = ctokens[v][q] + 0
        BY <1>7, <2>5 DEF Held
      <3> QED BY <1>9, <3>1
    <2> QED BY <2>4, <2>5
  <1> QED BY <1>8, <1>10

\* Locking cTokens and releasing them moves them between a user's own two places.
LEMMA LockingMoves ==
  ASSUME Inv, NEW u \in Enrolled, NEW r \in Listed, NEW a \in Amounts,
         DepositCollateral(u, r, a) \/ WithdrawCollateral(u, r, a)
  PROVE  NothingTaken
  <1>1. /\ a \in Nat \ {0} /\ u \in Users /\ r \in Reserves
        /\ Sound(obligations[u], reserves)
        /\ \A q \in Reserves : /\ ctokens[u][q] \in Nat
                               /\ CollateralIn(obligations[u], q) \in Nat
    BY AmountType, InvFacts, HeldNatural
  <1>2. PICK p, d :
          /\ d \in Int
          /\ obligations' = [obligations EXCEPT ![u] = p]
          /\ ctokens' = [ctokens EXCEPT ![u][r] = @ - d]
          /\ CollateralIn(p, r) = CollateralIn(obligations[u], r) + d
          /\ \A q \in Reserves : q # r => CollateralIn(p, q) = CollateralIn(obligations[u], q)
    <2>1. CASE DepositCollateral(u, r, a)
      <3>1. PICK p : p = deposit(obligations[u], r, a)
        OBVIOUS
      <3>2. /\ CollateralIn(p, r) = CollateralIn(obligations[u], r) + a
            /\ \A q \in Reserves : q # r => CollateralIn(p, q) = CollateralIn(obligations[u], q)
        BY <1>1, <2>1, <3>1, Deposited DEF DepositCollateral
      <3>3. /\ obligations' = [obligations EXCEPT ![u] = p]
            /\ ctokens' = [ctokens EXCEPT ![u][r] = @ - a]
        BY <2>1, <3>1, InvFacts DEF DepositCollateral
      <3>4. a \in Int
        BY <1>1
      <3> QED BY ONLY <3>2, <3>3, <3>4, Zenon
    <2>2. CASE WithdrawCollateral(u, r, a)
      <3>1. PICK p : p = release_collateral(obligations[u], r, a)
        OBVIOUS
      <3>2. PICK d \in Int : d = -a
        BY <1>1
      <3>3. /\ CollateralIn(p, r) = CollateralIn(obligations[u], r) - a
            /\ \A q \in Reserves : q # r => CollateralIn(p, q) = CollateralIn(obligations[u], q)
        BY <1>1, <2>2, <3>1, Released DEF WithdrawCollateral, CanReleaseCollateral
      <3>4. /\ obligations' = [obligations EXCEPT ![u] = p]
            /\ ctokens' = [ctokens EXCEPT ![u][r] = @ + a]
        BY <2>2, <3>1, InvFacts DEF WithdrawCollateral
      <3>5. /\ ctokens[u][r] + a = ctokens[u][r] - d
            /\ CollateralIn(p, r) = CollateralIn(obligations[u], r) + d
        BY <1>1, <3>2, <3>3
      <3>6. ctokens' = [ctokens EXCEPT ![u][r] = @ - d]
        BY <3>4, <3>5, <1>1, InvFacts
      <3> QED BY <3>3, <3>4, <3>5, <3>6
    <2> QED BY <2>1, <2>2
  <1>3. /\ Enrolled' = Enrolled /\ obligations'[u] = p
        /\ \A v \in Enrolled \ {u} : obligations'[v] = obligations[v]
    BY <1>2, InvFacts DEF Enrolled
  <1>4. /\ ctokens'[u][r] = ctokens[u][r] - d
        /\ \A q \in Reserves : q # r => ctokens'[u][q] = ctokens[u][q]
        /\ \A v \in Users \ {u} : ctokens'[v] = ctokens[v]
    BY <1>1, <1>2, InvFacts
  <1>5. \A q \in Reserves : ctokens'[u][q] + CollateralIn(obligations'[u], q)
                             = ctokens[u][q] + CollateralIn(obligations[u], q)
    BY <1>1, <1>2, <1>3, <1>4
  <1> QED BY <1>3, <1>4, <1>5, HoldingsMove

\* What a loan does to the obligation.
LEMMA LentCollateral ==
  ASSUME Inv, NEW u \in Enrolled, NEW r \in Listed, NEW a \in Amounts, Lend(u, r, a),
         NEW p, p = borrow_against(obligations[u], r, a, Current(r))
  PROVE  \A q : CollateralIn(p, q) = CollateralIn(obligations[u], q)
  <1>1. a \in Nat /\ r \in Reserves
    BY AmountType, InvFacts
  <1>2. PICK q : q = borrow(Current(r), a)
    OBVIOUS
  <1>3. /\ Accrues(r) /\ reserves' = [reserves EXCEPT ![r] = q]
        /\ CanBorrow(Current(r), a) /\ CanBorrowAgainst(obligations[u], r, a, Current(r))
    BY <1>2 DEF Lend
  <1>4. /\ Later(reserves[r], q)
        /\ q.cumulative_borrow_rate_sf = Current(r).cumulative_borrow_rate_sf
    BY <1>1, <1>2, <1>3, CurrentLater, LaterLent
  <1>5. ReservesStep /\ reserves'[r] = q
    BY <1>3, <1>4, WriteReserve
  <1>6. /\ IndexWithin(reserves', r, Current(r).cumulative_borrow_rate_sf)
        /\ Current(r).cumulative_borrow_rate_sf >= RATE_SCALE
    BY <1>3, <1>4, <1>5, IndexReached
  <1>7. Sound(obligations[u], reserves')
    BY <1>5, StillSound
  <1>8. SameCollateral(obligations[u], p)
    BY <1>1, <1>3, <1>6, <1>7, BorrowedAgainst
  <1> QED BY <1>8, SameCollateralIn

\* An instruction that writes an obligation's debts, or its values.
LEMMA DebtsOnly ==
  ASSUME Inv, NEW u \in Enrolled,
         \/ RefreshObligation(u)
         \/ \E r \in Listed, a \in Amounts : Lend(u, r, a) \/ Repay(u, r, a)
  PROVE  NothingTaken
  <1>1. ASSUME NEW p, obligations' = [obligations EXCEPT ![u] = p], ctokens' = ctokens,
               \A q : CollateralIn(p, q) = CollateralIn(obligations[u], q)
        PROVE  NothingTaken
    <2>1. /\ Enrolled' = Enrolled /\ obligations'[u] = p
          /\ \A v \in Enrolled \ {u} : obligations'[v] = obligations[v]
      BY <1>1, InvFacts DEF Enrolled
    <2> QED BY <1>1, <2>1, HoldingsKept
  <1>2. CASE RefreshObligation(u)
    <2>1. PICK p : p = refresh_obligation(obligations[u], reserves, slot)
      OBVIOUS
    <2>2. \A q : CollateralIn(p, q) = CollateralIn(obligations[u], q)
      BY <1>2, <2>1, RefreshedHere DEF RefreshObligation
    <2> QED BY <1>1, <1>2, <2>1, <2>2 DEF RefreshObligation, balances
  <1>3. ASSUME NEW r \in Listed, NEW a \in Amounts, Repay(u, r, a) PROVE NothingTaken
    <2>1. PICK p : p = repay_debt(obligations[u], r, a, Current(r))
      OBVIOUS
    <2>2. \A q : CollateralIn(p, q) = CollateralIn(obligations[u], q)
      BY <1>3, <2>1, RepayCounts, SameCollateralIn
    <2> QED BY <1>1, <1>3, <2>1, <2>2 DEF Repay
  <1>4. ASSUME NEW r \in Listed, NEW a \in Amounts, Lend(u, r, a) PROVE NothingTaken
    <2>1. PICK p : p = borrow_against(obligations[u], r, a, Current(r))
      OBVIOUS
    <2>2. \A q : CollateralIn(p, q) = CollateralIn(obligations[u], q)
      BY <1>4, <2>1, LentCollateral
    <2> QED BY <1>1, <1>4, <2>1, <2>2 DEF Lend
  <1> QED BY <1>2, <1>3, <1>4

\* Nor does any other step take anything.
LEMMA NothingTakenNext ==
  ASSUME Inv, TotalsFit, [Next]_vars
  PROVE  NothingTaken
  <1>0. ASSUME UNCHANGED <<obligations, ctokens>> PROVE NothingTaken
    BY <1>0, HoldingsKept DEF Enrolled
  <1>1. ASSUME NEW u \in Users, UserStep(u) PROVE NothingTaken
    <2>1. CASE InitObligation(u)
      <3>1. /\ Enrolled' = Enrolled \cup {u} /\ obligations'[u] = NewObligation /\ u \notin Enrolled
            /\ \A v \in Enrolled : obligations'[v] = obligations[v]
            /\ ctokens' = ctokens
        BY <2>1 DEF InitObligation, Enrolled, balances
      <3>2. \A r \in Reserves : CollateralIn(NewObligation, r) = 0
        BY AddressAssumption DEF CollateralIn, CanFind, Holding, NewObligation, EmptyCollateral,
                                 FreshCollateral
      <3>3. ASSUME NEW v \in Users, NEW r \in Reserves
            PROVE  Held(v, r)' = Held(v, r)
        <4>1. CASE v = u
          BY <3>1, <3>2, <4>1 DEF Held
        <4>2. CASE v # u
          BY <3>1, <4>2 DEF Held
        <4> QED BY <4>1, <4>2
      <3> QED BY <3>3, HeldNatural, NothingLost
    <2>2. ASSUME NEW v \in Enrolled, NEW rr \in Listed, NEW wr \in Listed, NEW a \in Amounts,
                 Liquidate(u, v, rr, wr, a)
          PROVE  NothingTaken
      BY <2>2, SeizurePays DEF Liquidate
    <2> QED BY <1>1, <2>1, <2>2, DepositGives, WithdrawPays DEF UserStep
  <1>2. ASSUME NEW u \in Enrolled, ObligationStep(u) PROVE NothingTaken
    BY <1>2, DebtsOnly, LockingMoves DEF ObligationStep, Borrow
  <1>3. ASSUME OwnerStep PROVE NothingTaken
    BY <1>0, <1>3
       DEF OwnerStep, AddReserve, SetPause, UpdateMarketAuthority, UpdateReserveConfig, balances
  <1>4. ASSUME NEW r \in Listed, NEW m \in Messages, RefreshReserve(r, m) PROVE NothingTaken
    BY <1>0, <1>4 DEF RefreshReserve, balances
  <1>5. ASSUME Tick \/ UNCHANGED vars PROVE NothingTaken
    BY <1>0, <1>5 DEF Tick, vars, accounts, balances
  <1> QED BY <1>1, <1>2, <1>3, <1>4, <1>5 DEF Next

\* As long as what a reserve's depositors own can be counted in tokens, nobody's
\* cTokens, held or locked, become fewer unless they are paid for, whoever sends
\* what: a redemption pays for each cToken it burns, and a liquidation repays a
\* token of the owner's debt at least.
THEOREM NobodyLosesUnpaid == Spec /\ []TotalsFit => NothingTakenUnpaid
  <1>1. Inv /\ TotalsFit /\ [Next]_vars => NothingTaken
    BY NothingTakenNext
  <1>2. NothingTaken <=> \A u \in Users, r \in Reserves :
          Held(u, r)' < Held(u, r) =>
            \/ liquidity_vault'[r] < liquidity_vault[r]
            \/ \E rr \in Listed :
                 /\ CanFind(obligations[u].borrows, rr)
                 /\ DebtIn(obligations'[u], rr) + RATE_SCALE
                      <= DueIn(u, rr, reserves'[rr].cumulative_borrow_rate_sf)
    BY DEF NothingTaken, PaidFor
  <1> QED BY <1>1, <1>2, Invariance, PTL DEF Spec, NothingTakenUnpaid

(***************************************************************************)
(* Liquidations stay within their bounds.                                  *)
(***************************************************************************)

\* What LiquidationsBounded says of one obligation and two reserves.
Parted(u, rr, wr) ==
  /\ CollateralIn(obligations'[u], wr) < CollateralIn(obligations[u], wr)
  /\ CanFind(obligations[u].borrows, rr)
  /\ DebtIn(obligations'[u], rr) # DebtIn(obligations[u], rr)
Bounded(u, rr, wr, due, repaid, seized) ==
  /\ 2 * repaid <= due
  /\ seized * RateLiquidity(Current(wr)) * Current(wr).market_price_sf * BPS_SCALER * RATE_SCALE
     <= repaid * Current(rr).market_price_sf
          * (BPS_SCALER + Current(wr).config.liquidation_bonus_pct) * RateSupply(Current(wr))
LiquidationOnly ==
  \A u \in Enrolled, rr, wr \in Listed :
    Parted(u, rr, wr) =>
      Bounded(u, rr, wr, DueIn(u, rr, Current(rr).cumulative_borrow_rate_sf),
              DueIn(u, rr, Current(rr).cumulative_borrow_rate_sf) - DebtIn(obligations'[u], rr),
              CollateralIn(obligations[u], wr) - CollateralIn(obligations'[u], wr))

\* A step that takes no collateral off any obligation, or no debt, is no liquidation.
LEMMA NoLiquidation ==
  ASSUME Inv, NEW p, NEW u \in Enrolled, obligations' = [obligations EXCEPT ![u] = p],
         \/ \A r \in Reserves : CollateralIn(p, r) \in Nat
                               /\ CollateralIn(p, r) >= CollateralIn(obligations[u], r)
         \/ \A r \in Reserves : DebtIn(p, r) = DebtIn(obligations[u], r)
  PROVE  LiquidationOnly
  <1> SUFFICES ASSUME NEW v \in Enrolled, NEW rr \in Listed, NEW wr \in Listed, Parted(v, rr, wr)
               PROVE  FALSE
    BY DEF LiquidationOnly
  <1>1. /\ rr \in Reserves /\ wr \in Reserves /\ v \in Users
        /\ CollateralIn(obligations[v], wr) \in Nat
    BY InvFacts, HeldNatural
  <1>2. /\ obligations'[u] = p
        /\ v # u => obligations'[v] = obligations[v]
    BY InvFacts
  <1>3. v = u
    BY <1>1, <1>2 DEF Parted
  <1>4. CASE \A r \in Reserves : CollateralIn(p, r) \in Nat
                               /\ CollateralIn(p, r) >= CollateralIn(obligations[u], r)
    <2>1. CollateralIn(p, wr) \in Nat /\ CollateralIn(p, wr) >= CollateralIn(obligations[v], wr)
      BY <1>1, <1>3, <1>4
    <2>2. CollateralIn(p, wr) < CollateralIn(obligations[v], wr)
      BY <1>2, <1>3 DEF Parted
    <2>3. PICK c \in Nat : c = CollateralIn(obligations[v], wr)
      BY <1>1
    <2> QED BY <2>1, <2>2, <2>3
  <1>5. CASE \A r \in Reserves : DebtIn(p, r) = DebtIn(obligations[u], r)
    BY <1>1, <1>2, <1>3, <1>5 DEF Parted
  <1> QED BY <1>4, <1>5

\* Nor is one that writes no obligation there was.
LEMMA NoneWritten ==
  ASSUME Inv, \A u \in Enrolled : obligations'[u] = obligations[u]
  PROVE  LiquidationOnly
  BY DEF LiquidationOnly, Parted

\* An amount and a seizure within their bounds, in units of the scale.
LEMMA ScaledBound ==
  ASSUME NEW seized \in Nat, NEW L \in Nat, NEW wp \in Nat, NEW amount \in Nat,
         NEW rp \in Nat, NEW e \in Nat, NEW S \in Nat,
         seized * L * wp * BPS_SCALER <= amount * rp * e * S
  PROVE  seized * L * wp * BPS_SCALER * RATE_SCALE <= (amount * RATE_SCALE) * rp * e * S
  <1>1. PICK a1 \in Nat, a2 \in Nat :
          a1 = seized * L * wp * BPS_SCALER /\ a2 = amount * rp * e * S
    BY Widths
  <1>2. a1 * RATE_SCALE <= a2 * RATE_SCALE
    BY <1>1, ScaleAssumption
  <1>3. a2 * RATE_SCALE = (amount * RATE_SCALE) * rp * e * S
    BY <1>1, ScaleAssumption
  <1> QED BY <1>1, <1>2, <1>3

\* What both liquidations have in common stays within the bounds.
LEMMA SeizureWithin ==
  ASSUME Inv, NEW liquidator \in Users, NEW u \in Enrolled, NEW rr \in Listed, NEW wr \in Listed,
         NEW a \in Amounts, Seize(liquidator, u, rr, wr, a)
  PROVE  LiquidationOnly
  <1>1. PICK amount : amount = ActualRepay(obligations[u], rr, Current(rr), a)
    OBVIOUS
  <1>2. PICK seized : seized = Seized(obligations[u], wr, amount, Current(rr), Current(wr))
    OBVIOUS
  <1>3. PICK p : p = liquidated(obligations[u], rr, wr, amount, seized, Current(rr))
    OBVIOUS
  <1>4. PICK due : due = Due(obligations[u], rr, Current(rr).cumulative_borrow_rate_sf)
    OBVIOUS
  <1>5. /\ amount \in Nat /\ seized \in Nat
        /\ Seizure(obligations[u], p, rr, wr, amount, seized, due)
    BY <1>1, <1>2, <1>3, <1>4, SeizeFacts
  <1>6. /\ obligations' = [obligations EXCEPT ![u] = p]
        /\ CanSeize(obligations[u], rr, wr, a, Current(rr), Current(wr), slot)
        /\ Accrues(rr) /\ Accrues(wr) /\ wr \in Reserves /\ rr \in Reserves
    BY <1>1, <1>2, <1>3, InvFacts DEF Seize
  <1>7. Current(rr) \in ReserveType /\ Current(wr) \in ReserveType
    BY <1>6, CurrentLater, Fields DEF Later
  <1>8. seized * RateLiquidity(Current(wr)) * Current(wr).market_price_sf * BPS_SCALER
          <= amount * Current(rr).market_price_sf
               * (BPS_SCALER + Current(wr).config.liquidation_bonus_pct) * RateSupply(Current(wr))
    <2>1. /\ Current(wr).market_price_sf > 0 /\ CanTotalSupply(Current(wr))
          /\ CanFind(obligations[u].deposits, wr)
      BY <1>6 DEF CanSeize
    <2>2. obligations[u].deposits[find(obligations[u].deposits, wr)].deposited_amount \in Nat
      BY <1>6, <2>1, InvFacts, FoundDeposit
    <2> QED BY <1>2, <1>5, <1>7, <2>1, <2>2, SeizedBound
  <1>9. PICK L \in Nat, S \in Nat, wp \in Nat, rp \in Nat, e \in Nat :
          /\ L = RateLiquidity(Current(wr)) /\ S = RateSupply(Current(wr))
          /\ wp = Current(wr).market_price_sf /\ rp = Current(rr).market_price_sf
          /\ e = BPS_SCALER + Current(wr).config.liquidation_bonus_pct
    <2>1. RateLiquidity(Current(wr)) \in Nat /\ RateSupply(Current(wr)) \in Nat
      BY <1>7, ReserveFields, TotalSupplyType DEF RateLiquidity, RateSupply
    <2>2. Current(wr).market_price_sf \in Nat /\ Current(rr).market_price_sf \in Nat
      BY <1>7, Widths DEF ReserveType
    <2>3. Current(wr).config.liquidation_bonus_pct \in Nat
      BY <1>7, Widths DEF ReserveType, ConfigType
    <2> QED BY <2>1, <2>2, <2>3, Widths
  <1>10. PICK w \in Nat : w = amount * RATE_SCALE
    BY <1>5, ScaleAssumption
  <1>11. /\ due \in Nat /\ 2 * w <= due /\ DebtIn(p, rr) = due - w
         /\ CollateralIn(obligations[u], wr) \in Nat
         /\ CollateralIn(p, wr) = CollateralIn(obligations[u], wr) - seized
    BY <1>5, <1>10 DEF Seizure
  <1>12. Bounded(u, rr, wr, due, due - DebtIn(p, rr),
                 CollateralIn(obligations[u], wr) - CollateralIn(p, wr))
    <2>1. /\ due - DebtIn(p, rr) = w
          /\ CollateralIn(obligations[u], wr) - CollateralIn(p, wr) = seized
      BY <1>5, <1>11
    <2>2. seized * L * wp * BPS_SCALER * RATE_SCALE <= w * rp * e * S
      BY <1>5, <1>8, <1>9, <1>10, ScaledBound
    <2> QED BY <1>9, <1>11, <2>1, <2>2 DEF Bounded
  <1> SUFFICES ASSUME NEW v \in Enrolled, NEW r1 \in Listed, NEW r2 \in Listed, Parted(v, r1, r2)
               PROVE  v = u /\ r1 = rr /\ r2 = wr
    BY <1>4, <1>6, <1>12, InvFacts DEF LiquidationOnly, DueIn, Due
  <1>13. /\ obligations'[u] = p
         /\ v # u => obligations'[v] = obligations[v]
    BY <1>6, InvFacts
  <1>14. v = u
    BY <1>13 DEF Parted
  <1>15. r1 \in Reserves /\ r2 \in Reserves /\ CollateralIn(obligations[u], r2) \in Nat
    BY InvFacts, HeldNatural
  <1>16. r1 = rr
    BY <1>5, <1>13, <1>14, <1>15 DEF Parted, Seizure
  <1>17. r2 = wr
    <2>1. SUFFICES ASSUME r2 # wr PROVE FALSE
      OBVIOUS
    <2>2. CollateralIn(p, r2) = CollateralIn(obligations[u], r2)
      BY <1>5, <1>15, <2>1 DEF Seizure
    <2> QED BY <1>13, <1>14, <1>15, <2>2 DEF Parted
  <1> QED BY <1>14, <1>16, <1>17

\* Debt and collateral written together is a liquidation; the rest writes one alone.
LEMMA DebtOrCollateral ==
  ASSUME Inv, NEW u \in Enrolled,
         \/ RefreshObligation(u)
         \/ \E r \in Listed, a \in Amounts :
              \/ Lend(u, r, a) \/ Repay(u, r, a)
              \/ DepositCollateral(u, r, a) \/ WithdrawCollateral(u, r, a)
  PROVE  LiquidationOnly
  <1>1. ASSUME NEW p, obligations' = [obligations EXCEPT ![u] = p],
               \A q \in Reserves : CollateralIn(p, q) = CollateralIn(obligations[u], q)
        PROVE  LiquidationOnly
    <2>1. \A q \in Reserves : CollateralIn(p, q) \in Nat
                             /\ CollateralIn(p, q) >= CollateralIn(obligations[u], q)
      BY <1>1, InvFacts, HeldNatural
    <2> QED BY <1>1, <2>1, NoLiquidation
  <1>2. CASE RefreshObligation(u)
    <2>1. PICK p : p = refresh_obligation(obligations[u], reserves, slot)
      OBVIOUS
    <2>2. \A q : CollateralIn(p, q) = CollateralIn(obligations[u], q)
      BY <1>2, <2>1, RefreshedHere DEF RefreshObligation
    <2> QED BY <1>1, <1>2, <2>1, <2>2 DEF RefreshObligation
  <1>3. ASSUME NEW r \in Listed, NEW a \in Amounts, Repay(u, r, a) PROVE LiquidationOnly
    <2>1. PICK p : p = repay_debt(obligations[u], r, a, Current(r))
      OBVIOUS
    <2>2. \A q : CollateralIn(p, q) = CollateralIn(obligations[u], q)
      BY <1>3, <2>1, RepayCounts, SameCollateralIn
    <2> QED BY <1>1, <1>3, <2>1, <2>2 DEF Repay
  <1>4. ASSUME NEW r \in Listed, NEW a \in Amounts, Lend(u, r, a) PROVE LiquidationOnly
    <2>1. PICK p : p = borrow_against(obligations[u], r, a, Current(r))
      OBVIOUS
    <2>2. \A q : CollateralIn(p, q) = CollateralIn(obligations[u], q)
      BY <1>4, <2>1, LentCollateral
    <2> QED BY <1>1, <1>4, <2>1, <2>2 DEF Lend
  <1>5. ASSUME NEW p, obligations' = [obligations EXCEPT ![u] = p], SameDebts(obligations[u], p)
        PROVE  LiquidationOnly
    <2>1. \A q \in Reserves : DebtIn(p, q) = DebtIn(obligations[u], q)
      BY <1>5 DEF SameDebts, DebtIn
    <2> QED BY <1>5, <2>1, NoLiquidation
  <1>6. ASSUME NEW r \in Listed, NEW a \in Amounts, DepositCollateral(u, r, a)
        PROVE  LiquidationOnly
    <2>1. PICK p : p = deposit(obligations[u], r, a)
      OBVIOUS
    <2>2. a \in Nat /\ r \in Reserves /\ Sound(obligations[u], reserves)
      BY AmountType, InvFacts
    <2>3. SameDebts(obligations[u], p)
      BY <1>6, <2>1, <2>2, Deposited DEF DepositCollateral
    <2> QED BY <1>5, <1>6, <2>1, <2>3 DEF DepositCollateral
  <1>7. ASSUME NEW r \in Listed, NEW a \in Amounts, WithdrawCollateral(u, r, a)
        PROVE  LiquidationOnly
    <2>1. PICK p : p = release_collateral(obligations[u], r, a)
      OBVIOUS
    <2>2. a \in Nat /\ r \in Reserves /\ Sound(obligations[u], reserves)
      BY AmountType, InvFacts
    <2>3. SameDebts(obligations[u], p)
      BY <1>7, <2>1, <2>2, Released DEF WithdrawCollateral, CanReleaseCollateral
    <2> QED BY <1>5, <1>7, <2>1, <2>3 DEF WithdrawCollateral
  <1> QED BY <1>2, <1>3, <1>4, <1>6, <1>7

\* In every step of the market that takes debt and collateral off an obligation the
\* bounds are kept.
LEMMA LiquidationNext ==
  ASSUME Inv, [Next]_vars
  PROVE  LiquidationOnly
  <1>0. ASSUME UNCHANGED obligations PROVE LiquidationOnly
    BY <1>0, NoneWritten
  <1>1. ASSUME NEW u \in Users, UserStep(u) PROVE LiquidationOnly
    <2>1. CASE InitObligation(u)
      <3>1. \A v \in Enrolled : obligations'[v] = obligations[v]
        BY <2>1 DEF InitObligation, Enrolled
      <3> QED BY <3>1, NoneWritten
    <2>2. ASSUME NEW r \in Listed, NEW a \in Amounts, Deposit(u, r, a) \/ Withdraw(u, r, a)
          PROVE  LiquidationOnly
      BY <1>0, <2>2 DEF Deposit, Withdraw
    <2>3. ASSUME NEW v \in Enrolled, NEW rr \in Listed, NEW wr \in Listed, NEW a \in Amounts,
                 Liquidate(u, v, rr, wr, a)
          PROVE  LiquidationOnly
      BY <2>3, SeizureWithin DEF Liquidate
    <2> QED BY <1>1, <2>1, <2>2, <2>3 DEF UserStep
  <1>2. ASSUME NEW u \in Enrolled, ObligationStep(u) PROVE LiquidationOnly
    BY <1>2, DebtOrCollateral DEF ObligationStep, Borrow
  <1>3. ASSUME OwnerStep PROVE LiquidationOnly
    BY <1>0, <1>3 DEF OwnerStep, AddReserve, SetPause, UpdateMarketAuthority, UpdateReserveConfig
  <1>4. ASSUME NEW r \in Listed, NEW m \in Messages, RefreshReserve(r, m) PROVE LiquidationOnly
    BY <1>0, <1>4 DEF RefreshReserve
  <1>5. ASSUME Tick \/ UNCHANGED vars PROVE LiquidationOnly
    BY <1>0, <1>5 DEF Tick, vars, accounts
  <1> QED BY <1>1, <1>2, <1>3, <1>4, <1>5 DEF Next

\* The property, in the parts the lemmas are about.
LEMMA LiquidationParts ==
  LiquidationOnly <=>
    \A u \in Enrolled, rr, wr \in Listed :
      /\ CollateralIn(obligations'[u], wr) < CollateralIn(obligations[u], wr)
      /\ CanFind(obligations[u].borrows, rr)
      /\ DebtIn(obligations'[u], rr) # DebtIn(obligations[u], rr)
      => LET due    == DueIn(u, rr, Current(rr).cumulative_borrow_rate_sf)
             repaid == due - DebtIn(obligations'[u], rr)
             seized == CollateralIn(obligations[u], wr) - CollateralIn(obligations'[u], wr)
         IN  /\ 2 * repaid <= due
             /\ seized * RateLiquidity(Current(wr)) * Current(wr).market_price_sf
                  * BPS_SCALER * RATE_SCALE
                <= repaid * Current(rr).market_price_sf
                     * (BPS_SCALER + Current(wr).config.liquidation_bonus_pct)
                     * RateSupply(Current(wr))
  BY DEF LiquidationOnly, Parted, Bounded

\* No liquidation repays more than half of a debt, with interest up to the slot it
\* happens in, or seizes more than the worth of that and the bonus, at the rates
\* and prices it finds, also between two sides of one reserve.
THEOREM LiquidationsFair == Spec => LiquidationsBounded
  <1>1. Inv /\ [Next]_vars => LiquidationOnly
    BY LiquidationNext
  <1> QED BY <1>1, LiquidationParts, Invariance, PTL DEF Spec, LiquidationsBounded
===============================================================================
