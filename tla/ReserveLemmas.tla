------------------------------ MODULE ReserveLemmas ------------------------------
(***************************************************************************)
(* What the methods of a reserve do to the books, for every fixed-point    *)
(* scale and integer width: facts about the operators of ReserveState that *)
(* the proofs about one reserve, an obligation and the market all cite.    *)
(***************************************************************************)
EXTENDS ReserveState, TLAPS

(***************************************************************************)
(* Arithmetic.                                                             *)
(***************************************************************************)

\* Truncated multiplication and division never exceeds the exact quotient.
LEMMA MulDivBound ==
  ASSUME NEW a \in Nat, NEW b \in Nat, NEW d \in Nat \ {0}
  PROVE  /\ MulDiv(a, b, d) \in Nat
         /\ MulDiv(a, b, d) * d <= a * b
  <1>1. a * b \in Nat
    OBVIOUS
  <1> QED BY <1>1 DEF MulDiv

\* Keeping the low bits never makes a natural number larger.
LEMMA AsU64Bound ==
  ASSUME NEW x \in Nat
  PROVE  AsU64(x) \in U64 /\ AsU64(x) <= x
  BY WidthAssumption DEF AsU64, U64

\* Keeping sixteen bits gives a u16.
LEMMA AsU16Type ==
  ASSUME NEW x \in Int
  PROVE  AsU16(x) \in U16
  BY DEF AsU16, U16

\* The integer types are sets of natural numbers, and the scales natural numbers.
LEMMA Widths ==
  /\ U8 \subseteq Nat /\ U16 \subseteq Nat /\ U64 \subseteq Nat /\ U128 \subseteq Nat
  /\ BPS_SCALER \in Nat \ {0}
  /\ PERCENT_SCALER \in Nat \ {0}
  BY DEF U8, U16, U64, U128, BPS_SCALER, PERCENT_SCALER

\* A saturating subtraction of naturals is a natural.
LEMMA SaturatingSubType ==
  ASSUME NEW a \in Nat, NEW b \in Nat
  PROVE  SaturatingSub(a, b) \in Nat
  BY DEF SaturatingSub

(***************************************************************************)
(* Facts about the methods of a reserve.                                   *)
(***************************************************************************)

\* The fields of a reserve are natural numbers, its configuration a ConfigType.
LEMMA ReserveFields ==
  ASSUME NEW r \in ReserveType
  PROVE  /\ r.available_amount \in Nat
         /\ r.borrowed_amount_sf \in Nat
         /\ r.cumulative_borrow_rate_sf \in Nat
         /\ r.accumulated_protocol_fees \in Nat
         /\ r.mint_total_supply \in Nat
         /\ r.last_update_slot \in Nat
         /\ r.config \in ConfigType
  BY Widths DEF ReserveType

\* The fields of a configuration that accrual reads are u16.
LEMMA ConfigFields ==
  ASSUME NEW c \in ConfigType
  PROVE  /\ c.min_borrow_rate_bps \in U16
         /\ c.optimal_borrow_rate_bps \in U16
         /\ c.max_borrow_rate_bps \in U16
         /\ c.optimal_utilization_bps \in U16
         /\ c.protocol_fee \in U16
  BY DEF ConfigType

\* What the depositors own is an integer, and a natural number when it can
\* be computed at all.
LEMMA TotalSupplyType ==
  ASSUME NEW r \in ReserveType
  PROVE  /\ total_supply(r) \in Int
         /\ TotalSupplyOrZero(r) \in Nat
         /\ TotalSupplyOrZero(r) # 0 => TotalSupplyOrZero(r) = total_supply(r)
  <1>1. total_supply(r) \in Int
    BY ReserveFields DEF total_supply
  <1> QED BY <1>1 DEF TotalSupplyOrZero, CanTotalSupply

\* A point of the rate curve is an integer, on either side of the kink.
LEMMA CurvePointType ==
  ASSUME NEW low \in Nat, NEW high \in Nat, NEW part \in Nat, NEW whole \in Nat
  PROVE  CurvePoint(low, high, part, whole) \in Int
  <1>1. SaturatingSub(high, low) \in Nat
    BY SaturatingSubType
  <1>2. CASE whole = 0
    BY <1>2 DEF CurvePoint
  <1>3. CASE whole # 0
    <2>1. MulDiv(part, SaturatingSub(high, low), whole) \in Nat
      BY <1>1, <1>3, MulDivBound
    <2> QED BY <2>1, <1>3 DEF CurvePoint
  <1> QED BY <1>2, <1>3

\* The borrow rate is a u16 whatever the utilization.
LEMMA BorrowRateType ==
  ASSUME NEW c \in ConfigType, NEW util \in Nat
  PROVE  borrow_rate(c, util) \in U16
  <1>1. /\ c.min_borrow_rate_bps \in Nat
        /\ c.optimal_borrow_rate_bps \in Nat
        /\ c.max_borrow_rate_bps \in Nat
        /\ c.optimal_utilization_bps \in Nat
    BY ConfigFields, Widths
  <1>2. SaturatingSub(BPS_SCALER, c.optimal_utilization_bps) \in Nat
    BY <1>1, SaturatingSubType, Widths
  <1>3. CurvePoint(c.min_borrow_rate_bps, c.optimal_borrow_rate_bps,
                   util, c.optimal_utilization_bps) \in Int
    BY <1>1, CurvePointType
  <1>4. ~(util <= c.optimal_utilization_bps) =>
          CurvePoint(c.optimal_borrow_rate_bps, c.max_borrow_rate_bps,
                     util - c.optimal_utilization_bps,
                     SaturatingSub(BPS_SCALER, c.optimal_utilization_bps)) \in Int
    <2>1. ~(util <= c.optimal_utilization_bps) => util - c.optimal_utilization_bps \in Nat
      BY <1>1
    <2> QED BY <1>1, <1>2, <2>1, CurvePointType
  <1> QED BY <1>3, <1>4, AsU16Type DEF borrow_rate

\* The rate an accrual charges is a u16, whatever the utilization wraps to.
LEMMA CurrentBorrowRateType ==
  ASSUME NEW r \in ReserveType
  PROVE  current_borrow_rate(r) \in U16
  <1>1. utilization_rate(r) \in Nat
    <2>1. CASE TotalSupplyOrZero(r) = 0
      BY <2>1 DEF utilization_rate
    <2>2. CASE TotalSupplyOrZero(r) # 0
      <3>1. total_supply(r) \in Nat \ {0}
        BY <2>2, TotalSupplyType
      <3>2. MulDiv(r.borrowed_amount_sf, PERCENT_SCALER, total_supply(r)) \in Nat
        BY <3>1, ReserveFields, MulDivBound, Widths
      <3> QED BY <2>2, <3>2 DEF utilization_rate
    <2> QED BY <2>1, <2>2
  <1>2. AsU16(utilization_rate(r) * 100) \in Nat
    <2>1. utilization_rate(r) * 100 \in Int
      BY <1>1
    <2> QED BY <2>1, AsU16Type, Widths
  <1> QED BY <1>2, BorrowRateType, ReserveFields DEF current_borrow_rate
\* The rate of a period is a natural number, and nothing at 0 bps.
LEMMA PeriodRateType ==
  ASSUME NEW bps \in Nat, NEW elapsed \in Nat
  PROVE  /\ PeriodRate(bps, elapsed) \in Nat
         /\ bps = 0 => PeriodRate(bps, elapsed) = 0
  <1>1. bps * elapsed \in Nat
    OBVIOUS
  <1>2. MulDiv(bps * elapsed, RATE_SCALE, SLOTS_PER_YEAR) \in Nat
    BY <1>1, MulDivBound, ScaleAssumption
  <1>3. bps = 0 => MulDiv(bps * elapsed, RATE_SCALE, SLOTS_PER_YEAR) = 0
    BY ScaleAssumption DEF MulDiv
  <1> QED BY <1>2, <1>3 DEF PeriodRate, BPS_SCALER

\* Interest at a given rate: the debt, the fees and the index grow, and of
\* what the debt grows by the fees take at most MAX_PROTOCOL_FEE_BPS.
LEMMA InterestParts ==
  ASSUME NEW r \in ReserveType, NEW rate \in Nat,
         r.config.protocol_fee <= MAX_PROTOCOL_FEE_BPS
  PROVE  /\ DebtAccrued(r, rate) \in Nat
         /\ FeeAccrued(r, rate) \in Nat
         /\ RateAccrued(r, rate) \in Nat
         /\ FeeAccrued(r, rate) * BPS_SCALER <= DebtAccrued(r, rate) * MAX_PROTOCOL_FEE_BPS
         /\ FeeAccrued(r, rate) <= DebtAccrued(r, rate)
         /\ rate = 0 => /\ DebtAccrued(r, rate) = 0
                        /\ FeeAccrued(r, rate) = 0
                        /\ RateAccrued(r, rate) = 0
  <1>1. DebtAccrued(r, rate) \in Nat /\ RateAccrued(r, rate) \in Nat
    BY ReserveFields, MulDivBound, ScaleAssumption DEF DebtAccrued, RateAccrued
  <1>2. r.config.protocol_fee \in Nat
    BY ReserveFields, ConfigFields, Widths
  <1>3. /\ FeeAccrued(r, rate) \in Nat
        /\ FeeAccrued(r, rate) * BPS_SCALER <= DebtAccrued(r, rate) * r.config.protocol_fee
    BY <1>1, <1>2, MulDivBound, Widths DEF FeeAccrued
  <1>4. DebtAccrued(r, rate) * r.config.protocol_fee
          <= DebtAccrued(r, rate) * MAX_PROTOCOL_FEE_BPS
    BY <1>1, <1>2 DEF MAX_PROTOCOL_FEE_BPS
  <1>5. FeeAccrued(r, rate) * BPS_SCALER <= DebtAccrued(r, rate) * MAX_PROTOCOL_FEE_BPS
    BY <1>1, <1>2, <1>3, <1>4 DEF MAX_PROTOCOL_FEE_BPS, BPS_SCALER
  <1>6. FeeAccrued(r, rate) <= DebtAccrued(r, rate)
    BY <1>1, <1>3, <1>5 DEF MAX_PROTOCOL_FEE_BPS, BPS_SCALER
  <1>7. ASSUME rate = 0
        PROVE  DebtAccrued(r, rate) = 0 /\ RateAccrued(r, rate) = 0
    BY <1>7, ReserveFields, ScaleAssumption DEF DebtAccrued, RateAccrued, MulDiv
  <1>8. DebtAccrued(r, rate) = 0 => FeeAccrued(r, rate) = 0
    BY <1>1, <1>3, <1>6
  <1> QED BY <1>1, <1>3, <1>5, <1>6, <1>7, <1>8
\* How an accrual changes a reserve: at most the debt, the fees, the index and
\* the slot, which all move forward, and the depositors get what the protocol
\* does not take.
Grows(r, q) ==
  /\ q \in ReserveType
  /\ q.available_amount = r.available_amount
  /\ q.mint_total_supply = r.mint_total_supply
  /\ q.config = r.config
  /\ q.cumulative_borrow_rate_sf >= r.cumulative_borrow_rate_sf
  /\ total_supply(q) >= total_supply(r)
  /\ (q.accumulated_protocol_fees - r.accumulated_protocol_fees)
       * (BPS_SCALER - MAX_PROTOCOL_FEE_BPS)
     <= (total_supply(q) - total_supply(r)) * MAX_PROTOCOL_FEE_BPS

\* Adding the interest of a rate, and stamping a slot, lets a reserve grow.
LEMMA InterestGrows ==
  ASSUME NEW r \in ReserveType, NEW rate \in Nat, NEW s \in U64, NEW q,
         r.config.protocol_fee <= MAX_PROTOCOL_FEE_BPS,
         q = [WithInterest(r, rate) EXCEPT !.last_update_slot = s],
         rate # 0 =>
           /\ r.borrowed_amount_sf + DebtAccrued(r, rate) <= MAX_U128
           /\ r.accumulated_protocol_fees + FeeAccrued(r, rate) <= MAX_U128
           /\ r.cumulative_borrow_rate_sf + RateAccrued(r, rate) <= MAX_U128
  PROVE  Grows(r, q)
  <1>1. PICK d, f, x \in Nat : /\ d = DebtAccrued(r, rate)
                               /\ f = FeeAccrued(r, rate)
                               /\ x = RateAccrued(r, rate)
    BY InterestParts
  <1>2. /\ f * BPS_SCALER <= d * MAX_PROTOCOL_FEE_BPS
        /\ rate = 0 => d = 0 /\ f = 0 /\ x = 0
    BY <1>1, InterestParts
  <1>3. q = [r EXCEPT !.borrowed_amount_sf        = r.borrowed_amount_sf + d,
                      !.accumulated_protocol_fees = r.accumulated_protocol_fees + f,
                      !.cumulative_borrow_rate_sf = r.cumulative_borrow_rate_sf + x,
                      !.last_update_slot          = s]
    BY <1>1 DEF WithInterest, ReserveType
  <1>4. /\ r.borrowed_amount_sf + d \in U128
        /\ r.accumulated_protocol_fees + f \in U128
        /\ r.cumulative_borrow_rate_sf + x \in U128
    <2>1. CASE rate = 0
      <3>1. /\ r.borrowed_amount_sf \in U128 /\ r.accumulated_protocol_fees \in U128
            /\ r.cumulative_borrow_rate_sf \in U128
        BY DEF ReserveType
      <3> QED BY <1>2, <2>1, <3>1, Widths
    <2>2. CASE rate # 0
      BY <1>1, <2>2, ReserveFields, WidthAssumption DEF U128
    <2> QED BY <2>1, <2>2
  <1>5. q \in ReserveType
    BY <1>3, <1>4 DEF ReserveType
  <1>6. /\ q.available_amount = r.available_amount
        /\ q.mint_total_supply = r.mint_total_supply
        /\ q.config = r.config
        /\ q.cumulative_borrow_rate_sf = r.cumulative_borrow_rate_sf + x
        /\ q.borrowed_amount_sf = r.borrowed_amount_sf + d
        /\ q.accumulated_protocol_fees = r.accumulated_protocol_fees + f
    BY <1>3 DEF ReserveType
  <1>7. total_supply(q) = total_supply(r) + (d - f)
    BY <1>6, ReserveFields DEF total_supply
  <1> QED
    BY <1>2, <1>5, <1>6, <1>7, ReserveFields, TotalSupplyType
       DEF Grows, BPS_SCALER, MAX_PROTOCOL_FEE_BPS

\* A reserve left alone grows, by nothing.
LEMMA GrowsReflexive ==
  ASSUME NEW r \in ReserveType
  PROVE  Grows(r, r)
  BY ReserveFields, TotalSupplyType DEF Grows, BPS_SCALER, MAX_PROTOCOL_FEE_BPS

\* accrue_interest lets a reserve grow, and only a reserve that was behind.
LEMMA AccrueGrows ==
  ASSUME NEW r \in ReserveType, NEW s \in U64, NEW q,
         r.config.protocol_fee <= MAX_PROTOCOL_FEE_BPS,
         CanAccrue(r, s),
         q = accrue_interest(r, s)
  PROVE  /\ Grows(r, q)
         /\ q # r => r.last_update_slot < s
         /\ q.last_update_slot = IF r.last_update_slot < s THEN s ELSE r.last_update_slot
         /\ q.market_price_sf = r.market_price_sf
  <1>1. s \in Nat /\ r.last_update_slot \in Nat
    BY ReserveFields, Widths
  <1>2. CASE r.last_update_slot >= s
    <2>1. q = r
      BY <1>1, <1>2 DEF accrue_interest, SlotsElapsed, SaturatingSub
    <2> QED BY <1>1, <1>2, <2>1, GrowsReflexive
  <1>3. CASE r.last_update_slot < s
    <2>1. PICK e \in Nat \ {0} : e = SlotsElapsed(r, s)
      BY <1>1, <1>3 DEF SlotsElapsed, SaturatingSub
    <2>2. PICK bps \in Nat : bps = current_borrow_rate(r)
      BY CurrentBorrowRateType, Widths
    <2>3. PICK rate \in Nat : rate = PeriodRate(bps, e)
      BY PeriodRateType
    <2>4. q = [WithInterest(r, rate) EXCEPT !.last_update_slot = s]
      BY <2>1, <2>2, <2>3 DEF accrue_interest
    <2>5. rate # 0 => CanAddInterest(r, bps, e)
      <3>1. rate # 0 => bps > 0
        BY <2>3, PeriodRateType
      <3>2. SlotsElapsed(r, s) > 0
        BY <2>1
      <3>3. current_borrow_rate(r) > 0 =>
              CanAddInterest(r, current_borrow_rate(r), SlotsElapsed(r, s))
        BY <3>2 DEF CanAccrue
      <3> QED BY <2>1, <2>2, <3>1, <3>3
    <2>6. rate # 0 =>
            /\ r.borrowed_amount_sf + DebtAccrued(r, rate) <= MAX_U128
            /\ r.accumulated_protocol_fees + FeeAccrued(r, rate) <= MAX_U128
            /\ r.cumulative_borrow_rate_sf + RateAccrued(r, rate) <= MAX_U128
      BY <2>3, <2>5 DEF CanAddInterest
    <2>7. Grows(r, q)
      BY <2>4, <2>6, InterestGrows
    <2>8. q.last_update_slot = s /\ q.market_price_sf = r.market_price_sf
      BY <2>4 DEF WithInterest, ReserveType
    <2> QED BY <1>3, <2>7, <2>8
  <1> QED BY <1>1, <1>2, <1>3

(***************************************************************************)
(* The exchange rate and the two conversions.                              *)
(***************************************************************************)
Backed(r) == total_supply(r) >= r.mint_total_supply

\* The two sides of the rate are natural numbers and not 0; the rate is the
\* true one as soon as cTokens exist and total_supply can be computed.
LEMMA RateSides ==
  ASSUME NEW r \in ReserveType, Backed(r)
  PROVE  /\ RateSupply(r) \in Nat \ {0}
         /\ RateLiquidity(r) \in Nat \ {0}
         /\ \/ RateSupply(r) = 1 /\ RateLiquidity(r) = 1
            \/ RateSupply(r) = r.mint_total_supply /\ RateLiquidity(r) = total_supply(r)
         /\ r.mint_total_supply > 0 /\ CanTotalSupply(r) =>
              RateSupply(r) = r.mint_total_supply /\ RateLiquidity(r) = total_supply(r)
  <1>1. r.mint_total_supply \in Nat /\ total_supply(r) \in Int
    BY ReserveFields, TotalSupplyType
  <1>2. CASE AtPar(r)
    <2>1. RateSupply(r) = 1 /\ RateLiquidity(r) = 1
      BY <1>2 DEF RateSupply, RateLiquidity
    <2>2. ~(r.mint_total_supply > 0 /\ CanTotalSupply(r))
      BY <1>1, <1>2 DEF AtPar, TotalSupplyOrZero, Backed
    <2> QED BY <2>1, <2>2
  <1>3. CASE ~AtPar(r)
    <2>1. /\ RateSupply(r) = r.mint_total_supply
          /\ RateLiquidity(r) = TotalSupplyOrZero(r)
      BY <1>3 DEF RateSupply, RateLiquidity
    <2>2. r.mint_total_supply # 0 /\ TotalSupplyOrZero(r) # 0
      BY <1>3 DEF AtPar
    <2> QED BY <1>1, <2>1, <2>2, TotalSupplyType
  <1> QED BY <1>2, <1>3

\* Redeeming gives no more than the pro-rata part of the pool.
LEMMA RedeemRoundsDown ==
  ASSUME NEW r \in ReserveType, Backed(r), NEW c \in Nat
  PROVE  /\ collateral_to_liquidity(r, c) \in U64
         /\ collateral_to_liquidity(r, c) * r.mint_total_supply <= c * total_supply(r)
  <1> DEFINE exact == MulDiv(c, RateLiquidity(r), RateSupply(r))
  <1>1. r.mint_total_supply \in Nat /\ total_supply(r) \in Nat
        /\ r.mint_total_supply <= total_supply(r)
    BY ReserveFields, TotalSupplyType DEF Backed
  <1>2. exact \in Nat /\ exact * RateSupply(r) <= c * RateLiquidity(r)
    BY RateSides, MulDivBound
  <1>3. PICK l \in Nat : l = collateral_to_liquidity(r, c) /\ l \in U64 /\ l <= exact
    BY <1>2, AsU64Bound, Widths DEF collateral_to_liquidity
  <1>4. l * RateSupply(r) <= c * RateLiquidity(r)
    <2> HIDE DEF exact
    <2> QED BY <1>2, <1>3, RateSides
  <1>5. CASE RateSupply(r) = r.mint_total_supply /\ RateLiquidity(r) = total_supply(r)
    BY <1>3, <1>4, <1>5
  <1>6. CASE RateSupply(r) = 1 /\ RateLiquidity(r) = 1
    <2>1. l <= c
      BY <1>3, <1>4, <1>6
    <2>2. l * r.mint_total_supply <= c * r.mint_total_supply
      BY <2>1, <1>1, <1>3
    <2>3. c * r.mint_total_supply <= c * total_supply(r)
      BY <1>1
    <2> QED BY <1>1, <1>3, <2>2, <2>3
  <1> QED BY <1>5, <1>6, RateSides

\* A deposit mints no more than its pro-rata part, and never more than its amount.
LEMMA MintRoundsDown ==
  ASSUME NEW r \in ReserveType, Backed(r), CanTotalSupply(r), NEW a \in Nat
  PROVE  /\ liquidity_to_collateral(r, a) \in U64
         /\ liquidity_to_collateral(r, a) <= a
         /\ r.mint_total_supply > 0 =>
              liquidity_to_collateral(r, a) * total_supply(r) <= a * r.mint_total_supply
  <1> DEFINE exact == MulDiv(a, RateSupply(r), RateLiquidity(r))
  <1>1. r.mint_total_supply \in Nat /\ total_supply(r) \in Nat
        /\ r.mint_total_supply <= total_supply(r)
    BY ReserveFields, TotalSupplyType DEF Backed
  <1>2. exact \in Nat /\ exact * RateLiquidity(r) <= a * RateSupply(r)
    BY RateSides, MulDivBound
  <1>3. PICK m \in Nat : m = liquidity_to_collateral(r, a) /\ m \in U64 /\ m <= exact
    BY <1>2, AsU64Bound, Widths DEF liquidity_to_collateral
  <1>4. m * RateLiquidity(r) <= a * RateSupply(r)
    <2> HIDE DEF exact
    <2> QED BY <1>2, <1>3, RateSides
  <1>5. RateSupply(r) <= RateLiquidity(r)
    BY <1>1, RateSides
  <1>6. m <= a
    <2>1. a * RateSupply(r) <= a * RateLiquidity(r)
      BY <1>5, RateSides
    <2>2. m * RateLiquidity(r) <= a * RateLiquidity(r)
      BY <1>3, <1>4, <2>1, RateSides
    <2> QED BY <1>3, <2>2, RateSides
  <1> QED BY <1>3, <1>4, <1>6, RateSides

(***************************************************************************)
(* Each method on the account that the accrual left, q.                    *)
(***************************************************************************)

\* A method other than an accrual leaves index, fees, slot and configuration alone.
Keeps(q, p) ==
  /\ p \in ReserveType
  /\ p.accumulated_protocol_fees = q.accumulated_protocol_fees
  /\ p.cumulative_borrow_rate_sf = q.cumulative_borrow_rate_sf
  /\ p.last_update_slot = q.last_update_slot
  /\ p.config = q.config

\* deposit_liquidity: which fields change, and total_supply by the amount.
LEMMA DepositFacts ==
  ASSUME NEW q \in ReserveType, Backed(q), NEW a \in Nat,
         CanDepositLiquidity(q, a),
         NEW p, p = deposit_liquidity(q, a)
  PROVE  /\ Keeps(q, p)
         /\ p.available_amount = q.available_amount + a
         /\ p.mint_total_supply = q.mint_total_supply + liquidity_to_collateral(q, a)
         /\ total_supply(p) = total_supply(q) + a
  <1>1. PICK m \in Nat : m = liquidity_to_collateral(q, a)
    BY MintRoundsDown, Widths DEF CanDepositLiquidity
  <1>2. p = [q EXCEPT !.available_amount  = q.available_amount + a,
                      !.mint_total_supply = q.mint_total_supply + m]
    BY <1>1 DEF deposit_liquidity, ReserveType
  <1>3. q.available_amount + a \in U64 /\ q.mint_total_supply + m \in U64
    BY <1>1, ReserveFields, WidthAssumption DEF CanDepositLiquidity, U64
  <1>4. p \in ReserveType
    BY <1>2, <1>3 DEF ReserveType
  <1>5. /\ p.available_amount = q.available_amount + a
        /\ p.mint_total_supply = q.mint_total_supply + m
        /\ p.borrowed_amount_sf = q.borrowed_amount_sf
        /\ Keeps(q, p)
    BY <1>2, <1>4 DEF ReserveType, Keeps
  <1> QED BY <1>1, <1>5, ReserveFields DEF total_supply, Keeps

\* redeem_collateral: which fields change, and total_supply by what is paid.
LEMMA RedeemFacts ==
  ASSUME NEW q \in ReserveType, Backed(q), NEW c \in Nat,
         CanRedeemCollateral(q, c),
         NEW p, p = redeem_collateral(q, c)
  PROVE  /\ Keeps(q, p)
         /\ p.available_amount = q.available_amount - collateral_to_liquidity(q, c)
         /\ p.mint_total_supply = q.mint_total_supply - c
         /\ total_supply(p) = total_supply(q) - collateral_to_liquidity(q, c)
  <1>1. PICK l \in Nat : l = collateral_to_liquidity(q, c)
    BY RedeemRoundsDown, Widths
  <1>2. p = [q EXCEPT !.available_amount  = q.available_amount - l,
                      !.mint_total_supply = q.mint_total_supply - c]
    BY <1>1 DEF redeem_collateral, ReserveType
  <1>3. q.available_amount \in U64 /\ q.mint_total_supply \in U64
    BY DEF ReserveType
  <1>4. q.available_amount - l \in U64 /\ q.mint_total_supply - c \in U64
    BY <1>1, <1>3, WidthAssumption DEF CanRedeemCollateral, U64
  <1>5. p \in ReserveType
    BY <1>2, <1>4 DEF ReserveType
  <1>6. /\ p.available_amount = q.available_amount - l
        /\ p.mint_total_supply = q.mint_total_supply - c
        /\ p.borrowed_amount_sf = q.borrowed_amount_sf
        /\ Keeps(q, p)
    BY <1>2, <1>5 DEF ReserveType, Keeps
  <1> QED BY <1>1, <1>6, ReserveFields DEF total_supply, Keeps

\* borrow: liquidity becomes debt, and total_supply stays.
LEMMA BorrowFacts ==
  ASSUME NEW q \in ReserveType, NEW a \in Nat,
         CanBorrow(q, a),
         NEW p, p = borrow(q, a)
  PROVE  /\ Keeps(q, p)
         /\ p.available_amount = q.available_amount - a
         /\ p.mint_total_supply = q.mint_total_supply
         /\ total_supply(p) = total_supply(q)
  <1>1. p = [q EXCEPT !.available_amount   = q.available_amount - a,
                      !.borrowed_amount_sf = q.borrowed_amount_sf + a]
    BY DEF borrow, ReserveType
  <1>2. q.available_amount \in U64 /\ q.borrowed_amount_sf \in U128
    BY DEF ReserveType
  <1>3. q.available_amount - a \in U64 /\ q.borrowed_amount_sf + a \in U128
    BY <1>2, WidthAssumption DEF CanBorrow, U64, U128
  <1>4. p \in ReserveType
    BY <1>1, <1>3 DEF ReserveType
  <1>5. /\ p.available_amount = q.available_amount - a
        /\ p.mint_total_supply = q.mint_total_supply
        /\ p.borrowed_amount_sf = q.borrowed_amount_sf + a
        /\ Keeps(q, p)
    BY <1>1, <1>4 DEF ReserveType, Keeps
  <1> QED BY <1>5, ReserveFields DEF total_supply, Keeps

\* repay: debt becomes liquidity, and total_supply stays.
LEMMA RepayFacts ==
  ASSUME NEW q \in ReserveType, NEW a \in Nat,
         CanRepay(q, a),
         NEW p, p = repay(q, a)
  PROVE  /\ Keeps(q, p)
         /\ p.available_amount = q.available_amount + a
         /\ p.mint_total_supply = q.mint_total_supply
         /\ total_supply(p) = total_supply(q)
  <1>1. p = [q EXCEPT !.available_amount   = q.available_amount + a,
                      !.borrowed_amount_sf = q.borrowed_amount_sf - a]
    BY DEF repay, ReserveType
  <1>2. q.available_amount \in U64 /\ q.borrowed_amount_sf \in U128
    BY DEF ReserveType
  <1>3. q.available_amount + a \in U64 /\ q.borrowed_amount_sf - a \in U128
    BY <1>2, WidthAssumption DEF CanRepay, U64, U128
  <1>4. p \in ReserveType
    BY <1>1, <1>3 DEF ReserveType
  <1>5. /\ p.available_amount = q.available_amount + a
        /\ p.mint_total_supply = q.mint_total_supply
        /\ p.borrowed_amount_sf = q.borrowed_amount_sf - a
        /\ Keeps(q, p)
    BY <1>1, <1>4 DEF ReserveType, Keeps
  <1> QED BY <1>5, ReserveFields DEF total_supply, Keeps

(***************************************************************************)
(* What a step from r to p may do to the depositors, and that an accrual   *)
(* followed by any of the methods stays within it.                         *)
(***************************************************************************)
FairWorth(r, p) ==
  r.mint_total_supply > 0 =>
    total_supply(p) * r.mint_total_supply >= total_supply(r) * p.mint_total_supply

FairFee(r, p) ==
  p.mint_total_supply = r.mint_total_supply =>
    (p.accumulated_protocol_fees - r.accumulated_protocol_fees)
      * (BPS_SCALER - MAX_PROTOCOL_FEE_BPS)
    <= (total_supply(p) - total_supply(r)) * MAX_PROTOCOL_FEE_BPS

FairVault(r, p) ==
  \/ /\ p.mint_total_supply >= r.mint_total_supply
     /\ total_supply(p) > total_supply(r)
     /\ r.mint_total_supply = 0 => p.mint_total_supply <= total_supply(p) - total_supply(r)
  \/ p.mint_total_supply < r.mint_total_supply
  \/ p.mint_total_supply = r.mint_total_supply /\ total_supply(p) >= total_supply(r)

Fair(r, p) ==
  /\ p \in ReserveType
  /\ Backed(p)
  /\ FairWorth(r, p)
  /\ FairFee(r, p)
  /\ FairVault(r, p)

\* T0 grows by interest to T1; a is deposited for m shares, rounded down.
LEMMA DepositArithmetic ==
  ASSUME NEW T0 \in Nat, NEW T1 \in Nat, NEW S \in Nat, NEW a \in Nat, NEW m \in Nat,
         T0 <= T1, m * T1 <= a * S
  PROVE  (T1 + a) * S >= T0 * (S + m)
  <1>1. (T1 + a) * S = T1 * S + a * S
    OBVIOUS
  <1>2. T1 * (S + m) = T1 * S + m * T1
    OBVIOUS
  <1>3. T1 * (S + m) >= T0 * (S + m)
    OBVIOUS
  <1> QED BY <1>1, <1>2, <1>3

\* c of S shares are redeemed for l, rounded down.
LEMMA RedeemArithmetic ==
  ASSUME NEW T0 \in Nat, NEW T1 \in Nat, NEW S \in Nat, NEW c \in Nat, NEW l \in Nat,
         S <= T0, T0 <= T1, c <= S, 0 < S, l * S <= c * T1
  PROVE  /\ (T1 - l) * S >= T0 * (S - c)
         /\ T1 - l >= S - c
  <1>1. (T1 - l) * S >= T1 * (S - c)
    OBVIOUS
  <1>2. T1 * (S - c) >= T0 * (S - c)
    OBVIOUS
  <1>3. (T1 - l) * S >= S * (S - c)
    <2>1. T1 * (S - c) >= S * (S - c)
      OBVIOUS
    <2> QED BY <1>1, <2>1
  <1>4. T1 - l >= S - c
    BY <1>3
  <1> QED BY <1>1, <1>2, <1>4

\* An accrual alone is fair: the depositors gain, the fee is bounded.
LEMMA FairAccrual ==
  ASSUME NEW r \in ReserveType, Backed(r), NEW q, Grows(r, q)
  PROVE  Fair(r, q)
  <1>1. /\ total_supply(r) \in Nat /\ total_supply(q) \in Nat
        /\ r.mint_total_supply \in Nat
        /\ q.mint_total_supply = r.mint_total_supply
        /\ r.mint_total_supply <= total_supply(r)
        /\ total_supply(r) <= total_supply(q)
    BY ReserveFields, TotalSupplyType DEF Grows, Backed
  <1>2. FairWorth(r, q)
    <2>1. total_supply(q) * r.mint_total_supply >= total_supply(r) * r.mint_total_supply
      BY <1>1
    <2> QED BY <1>1, <2>1 DEF FairWorth
  <1> QED BY <1>1, <1>2 DEF Grows, Fair, FairFee, FairVault, Backed

\* An accrual and a deposit are fair to those who already hold cTokens.
LEMMA FairDeposit ==
  ASSUME NEW r \in ReserveType, Backed(r), NEW q, Grows(r, q),
         NEW a \in Nat \ {0}, CanDepositLiquidity(q, a),
         NEW p, p = deposit_liquidity(q, a)
  PROVE  Fair(r, p)
  <1>1. PICK T0, T1, S, m \in Nat :
          /\ T0 = total_supply(r) /\ T1 = total_supply(q)
          /\ S = r.mint_total_supply /\ m = liquidity_to_collateral(q, a)
          /\ S = q.mint_total_supply /\ S <= T0 /\ T0 <= T1
          /\ q \in ReserveType /\ Backed(q) /\ CanTotalSupply(q)
    <2>1. q \in ReserveType /\ CanTotalSupply(q)
      BY DEF Grows, CanDepositLiquidity
    <2>2. /\ total_supply(r) \in Nat /\ r.mint_total_supply \in Nat
          /\ r.mint_total_supply <= total_supply(r)
      BY ReserveFields, TotalSupplyType DEF Backed
    <2>3. /\ total_supply(q) \in Nat /\ total_supply(r) <= total_supply(q)
          /\ q.mint_total_supply = r.mint_total_supply /\ Backed(q)
      BY <2>1, <2>2, TotalSupplyType DEF Grows, Backed
    <2>4. liquidity_to_collateral(q, a) \in Nat
      BY <2>1, <2>3, MintRoundsDown, Widths
    <2> QED BY <2>1, <2>2, <2>3, <2>4
  <1>2. /\ Keeps(q, p)
        /\ p.mint_total_supply = S + m
        /\ total_supply(p) = T1 + a
    BY <1>1, DepositFacts
  <1>3. m <= a /\ (S > 0 => m * T1 <= a * S)
    BY <1>1, MintRoundsDown
  <1>4. FairWorth(r, p)
    <2>1. S > 0 => (T1 + a) * S >= T0 * (S + m)
      BY <1>1, <1>3, DepositArithmetic
    <2> QED BY <1>1, <1>2, <2>1 DEF FairWorth
  <1>5. FairFee(r, p)
    <2>1. (q.accumulated_protocol_fees - r.accumulated_protocol_fees)
            * (BPS_SCALER - MAX_PROTOCOL_FEE_BPS) <= (T1 - T0) * MAX_PROTOCOL_FEE_BPS
      BY <1>1 DEF Grows
    <2>2. (T1 - T0) * MAX_PROTOCOL_FEE_BPS <= ((T1 + a) - T0) * MAX_PROTOCOL_FEE_BPS
      BY DEF MAX_PROTOCOL_FEE_BPS
    <2>3. /\ q.accumulated_protocol_fees \in Nat /\ r.accumulated_protocol_fees \in Nat
          /\ p.accumulated_protocol_fees = q.accumulated_protocol_fees
      BY <1>1, <1>2, ReserveFields DEF Keeps
    <2> QED BY <1>1, <1>2, <2>1, <2>2, <2>3
            DEF FairFee, BPS_SCALER, MAX_PROTOCOL_FEE_BPS
  <1> QED BY <1>1, <1>2, <1>3, <1>4, <1>5 DEF Keeps, Fair, FairVault, Backed

\* An accrual and a redemption are fair to those who keep their cTokens.
LEMMA FairRedeem ==
  ASSUME NEW r \in ReserveType, Backed(r), NEW q, Grows(r, q),
         NEW c \in Nat \ {0}, CanRedeemCollateral(q, c),
         NEW p, p = redeem_collateral(q, c)
  PROVE  Fair(r, p)
  <1>1. PICK T0, T1, S, l \in Nat :
          /\ T0 = total_supply(r) /\ T1 = total_supply(q)
          /\ S = r.mint_total_supply /\ l = collateral_to_liquidity(q, c)
          /\ S = q.mint_total_supply /\ S <= T0 /\ T0 <= T1
          /\ q \in ReserveType /\ Backed(q) /\ c <= S
    <2>1. q \in ReserveType /\ c <= q.mint_total_supply
      BY DEF Grows, CanRedeemCollateral
    <2>2. /\ total_supply(r) \in Nat /\ r.mint_total_supply \in Nat
          /\ r.mint_total_supply <= total_supply(r)
      BY ReserveFields, TotalSupplyType DEF Backed
    <2>3. /\ total_supply(q) \in Nat /\ total_supply(r) <= total_supply(q)
          /\ q.mint_total_supply = r.mint_total_supply /\ Backed(q)
      BY <2>1, <2>2, TotalSupplyType DEF Grows, Backed
    <2>4. collateral_to_liquidity(q, c) \in Nat
      BY <2>1, <2>3, RedeemRoundsDown, Widths
    <2> QED BY <2>1, <2>2, <2>3, <2>4
  <1>2. /\ Keeps(q, p)
        /\ p.mint_total_supply = S - c
        /\ total_supply(p) = T1 - l
    BY <1>1, RedeemFacts
  <1>3. l * S <= c * T1
    BY <1>1, RedeemRoundsDown
  <1>4. (T1 - l) * S >= T0 * (S - c) /\ T1 - l >= S - c
    <2>1. 0 < S
      BY <1>1
    <2> QED BY <1>1, <1>3, <2>1, RedeemArithmetic
  <1> QED BY <1>1, <1>2, <1>4
          DEF Keeps, Fair, FairWorth, FairFee, FairVault, Backed

\* borrow and repay leave total_supply and the cTokens alone.
LEMMA FairLoan ==
  ASSUME NEW r \in ReserveType, Backed(r), NEW q, Grows(r, q), NEW p, Keeps(q, p),
         p.mint_total_supply = q.mint_total_supply,
         total_supply(p) = total_supply(q)
  PROVE  Fair(r, p)
  BY FairAccrual DEF Fair, FairWorth, FairFee, FairVault, Backed, Keeps

(***************************************************************************)
(* The borrow index: it never falls, and only an accrual of the present    *)
(* slot raises it.                                                         *)
(***************************************************************************)
IndexMoves(r, p, s) ==
  /\ p.cumulative_borrow_rate_sf >= r.cumulative_borrow_rate_sf
  /\ p.cumulative_borrow_rate_sf # r.cumulative_borrow_rate_sf =>
       r.last_update_slot < s /\ p.last_update_slot = s
=================================================================================
