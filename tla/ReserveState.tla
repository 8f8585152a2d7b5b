----------------------------- MODULE ReserveState -----------------------------
(***************************************************************************)
(* One Reserve account (state/reserve.rs) as a record, with one operator   *)
(* per method.  `op(r, ..)` is the record the method leaves behind and     *)
(* `CanOp(r, ..)` says that it returns Ok.  Handlers compose these.        *)
(***************************************************************************)
EXTENDS FixedPoint

MAX_PROTOCOL_FEE_BPS          == 1000
MAX_LIQUIDATION_THRESHOLD_PCT == 100
MAX_UTILIZATION_BPS           == 10000

ConfigType ==
  [ status                    : U8,
    deposit_limit             : U64,
    borrow_limit              : U64,
    min_borrow_rate_bps       : U16,
    optimal_borrow_rate_bps   : U16,
    max_borrow_rate_bps       : U16,
    optimal_utilization_bps   : U16,
    liquidation_bonus_pct     : U16,
    protocol_fee              : U16,
    loan_to_value_pct         : U8,
    liquidation_threshold_pct : U8,
    pyth_oracle               : BOOLEAN ]  \* whether it names a price account at all

ReserveType ==
  [ available_amount          : U64,
    borrowed_amount_sf        : U128,
    cumulative_borrow_rate_sf : U128,
    accumulated_protocol_fees : U128,
    market_price_sf           : U128,
    price_last_updated_ts     : Int,
    mint_total_supply         : U64,
    last_update_slot          : U64,
    config                    : ConfigType ]

\* Mutant of validate: the owner may set any protocol fee.
ValidateWithoutFeeCap(c) ==
  /\ c.loan_to_value_pct < c.liquidation_threshold_pct
  /\ c.min_borrow_rate_bps <= c.optimal_borrow_rate_bps

\* ReserveConfig::validate.
validate(c) ==
  /\ c.loan_to_value_pct < c.liquidation_threshold_pct
  /\ c.liquidation_threshold_pct <= MAX_LIQUIDATION_THRESHOLD_PCT
  /\ c.min_borrow_rate_bps <= c.optimal_borrow_rate_bps
  /\ c.optimal_borrow_rate_bps <= c.max_borrow_rate_bps
  /\ c.optimal_utilization_bps <= MAX_UTILIZATION_BPS
  /\ c.protocol_fee <= MAX_PROTOCOL_FEE_BPS

is_active(r) == r.config.status = 0

\* The account add_reserve leaves behind.
NewReserve(c, slot) ==
  [ available_amount          |-> 0,
    borrowed_amount_sf        |-> 0,
    cumulative_borrow_rate_sf |-> RATE_SCALE,
    accumulated_protocol_fees |-> 0,
    market_price_sf           |-> 0,
    price_last_updated_ts     |-> 0,
    mint_total_supply         |-> 0,
    last_update_slot          |-> slot,
    config                    |-> c ]

(***************************************************************************)
(* What the depositors own, and what one cToken is worth.                  *)
(***************************************************************************)
total_supply(r) ==
  r.available_amount + r.borrowed_amount_sf - r.accumulated_protocol_fees

CanTotalSupply(r) ==
  /\ r.available_amount + r.borrowed_amount_sf <= MAX_U128
  /\ total_supply(r) >= 0

\* total_supply().unwrap_or(0)
TotalSupplyOrZero(r) == IF CanTotalSupply(r) THEN total_supply(r) ELSE 0

\* Mutant of AtPar: the idle liquidity is taken for the whole supply.
AtParWhenIdle(r) == r.mint_total_supply = 0 \/ r.available_amount = 0

\* exchange_rate: 1:1 until both sides of the ratio exist.
AtPar(r) == r.mint_total_supply = 0 \/ TotalSupplyOrZero(r) = 0
RateSupply(r)    == IF AtPar(r) THEN 1 ELSE r.mint_total_supply
RateLiquidity(r) == IF AtPar(r) THEN 1 ELSE TotalSupplyOrZero(r)

\* Mutants of the conversions: rounding against the pool.
LiquidityRoundedUp(r, ctokens) ==
  AsU64((ctokens * RateLiquidity(r) + RateSupply(r) - 1) \div RateSupply(r))
CollateralRoundedUp(r, amount) ==
  AsU64((amount * RateSupply(r) + RateLiquidity(r) - 1) \div RateLiquidity(r))

collateral_to_liquidity(r, ctokens) ==
  AsU64(MulDiv(ctokens, RateLiquidity(r), RateSupply(r)))
liquidity_to_collateral(r, amount) ==
  AsU64(MulDiv(amount, RateSupply(r), RateLiquidity(r)))

CanDepositLiquidity(r, amount) ==
  /\ CanTotalSupply(r)
  /\ total_supply(r) + amount <= r.config.deposit_limit
  /\ CanMul(amount, RateSupply(r))
  /\ r.available_amount + amount <= MAX_U64
  /\ r.mint_total_supply + liquidity_to_collateral(r, amount) <= MAX_U64

deposit_liquidity(r, amount) ==
  [r EXCEPT !.available_amount  = @ + amount,
            !.mint_total_supply = @ + liquidity_to_collateral(r, amount)]

CanRedeemCollateral(r, ctokens) ==
  /\ CanMul(ctokens, RateLiquidity(r))
  /\ r.mint_total_supply >= ctokens
  /\ r.available_amount >= collateral_to_liquidity(r, ctokens)

\* Mutant of redeem_collateral: the cTokens go, the liquidity stays counted.
BurnWithoutPaying(r, ctokens) == [r EXCEPT !.mint_total_supply = @ - ctokens]

redeem_collateral(r, ctokens) ==
  [r EXCEPT !.available_amount  = @ - collateral_to_liquidity(r, ctokens),
            !.mint_total_supply = @ - ctokens]

borrow_limit_crossed(r) == r.borrowed_amount_sf >= r.config.borrow_limit

CanBorrow(r, amount) ==
  /\ ~borrow_limit_crossed(r)
  /\ r.available_amount >= amount
  /\ r.borrowed_amount_sf + amount <= MAX_U128

borrow(r, amount) ==
  [r EXCEPT !.available_amount   = @ - amount,
            !.borrowed_amount_sf = @ + amount]

CanRepay(r, amount) ==
  /\ r.borrowed_amount_sf >= amount
  /\ r.available_amount + amount <= MAX_U64

repay(r, amount) ==
  [r EXCEPT !.available_amount   = @ + amount,
            !.borrowed_amount_sf = @ - amount]

(***************************************************************************)
(* Interest.  The kinked curve of ReserveConfig::borrow_rate multiplies    *)
(* and adds u16 operands in u64, which cannot overflow; `as u16` can wrap. *)
(***************************************************************************)
CurvePoint(low, high, part, whole) ==
  low + (IF whole = 0 THEN 0 ELSE MulDiv(part, SaturatingSub(high, low), whole))

borrow_rate(c, util) ==
  AsU16(IF util <= c.optimal_utilization_bps
        THEN CurvePoint(c.min_borrow_rate_bps, c.optimal_borrow_rate_bps,
                        util, c.optimal_utilization_bps)
        ELSE CurvePoint(c.optimal_borrow_rate_bps, c.max_borrow_rate_bps,
                        util - c.optimal_utilization_bps,
                        SaturatingSub(BPS_SCALER, c.optimal_utilization_bps)))

utilization_rate(r) ==
  IF TotalSupplyOrZero(r) = 0
  THEN 0
  ELSE MulDiv(r.borrowed_amount_sf, PERCENT_SCALER, total_supply(r))

current_borrow_rate(r) == borrow_rate(r.config, AsU16(utilization_rate(r) * 100))

\* accured_interest: the simple interest of `elapsed` slots, rounded down.
PeriodRate(bps, elapsed) ==
  (MulDiv(bps * elapsed, RATE_SCALE, SLOTS_PER_YEAR)) \div BPS_SCALER
DebtAccrued(r, rate) == MulDiv(rate, r.borrowed_amount_sf, RATE_SCALE)

\* Mutant of FeeAccrued: basis points read as percent.
FeeInPercent(r, rate) == MulDiv(DebtAccrued(r, rate), r.config.protocol_fee, PERCENT_SCALER)

FeeAccrued(r, rate)  == MulDiv(DebtAccrued(r, rate), r.config.protocol_fee, BPS_SCALER)
RateAccrued(r, rate) == MulDiv(rate, r.cumulative_borrow_rate_sf, RATE_SCALE)

WithInterest(r, rate) ==
  [r EXCEPT !.borrowed_amount_sf        = @ + DebtAccrued(r, rate),
            !.accumulated_protocol_fees = @ + FeeAccrued(r, rate),
            !.cumulative_borrow_rate_sf = @ + RateAccrued(r, rate)]

CanAddInterest(r, bps, elapsed) ==
  LET rate == PeriodRate(bps, elapsed) IN
    /\ CanMul(bps * elapsed, RATE_SCALE)
    /\ CanMul(rate, r.borrowed_amount_sf)
    /\ r.borrowed_amount_sf + DebtAccrued(r, rate) <= MAX_U128
    /\ CanMul(DebtAccrued(r, rate), r.config.protocol_fee)
    /\ r.accumulated_protocol_fees + FeeAccrued(r, rate) <= MAX_U128
    /\ CanMul(rate, r.cumulative_borrow_rate_sf)
    /\ r.cumulative_borrow_rate_sf + RateAccrued(r, rate) <= MAX_U128

SlotsElapsed(r, slot) == SaturatingSub(slot, r.last_update_slot)

\* At a rate of 0 no interest is added and the slot moves on all the same.
CanAccrue(r, slot) ==
  SlotsElapsed(r, slot) > 0 =>
    /\ TotalSupplyOrZero(r) # 0 =>
         /\ CanMul(r.borrowed_amount_sf, PERCENT_SCALER)
         /\ CanMul(utilization_rate(r), 100)
    /\ current_borrow_rate(r) > 0 =>
         CanAddInterest(r, current_borrow_rate(r), SlotsElapsed(r, slot))

\* Mutant of accrue_interest: the slot of the accrual is not recorded.
AccrueUnstamped(r, slot) ==
  IF SlotsElapsed(r, slot) = 0
  THEN r
  ELSE WithInterest(r, PeriodRate(current_borrow_rate(r), SlotsElapsed(r, slot)))

accrue_interest(r, slot) ==
  IF SlotsElapsed(r, slot) = 0
  THEN r
  ELSE [WithInterest(r, PeriodRate(current_borrow_rate(r), SlotsElapsed(r, slot)))
          EXCEPT !.last_update_slot = slot]
===============================================================================
