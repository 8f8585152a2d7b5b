----------------------------- MODULE ReserveProofs -----------------------------

(***************************************************************************)
(* Proofs about Reserve, for every fixed-point scale, integer width and    *)
(* set of amounts, prices and configurations.                              *)
(***************************************************************************)
EXTENDS Reserve, ReserveLemmas

(***************************************************************************)
(* The invariant is inductive, and every step is fair.                     *)
(***************************************************************************)

\* What the invariant gives every handler before it touches the account.
LEMMA CurrentFacts ==
  ASSUME Inv, CanAccrue(reserve, slot)
  PROVE  /\ reserve \in ReserveType /\ Backed(reserve)
         /\ Grows(reserve, Current)
         /\ Current \in ReserveType
         /\ IndexMoves(reserve, Current, slot)
         /\ validate(Current.config)
         /\ Current.available_amount = reserve.available_amount
         /\ Current.mint_total_supply = reserve.mint_total_supply
  <1>1. /\ reserve \in ReserveType /\ Backed(reserve)
        /\ slot \in 0 .. MaxSlot
        /\ reserve.config.protocol_fee <= MAX_PROTOCOL_FEE_BPS
        /\ slot \in U64
    <2>1. /\ reserve \in ReserveType /\ Backed(reserve)
          /\ slot \in 0 .. MaxSlot
          /\ validate(reserve.config)
      BY DEF Inv, TypeOK, SharesBacked, Backed
    <2>2. slot \in U64
      BY <2>1, ReserveAssumption, WidthAssumption DEF U64
    <2> QED BY <2>1, <2>2 DEF validate
  <1>2. /\ Grows(reserve, Current)
        /\ Current # reserve => reserve.last_update_slot < slot
        /\ Current.last_update_slot =
             IF reserve.last_update_slot < slot THEN slot ELSE reserve.last_update_slot
    BY <1>1, AccrueGrows DEF Current
  <1> QED BY <1>1, <1>2 DEF Grows, IndexMoves, Inv, TypeOK

\* A reserve just added satisfies the invariant.
LEMMA InitInv == Init => Inv
  <1> SUFFICES ASSUME Init PROVE Inv
    OBVIOUS
  <1>1. PICK c \in Configs : validate(c) /\ reserve = NewReserve(c, slot)
    BY DEF Init
  <1>2. c \in ConfigType /\ slot \in 1 .. MaxSlot /\ liquidity_vault = 0 /\ ctoken_supply = 0
    BY ReserveAssumption DEF Init
  <1>3. 0 \in U64 /\ 0 \in U128 /\ RATE_SCALE \in U128 /\ slot \in U64 /\ slot \in 0 .. MaxSlot
    BY <1>2, ScaleAssumption, WidthAssumption, ReserveAssumption DEF U64, U128
  <1>4. reserve \in ReserveType
    BY <1>1, <1>2, <1>3 DEF NewReserve, ReserveType
  <1>5. /\ reserve.config = c
        /\ reserve.available_amount = 0 /\ reserve.borrowed_amount_sf = 0
        /\ reserve.accumulated_protocol_fees = 0 /\ reserve.mint_total_supply = 0
    BY <1>1 DEF NewReserve
  <1>6. total_supply(reserve) = 0
    BY <1>5 DEF total_supply
  <1> QED
    BY <1>1, <1>2, <1>3, <1>4, <1>5, <1>6
       DEF Inv, TypeOK, SharesBacked, ClaimsCovered

\* An action that leaves a fair account, and SPL balances that still cover it.
StepOK ==
  /\ Inv'
  /\ Fair(reserve, reserve')
  /\ IndexMoves(reserve, reserve', slot)

\* What a step has to show: a fair change of the account, and balances that cover it.
LEMMA StepFromParts ==
  ASSUME Fair(reserve, reserve'),
         IndexMoves(reserve, reserve', slot),
         validate(reserve'.config),
         liquidity_vault' \in U64, ctoken_supply' \in U64, slot' \in 0 .. MaxSlot,
         reserve'.available_amount <= liquidity_vault',
         ctoken_supply' <= reserve'.mint_total_supply
  PROVE  StepOK
  <1>1. reserve' \in ReserveType /\ total_supply(reserve') >= reserve'.mint_total_supply
    BY DEF Fair, Backed
  <1> QED BY <1>1 DEF StepOK, Inv, TypeOK, SharesBacked, ClaimsCovered

\* The invariant, in the arithmetic the steps use.
LEMMA InvFields ==
  ASSUME Inv
  PROVE  /\ reserve \in ReserveType /\ Backed(reserve) /\ validate(reserve.config)
         /\ liquidity_vault \in Nat /\ ctoken_supply \in Nat
         /\ liquidity_vault \in U64 /\ ctoken_supply \in U64
         /\ slot \in 0 .. MaxSlot
         /\ reserve.available_amount \in Nat /\ reserve.mint_total_supply \in Nat
         /\ reserve.available_amount <= liquidity_vault
         /\ ctoken_supply <= reserve.mint_total_supply
         /\ MAX_U64 \in Nat
  BY ReserveFields, Widths, WidthAssumption
     DEF Inv, TypeOK, SharesBacked, ClaimsCovered, Backed

\* deposit: no more cTokens are issued than the liquidity is worth.
LEMMA DepositStep ==
  ASSUME Inv, NEW a \in Amounts, Deposit(a)
  PROVE  StepOK
  <1>1. a \in Nat \ {0}
    BY ReserveAssumption, Widths
  <1>2. PICK m \in Nat : m = liquidity_to_collateral(Current, a)
    BY <1>1, CurrentFacts, FairAccrual, MintRoundsDown, Widths
       DEF Deposit, CanDepositLiquidity, Fair
  <1>3. /\ Keeps(Current, reserve')
        /\ reserve'.available_amount = reserve.available_amount + a
        /\ reserve'.mint_total_supply = reserve.mint_total_supply + m
    BY <1>1, <1>2, CurrentFacts, FairAccrual, DepositFacts DEF Deposit, Fair
  <1>4. Fair(reserve, reserve')
    BY <1>1, CurrentFacts, FairDeposit DEF Deposit
  <1>5. IndexMoves(reserve, reserve', slot) /\ validate(reserve'.config)
    BY <1>3, CurrentFacts DEF Deposit, IndexMoves, Keeps
  <1>6. /\ liquidity_vault' = liquidity_vault + a /\ liquidity_vault + a <= MAX_U64
        /\ ctoken_supply' = ctoken_supply + m /\ ctoken_supply + m <= MAX_U64
        /\ slot' = slot
    BY <1>2 DEF Deposit
  <1>7. liquidity_vault' \in U64 /\ ctoken_supply' \in U64
    BY <1>1, <1>2, <1>6, InvFields DEF U64
  <1> QED BY <1>1, <1>2, <1>3, <1>4, <1>5, <1>6, <1>7, InvFields, StepFromParts

\* withdraw: no more liquidity is paid than the cTokens are worth.
LEMMA WithdrawStep ==
  ASSUME Inv, NEW c \in Amounts, Withdraw(c)
  PROVE  StepOK
  <1>1. c \in Nat \ {0}
    BY ReserveAssumption, Widths
  <1>2. PICK l \in Nat : l = collateral_to_liquidity(Current, c)
    BY <1>1, CurrentFacts, FairAccrual, RedeemRoundsDown, Widths DEF Withdraw, Fair
  <1>3. /\ Keeps(Current, reserve')
        /\ reserve'.available_amount = reserve.available_amount - l
        /\ reserve'.mint_total_supply = reserve.mint_total_supply - c
    BY <1>1, <1>2, CurrentFacts, FairAccrual, RedeemFacts DEF Withdraw, Fair
  <1>4. Fair(reserve, reserve')
    BY <1>1, CurrentFacts, FairRedeem DEF Withdraw
  <1>5. IndexMoves(reserve, reserve', slot) /\ validate(reserve'.config)
    BY <1>3, CurrentFacts DEF Withdraw, IndexMoves, Keeps
  <1>6. /\ liquidity_vault' = liquidity_vault - l /\ l <= liquidity_vault
        /\ ctoken_supply' = ctoken_supply - c /\ c <= ctoken_supply
        /\ slot' = slot
    BY <1>2 DEF Withdraw
  <1>7. liquidity_vault' \in U64 /\ ctoken_supply' \in U64
    BY <1>1, <1>2, <1>6, InvFields DEF U64
  <1> QED BY <1>1, <1>2, <1>3, <1>4, <1>5, <1>6, <1>7, InvFields, StepFromParts

\* borrow: vault and account fall by the same amount.
LEMMA BorrowStep ==
  ASSUME Inv, NEW a \in Amounts, Borrow(a)
  PROVE  StepOK
  <1>1. a \in Nat \ {0}
    BY ReserveAssumption, Widths
  <1>2. /\ Keeps(Current, reserve')
        /\ reserve'.available_amount = reserve.available_amount - a
        /\ reserve'.mint_total_supply = Current.mint_total_supply
        /\ total_supply(reserve') = total_supply(Current)
    BY <1>1, CurrentFacts, BorrowFacts DEF Borrow
  <1>3. Fair(reserve, reserve')
    BY <1>2, CurrentFacts, FairLoan DEF Borrow
  <1>4. IndexMoves(reserve, reserve', slot) /\ validate(reserve'.config)
    BY <1>2, CurrentFacts DEF Borrow, IndexMoves, Keeps
  <1>5. /\ liquidity_vault' = liquidity_vault - a /\ a <= liquidity_vault
        /\ ctoken_supply' = ctoken_supply /\ slot' = slot
        /\ Current.mint_total_supply = reserve.mint_total_supply
    BY CurrentFacts DEF Borrow
  <1>6. liquidity_vault' \in U64
    BY <1>1, <1>5, InvFields DEF U64
  <1> QED BY <1>1, <1>2, <1>3, <1>4, <1>5, <1>6, InvFields, StepFromParts

\* private_borrow: the same, whether or not a price is asked for.
LEMMA PrivateBorrowStep ==
  ASSUME Inv, NEW a \in Amounts, PrivateBorrow(a)
  PROVE  StepOK
  <1>1. a \in Nat \ {0}
    BY ReserveAssumption, Widths
  <1>2. /\ Keeps(Current, reserve')
        /\ reserve'.available_amount = reserve.available_amount - a
        /\ reserve'.mint_total_supply = Current.mint_total_supply
        /\ total_supply(reserve') = total_supply(Current)
    BY <1>1, CurrentFacts, BorrowFacts DEF PrivateBorrow
  <1>3. Fair(reserve, reserve')
    BY <1>2, CurrentFacts, FairLoan DEF PrivateBorrow
  <1>4. IndexMoves(reserve, reserve', slot) /\ validate(reserve'.config)
    BY <1>2, CurrentFacts DEF PrivateBorrow, IndexMoves, Keeps
  <1>5. /\ liquidity_vault' = liquidity_vault - a /\ a <= liquidity_vault
        /\ ctoken_supply' = ctoken_supply /\ slot' = slot
        /\ Current.mint_total_supply = reserve.mint_total_supply
    BY CurrentFacts DEF PrivateBorrow
  <1>6. liquidity_vault' \in U64
    BY <1>1, <1>5, InvFields DEF U64
  <1> QED BY <1>1, <1>2, <1>3, <1>4, <1>5, <1>6, InvFields, StepFromParts

\* repay: vault and account rise by the same amount.
LEMMA RepayStep ==
  ASSUME Inv, NEW a \in Amounts, Repay(a)
  PROVE  StepOK
  <1>1. a \in Nat \ {0}
    BY ReserveAssumption, Widths
  <1>2. /\ Keeps(Current, reserve')
        /\ reserve'.available_amount = reserve.available_amount + a
        /\ reserve'.mint_total_supply = Current.mint_total_supply
        /\ total_supply(reserve') = total_supply(Current)
    BY <1>1, CurrentFacts, RepayFacts DEF Repay
  <1>3. Fair(reserve, reserve')
    BY <1>2, CurrentFacts, FairLoan DEF Repay
  <1>4. IndexMoves(reserve, reserve', slot) /\ validate(reserve'.config)
    BY <1>2, CurrentFacts DEF Repay, IndexMoves, Keeps
  <1>5. /\ liquidity_vault' = liquidity_vault + a /\ liquidity_vault + a <= MAX_U64
        /\ ctoken_supply' = ctoken_supply /\ slot' = slot
        /\ Current.mint_total_supply = reserve.mint_total_supply
    BY CurrentFacts DEF Repay
  <1>6. liquidity_vault' \in U64
    BY <1>1, <1>5, InvFields DEF U64
  <1> QED BY <1>1, <1>2, <1>3, <1>4, <1>5, <1>6, InvFields, StepFromParts

\* The collateral side of liquidate only accrues.
LEMMA AccrueStep ==
  ASSUME Inv, AccrueForSeizure
  PROVE  StepOK
  <1>1. /\ reserve' = Current /\ CanAccrue(reserve, slot)
        /\ UNCHANGED <<liquidity_vault, ctoken_supply, slot>>
    BY DEF AccrueForSeizure
  <1> QED BY <1>1, CurrentFacts, FairAccrual, InvFields, StepFromParts

\* refresh_reserve accrues, and the price is no part of the books.
LEMMA RefreshStep ==
  ASSUME Inv, NEW price \in Prices, NEW ts \in Timestamps, RefreshReserve(price, ts)
  PROVE  StepOK
  <1>1. /\ reserve' = [Current EXCEPT !.market_price_sf = price,
                                      !.price_last_updated_ts = ts]
        /\ CanAccrue(reserve, slot)
        /\ UNCHANGED <<liquidity_vault, ctoken_supply, slot>>
        /\ price \in U128 /\ ts \in Int
    BY ReserveAssumption DEF RefreshReserve
  <1>2. /\ Keeps(Current, reserve')
        /\ reserve'.available_amount = Current.available_amount
        /\ reserve'.mint_total_supply = Current.mint_total_supply
        /\ reserve'.borrowed_amount_sf = Current.borrowed_amount_sf
    BY <1>1, CurrentFacts DEF Keeps, ReserveType
  <1>3. total_supply(reserve') = total_supply(Current)
    BY <1>2 DEF total_supply, Keeps
  <1>4. Fair(reserve, reserve')
    BY <1>1, <1>2, <1>3, CurrentFacts, FairLoan
  <1>5. IndexMoves(reserve, reserve', slot) /\ validate(reserve'.config)
    BY <1>1, <1>2, CurrentFacts DEF IndexMoves, Keeps
  <1> QED BY <1>1, <1>2, <1>4, <1>5, CurrentFacts, InvFields, StepFromParts

\* update_reserve_config: a configuration that validates keeps the books.
LEMMA ConfigStep ==
  ASSUME Inv, NEW c \in Configs, UpdateReserveConfig(c)
  PROVE  StepOK
  <1>1. /\ reserve' = [reserve EXCEPT !.config = c]
        /\ UNCHANGED <<liquidity_vault, ctoken_supply, slot>>
        /\ c \in ConfigType /\ validate(c)
    BY ReserveAssumption DEF UpdateReserveConfig
  <1>2. /\ reserve' \in ReserveType
        /\ reserve'.config = c
        /\ reserve'.available_amount = reserve.available_amount
        /\ reserve'.mint_total_supply = reserve.mint_total_supply
        /\ reserve'.borrowed_amount_sf = reserve.borrowed_amount_sf
        /\ reserve'.accumulated_protocol_fees = reserve.accumulated_protocol_fees
        /\ reserve'.cumulative_borrow_rate_sf = reserve.cumulative_borrow_rate_sf
    BY <1>1, InvFields DEF ReserveType
  <1>3. total_supply(reserve') = total_supply(reserve)
    BY <1>2 DEF total_supply
  <1>4. /\ reserve.accumulated_protocol_fees \in Nat
        /\ reserve.cumulative_borrow_rate_sf \in Nat
        /\ total_supply(reserve) \in Int
    BY InvFields, ReserveFields, TotalSupplyType
  <1>5. Fair(reserve, reserve')
    BY <1>2, <1>3, <1>4, InvFields
       DEF Fair, FairWorth, FairFee, FairVault, Backed, BPS_SCALER, MAX_PROTOCOL_FEE_BPS
  <1>6. IndexMoves(reserve, reserve', slot)
    BY <1>2, <1>4 DEF IndexMoves
  <1> QED BY <1>1, <1>2, <1>5, <1>6, InvFields, StepFromParts

\* A step that leaves the account alone.
LEMMA IdleStep ==
  ASSUME Inv, reserve' = reserve,
         liquidity_vault' \in U64, ctoken_supply' \in U64, slot' \in 0 .. MaxSlot,
         liquidity_vault' >= liquidity_vault, ctoken_supply' <= ctoken_supply
  PROVE  StepOK
  <1>1. /\ reserve.accumulated_protocol_fees \in Nat
        /\ reserve.cumulative_borrow_rate_sf \in Nat
        /\ total_supply(reserve) \in Int
    BY InvFields, ReserveFields, TotalSupplyType
  <1>2. Fair(reserve, reserve') /\ IndexMoves(reserve, reserve', slot)
    BY <1>1, InvFields
       DEF Fair, FairWorth, FairFee, FairVault, IndexMoves, Backed,
           BPS_SCALER, MAX_PROTOCOL_FEE_BPS
  <1>3. liquidity_vault' \in Nat /\ ctoken_supply' \in Nat
    BY Widths
  <1> QED BY <1>2, <1>3, InvFields, StepFromParts

\* Every step of a reserve is fair and keeps the invariant.
LEMMA NextStep ==
  ASSUME Inv, [Next]_vars
  PROVE  StepOK
  <1>1. ASSUME NEW a \in Amounts, Deposit(a) PROVE StepOK
    BY <1>1, DepositStep
  <1>2. ASSUME NEW a \in Amounts, Withdraw(a) PROVE StepOK
    BY <1>2, WithdrawStep
  <1>3. ASSUME NEW a \in Amounts, Borrow(a) PROVE StepOK
    BY <1>3, BorrowStep
  <1>4. ASSUME NEW a \in Amounts, Repay(a) PROVE StepOK
    BY <1>4, RepayStep
  <1>12. ASSUME NEW a \in Amounts, PrivateBorrow(a) PROVE StepOK
    BY <1>12, PrivateBorrowStep
  <1>5. ASSUME AccrueForSeizure PROVE StepOK
    BY <1>5, AccrueStep
  <1>6. ASSUME NEW price \in Prices, NEW ts \in Timestamps, RefreshReserve(price, ts)
        PROVE  StepOK
    BY <1>6, RefreshStep
  <1>7. ASSUME NEW c \in Configs, UpdateReserveConfig(c) PROVE StepOK
    BY <1>7, ConfigStep
  <1>8. ASSUME Tick PROVE StepOK
    <2>1. slot' \in 0 .. MaxSlot
      BY <1>8, InvFields, ReserveAssumption DEF Tick, U64
    <2> QED BY <1>8, <2>1, InvFields, IdleStep DEF Tick
  <1>9. ASSUME NEW a \in Amounts, SendToVault(a) PROVE StepOK
    <2>1. a \in Nat
      BY ReserveAssumption, Widths
    <2>2. liquidity_vault' = liquidity_vault + a /\ liquidity_vault + a <= MAX_U64
      BY <1>9, <2>1, InvFields, ReserveAssumption DEF SendToVault, Smaller
    <2>3. liquidity_vault' \in U64
      BY <2>1, <2>2, InvFields DEF U64
    <2> QED BY <1>9, <2>1, <2>2, <2>3, InvFields, IdleStep DEF SendToVault
  <1>10. ASSUME NEW a \in Amounts, BurnOwnCTokens(a) PROVE StepOK
    <2>1. a \in Nat
      BY ReserveAssumption, Widths
    <2>2. ctoken_supply' = ctoken_supply - a /\ a <= ctoken_supply
      BY <1>10 DEF BurnOwnCTokens
    <2>3. ctoken_supply' \in U64
      BY <2>1, <2>2, InvFields DEF U64
    <2> QED BY <1>10, <2>1, <2>2, <2>3, InvFields, IdleStep DEF BurnOwnCTokens
  <1>11. ASSUME UNCHANGED vars PROVE StepOK
    BY <1>11, InvFields, IdleStep DEF vars
  <1> QED
    BY <1>1, <1>2, <1>3, <1>4, <1>5, <1>6, <1>7, <1>8, <1>9, <1>10, <1>11, <1>12 DEF Next

\* The invariant is inductive, so it always holds.
LEMMA Invariance == Spec => []Inv
  <1>1. Init => Inv
    BY InitInv
  <1>2. Inv /\ [Next]_vars => Inv'
    BY NextStep DEF StepOK
  <1> QED BY <1>1, <1>2, PTL DEF Spec

(***************************************************************************)
(* The theorems.                                                           *)
(***************************************************************************)

\* The account and the SPL balances always have their types, whatever the
\* handlers do: no checked operation is missing where one could overflow.
THEOREM TypeCorrect == Spec => []TypeOK
  <1>1. Inv => TypeOK
    BY DEF Inv
  <1> QED BY <1>1, Invariance, PTL

\* Every cToken always is backed by a unit of liquidity.
THEOREM Solvency == Spec => []SharesBacked
  <1>1. Inv => SharesBacked
    BY DEF Inv
  <1> QED BY <1>1, Invariance, PTL

\* The vault always holds what the account says can be paid out, and no more
\* cTokens circulate than it has issued.
THEOREM ClaimsAlwaysCovered == Spec => []ClaimsCovered
  <1>1. Inv => ClaimsCovered
    BY DEF Inv
  <1> QED BY <1>1, Invariance, PTL

\* Deposit a for m cTokens, redeem them for l: both roundings go down.
LEMMA RoundTripArithmetic ==
  ASSUME NEW T \in Nat, NEW S \in Nat \ {0}, NEW a \in Nat, NEW m \in Nat, NEW l \in Nat,
         m * T <= a * S,
         l * (S + m) <= m * (T + a)
  PROVE  l <= a
  <1>1. m * (T + a) <= a * (S + m)
    <2>1. m * (T + a) = m * T + m * a /\ a * (S + m) = a * S + m * a
      OBVIOUS
    <2> QED BY <2>1
  <1>2. l * (S + m) <= a * (S + m)
    BY <1>1
  <1> QED BY <1>2

\* Nobody gains by depositing and redeeming at once.
THEOREM RoundTrip == Spec => []RoundTripNeverGains
  <1>1. ASSUME Inv, reserve.mint_total_supply > 0, NEW a \in Amounts,
               CanDepositLiquidity(reserve, a)
        PROVE  collateral_to_liquidity(deposit_liquidity(reserve, a),
                                       liquidity_to_collateral(reserve, a)) <= a
    <2>1. /\ reserve \in ReserveType /\ Backed(reserve) /\ a \in Nat
          /\ CanTotalSupply(reserve)
      BY <1>1, InvFields, ReserveAssumption, Widths DEF CanDepositLiquidity
    <2>2. PICK T, m \in Nat, S \in Nat \ {0} :
            /\ T = total_supply(reserve) /\ S = reserve.mint_total_supply
            /\ m = liquidity_to_collateral(reserve, a)
            /\ m * T <= a * S /\ m <= a /\ S <= T
      <3>1. /\ total_supply(reserve) \in Nat
            /\ reserve.mint_total_supply \in Nat \ {0}
            /\ reserve.mint_total_supply <= total_supply(reserve)
        BY <1>1, <2>1, ReserveFields, TotalSupplyType DEF Backed
      <3>2. liquidity_to_collateral(reserve, a) \in Nat
        BY <2>1, MintRoundsDown, Widths
      <3> QED BY <1>1, <2>1, <3>1, <3>2, MintRoundsDown
    <2>3. PICK p : p = deposit_liquidity(reserve, a)
      OBVIOUS
    <2>4. /\ p \in ReserveType
          /\ p.mint_total_supply = S + m
          /\ total_supply(p) = T + a
      BY <1>1, <2>1, <2>2, <2>3, DepositFacts DEF Keeps
    <2>5. Backed(p)
      BY <2>1, <2>2, <2>4 DEF Backed
    <2>6. PICK l \in Nat : /\ l = collateral_to_liquidity(p, m)
                           /\ l * (S + m) <= m * (T + a)
      <3>1. collateral_to_liquidity(p, m) \in Nat
        BY <2>2, <2>4, <2>5, RedeemRoundsDown, Widths
      <3> QED BY <2>2, <2>4, <2>5, <3>1, RedeemRoundsDown
    <2>7. l <= a
      BY <2>1, <2>2, <2>6, RoundTripArithmetic
    <2> QED BY <2>2, <2>3, <2>6, <2>7
  <1>2. Inv => RoundTripNeverGains
    BY <1>1 DEF RoundTripNeverGains
  <1> QED BY <1>2, Invariance, PTL

\* No step of anyone's lowers what the cTokens of the others are worth.
THEOREM NeverDiluted == Spec => NoDilution
  <1>1. Inv /\ [Next]_vars =>
          (reserve.mint_total_supply > 0 =>
             total_supply(reserve') * reserve.mint_total_supply
               >= total_supply(reserve) * reserve'.mint_total_supply)
    BY NextStep DEF StepOK, Fair, FairWorth
  <1> QED BY <1>1, Invariance, PTL DEF Spec, NoDilution

\* The protocol's part of the interest is bounded in every step.
THEOREM FeesBounded == Spec => DepositorsKeepTheirShare
  <1>1. Inv /\ [Next]_vars =>
          (reserve'.mint_total_supply = reserve.mint_total_supply =>
             (reserve'.accumulated_protocol_fees - reserve.accumulated_protocol_fees)
               * (BPS_SCALER - MAX_PROTOCOL_FEE_BPS)
             <= (total_supply(reserve') - total_supply(reserve)) * MAX_PROTOCOL_FEE_BPS)
    BY NextStep DEF StepOK, Fair, FairFee
  <1> QED BY <1>1, Invariance, PTL DEF Spec, DepositorsKeepTheirShare

\* The index never falls, and no slot is charged twice.
THEOREM IndexMonotonic == Spec => InterestChargedOnce
  <1>1. Inv /\ [Next]_vars =>
          /\ reserve'.cumulative_borrow_rate_sf >= reserve.cumulative_borrow_rate_sf
          /\ reserve'.cumulative_borrow_rate_sf # reserve.cumulative_borrow_rate_sf =>
               reserve.last_update_slot < slot /\ reserve'.last_update_slot = slot
    BY NextStep DEF StepOK, IndexMoves
  <1> QED BY <1>1, Invariance, PTL DEF Spec, InterestChargedOnce

\* A reserve is a vault of shares: each of its steps issues or redeems shares,
\* lets the assets earn, or is a stutter.
THEOREM Refinement == Spec => ImplementsShareVault
  <1>1. Init => Vault!Init
    <2> SUFFICES ASSUME Init PROVE Vault!Init
      OBVIOUS
    <2>1. PICK c \in Configs : reserve = NewReserve(c, slot)
      BY DEF Init
    <2>2. /\ reserve.available_amount = 0 /\ reserve.borrowed_amount_sf = 0
          /\ reserve.accumulated_protocol_fees = 0 /\ reserve.mint_total_supply = 0
      BY <2>1 DEF NewReserve
    <2> QED BY <2>2 DEF Vault!Init, total_supply
  <1>2. Inv /\ [Next]_vars => [Vault!Next]_(Vault!svars)
    <2> SUFFICES ASSUME Inv, [Next]_vars PROVE [Vault!Next]_(Vault!svars)
      OBVIOUS
    <2>1. /\ FairWorth(reserve, reserve') /\ FairVault(reserve, reserve')
          /\ reserve' \in ReserveType /\ Backed(reserve')
      BY NextStep DEF StepOK, Fair
    <2>2. /\ reserve.mint_total_supply \in Nat /\ reserve'.mint_total_supply \in Nat
          /\ total_supply(reserve') \in Nat /\ total_supply(reserve) \in Int
      BY <2>1, InvFields, ReserveFields, TotalSupplyType DEF Backed
    <2>3. reserve.mint_total_supply > 0 => Vault!KeepsWorth
      BY <2>1 DEF FairWorth, Vault!KeepsWorth
    <2>4. CASE /\ reserve'.mint_total_supply >= reserve.mint_total_supply
               /\ total_supply(reserve') > total_supply(reserve)
               /\ reserve.mint_total_supply = 0 =>
                    reserve'.mint_total_supply
                      <= total_supply(reserve') - total_supply(reserve)
      BY <2>2, <2>3, <2>4 DEF Vault!Next, Vault!Issue
    <2>5. CASE reserve'.mint_total_supply < reserve.mint_total_supply
      BY <2>2, <2>3, <2>5 DEF Vault!Next, Vault!Redeem
    <2>6. CASE /\ reserve'.mint_total_supply = reserve.mint_total_supply
               /\ total_supply(reserve') >= total_supply(reserve)
      BY <2>2, <2>6 DEF Vault!Next, Vault!Earn
    <2> QED BY <2>1, <2>4, <2>5, <2>6 DEF FairVault
  <1> QED BY <1>1, <1>2, Invariance, PTL DEF Spec, ImplementsShareVault, Vault!Spec
===============================================================================
