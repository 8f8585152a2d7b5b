-------------------------------- MODULE Reserve --------------------------------
(***************************************************************************)
(* The life of one reserve: the Reserve account, the two SPL accounts that *)
(* must agree with it (the liquidity vault's balance and the cToken mint's *)
(* supply), and the clock.  Each action is what one instruction does to    *)
(* them; who calls it and with which obligation is left to Lending.        *)
(***************************************************************************)
EXTENDS ReserveState

CONSTANTS
  Amounts,     \* token amounts an instruction may be called with
  Prices,      \* prices get_pyth_price may return, scaled
  Timestamps,  \* publish times it may return
  Configs,     \* configurations the market owner may submit
  MaxSlot,     \* bound: the last slot of the clock
  MaxOutside   \* bound: tokens sent to the vault or burned outside the program

ASSUME ReserveAssumption ==
  /\ Amounts \subseteq U64 \ {0}
  /\ Prices \subseteq U128
  /\ Timestamps \subseteq Int
  /\ Configs \subseteq ConfigType
  /\ MaxSlot \in U64 \ {0}
  /\ MaxOutside \in Nat

VARIABLES
  reserve,          \* the Reserve account
  liquidity_vault,  \* SPL balance of the liquidity_vault token account
  ctoken_supply,    \* SPL supply of the collateral_mint
  slot              \* Clock::slot

vars == <<reserve, liquidity_vault, ctoken_supply, slot>>

\* The account after the accrual that opens most handlers.
Current == accrue_interest(reserve, slot)

-------------------------------------------------------------------------------
\* add_reserve: only a configuration that validates gets in.
Init ==
  /\ slot \in 1 .. MaxSlot
  /\ \E c \in Configs : validate(c) /\ reserve = NewReserve(c, slot)
  /\ liquidity_vault = 0
  /\ ctoken_supply = 0

\* deposit: underlying in, cTokens out.
Deposit(amount) ==
  /\ is_active(reserve)
  /\ CanAccrue(reserve, slot)
  /\ CanDepositLiquidity(Current, amount)
  /\ liquidity_vault + amount <= MAX_U64
  /\ ctoken_supply + liquidity_to_collateral(Current, amount) <= MAX_U64
  /\ reserve' = deposit_liquidity(Current, amount)
  /\ liquidity_vault' = liquidity_vault + amount
  /\ ctoken_supply' = ctoken_supply + liquidity_to_collateral(Current, amount)
  /\ UNCHANGED slot

\* withdraw: cTokens burned, underlying out.
Withdraw(ctokens) ==
  /\ is_active(reserve)
  /\ CanAccrue(reserve, slot)
  /\ CanRedeemCollateral(Current, ctokens)
  /\ ctokens <= ctoken_supply
  /\ collateral_to_liquidity(Current, ctokens) <= liquidity_vault
  /\ reserve' = redeem_collateral(Current, ctokens)
  /\ liquidity_vault' = liquidity_vault - collateral_to_liquidity(Current, ctokens)
  /\ ctoken_supply' = ctoken_supply - ctokens
  /\ UNCHANGED slot

\* borrow: the reserve's half of it.
Borrow(amount) ==
  /\ is_active(reserve)
  /\ reserve.market_price_sf > 0
  /\ CanAccrue(reserve, slot)
  /\ CanBorrow(Current, amount)
  /\ amount <= liquidity_vault
  /\ reserve' = borrow(Current, amount)
  /\ liquidity_vault' = liquidity_vault - amount
  /\ UNCHANGED <<ctoken_supply, slot>>

\* private_borrow: a reserve that names no oracle needs no price.
PrivateBorrow(amount) ==
  /\ is_active(reserve)
  /\ reserve.config.pyth_oracle => reserve.market_price_sf > 0
  /\ CanAccrue(reserve, slot)
  /\ CanBorrow(Current, amount)
  /\ amount <= liquidity_vault
  /\ reserve' = borrow(Current, amount)
  /\ liquidity_vault' = liquidity_vault - amount
  /\ UNCHANGED <<ctoken_supply, slot>>

\* repay, and the repay side of both liquidations.
Repay(amount) ==
  /\ is_active(reserve)
  /\ CanAccrue(reserve, slot)
  /\ CanRepay(Current, amount)
  /\ liquidity_vault + amount <= MAX_U64
  /\ reserve' = repay(Current, amount)
  /\ liquidity_vault' = liquidity_vault + amount
  /\ UNCHANGED <<ctoken_supply, slot>>

\* The collateral side of both liquidations: the seized cTokens move between
\* accounts, and the reserve only accrues.
AccrueForSeizure ==
  /\ is_active(reserve)
  /\ reserve.market_price_sf > 0
  /\ CanAccrue(reserve, slot)
  /\ reserve' = Current
  /\ UNCHANGED <<liquidity_vault, ctoken_supply, slot>>

\* refresh_reserve: accrual, then the price of the account the configuration names.
RefreshReserve(price, ts) ==
  /\ reserve.config.pyth_oracle
  /\ CanAccrue(reserve, slot)
  /\ reserve' = [Current EXCEPT !.market_price_sf = price,
                                !.price_last_updated_ts = ts]
  /\ UNCHANGED <<liquidity_vault, ctoken_supply, slot>>

\* Mutant of UpdateReserveConfig: whatever the owner sends is stored.
StoreAnyConfig(c) ==
  /\ reserve' = [reserve EXCEPT !.config = c]
  /\ UNCHANGED <<liquidity_vault, ctoken_supply, slot>>

\* update_reserve_config: no accrual under the old configuration first.
UpdateReserveConfig(c) ==
  /\ validate(c)
  /\ reserve' = [reserve EXCEPT !.config = c]
  /\ UNCHANGED <<liquidity_vault, ctoken_supply, slot>>

\* Solana's clock.
Tick ==
  /\ slot < MaxSlot
  /\ slot' = slot + 1
  /\ UNCHANGED <<reserve, liquidity_vault, ctoken_supply>>

\* SPL instructions the program does not see: anyone may send tokens to the
\* vault, and a holder may burn cTokens of its own.
SendToVault(amount) ==
  /\ liquidity_vault + amount <= Smaller(MAX_U64, reserve.available_amount + MaxOutside)
  /\ liquidity_vault' = liquidity_vault + amount
  /\ UNCHANGED <<reserve, ctoken_supply, slot>>

BurnOwnCTokens(ctokens) ==
  /\ ctokens <= ctoken_supply
  /\ reserve.mint_total_supply - (ctoken_supply - ctokens) <= MaxOutside
  /\ ctoken_supply' = ctoken_supply - ctokens
  /\ UNCHANGED <<reserve, liquidity_vault, slot>>

Next ==
  \/ \E amount \in Amounts : Deposit(amount)
  \/ \E amount \in Amounts : Withdraw(amount)
  \/ \E amount \in Amounts : Borrow(amount)
  \/ \E amount \in Amounts : PrivateBorrow(amount)
  \/ \E amount \in Amounts : Repay(amount)
  \/ AccrueForSeizure
  \/ \E price \in Prices, ts \in Timestamps : RefreshReserve(price, ts)
  \/ \E c \in Configs : UpdateReserveConfig(c)
  \/ Tick
  \/ \E amount \in Amounts : SendToVault(amount)
  \/ \E amount \in Amounts : BurnOwnCTokens(amount)

Spec == Init /\ [][Next]_vars

-------------------------------------------------------------------------------
TypeOK ==
  /\ reserve \in ReserveType
  /\ validate(reserve.config)
  /\ liquidity_vault \in U64
  /\ ctoken_supply \in U64
  /\ slot \in 0 .. MaxSlot

\* Every cToken is backed by at least one unit of liquidity that belongs to
\* the depositors, whatever was lent, repaid, accrued or set aside as fees.
\* So total_supply never fails for an underflow, which its callers would
\* read as 0, and the rate never falls back to 1:1 while cTokens exist.
SharesBacked == total_supply(reserve) >= reserve.mint_total_supply

\* What the account promises, the SPL accounts hold: available_amount can be
\* paid out of the vault, and no more cTokens circulate than are accounted for.
ClaimsCovered ==
  /\ reserve.available_amount <= liquidity_vault
  /\ ctoken_supply <= reserve.mint_total_supply

\* Together they are inductive: an accrual keeps total_supply above the cTokens
\* only because a valid configuration bounds the protocol's fee.
Inv == TypeOK /\ SharesBacked /\ ClaimsCovered

\* Both roundings favour the pool: whoever deposits and redeems the cTokens
\* at once gets back no more than was put in.
RoundTripNeverGains ==
  reserve.mint_total_supply > 0 =>
    \A amount \in Amounts :
      CanDepositLiquidity(reserve, amount) =>
        LET minted == liquidity_to_collateral(reserve, amount)
            after  == deposit_liquidity(reserve, amount)
        IN  CanRedeemCollateral(after, minted) =>
              collateral_to_liquidity(after, minted) <= amount

\* The exchange rate README.md calls appreciating never falls in any step:
\* nobody's deposit, redemption, loan, repayment or configuration change
\* dilutes the cTokens of the others.
NoDilution ==
  [][reserve.mint_total_supply > 0 =>
       total_supply(reserve') * reserve.mint_total_supply
         >= total_supply(reserve) * reserve'.mint_total_supply]_vars

\* Of the interest of a step the protocol takes at most MAX_PROTOCOL_FEE_BPS,
\* whichever configurations the owner went through (a step that mints or burns
\* no cToken changes total_supply by interest only, or by a deposit too small
\* for a cToken, which adds to it).
DepositorsKeepTheirShare ==
  [][reserve'.mint_total_supply = reserve.mint_total_supply =>
       (reserve'.accumulated_protocol_fees - reserve.accumulated_protocol_fees)
         * (BPS_SCALER - MAX_PROTOCOL_FEE_BPS)
       <= (total_supply(reserve') - total_supply(reserve)) * MAX_PROTOCOL_FEE_BPS]_vars

\* The borrow index never falls, and a step that raises it brings the account
\* to the present slot: no slot is ever charged twice.
InterestChargedOnce ==
  [][/\ reserve'.cumulative_borrow_rate_sf >= reserve.cumulative_borrow_rate_sf
     /\ reserve'.cumulative_borrow_rate_sf # reserve.cumulative_borrow_rate_sf =>
          reserve.last_update_slot < slot /\ reserve'.last_update_slot = slot]_vars

\* The reserve implements a vault of shares: its assets are the liquidity that
\* belongs to the depositors, its shares the cTokens of the account.
Vault == INSTANCE ShareVault WITH assets <- total_supply(reserve),
                                  shares <- reserve.mint_total_supply
ImplementsShareVault == Vault!Spec
===============================================================================
