---------------------------- MODULE PrivateLending ----------------------------
(***************************************************************************)
(* The lending market with the private instructions beside the public      *)
(* ones: both act on the same reserves, obligations and vaults, and the    *)
(* private ones also on the user's private position.  Users may have       *)
(* several computations in flight, and mix the two kinds as they like.     *)
(***************************************************************************)
EXTENDS Lending, PrivateState

CONSTANT WholeToken  \* token units in a whole token, 10^decimals

\* Nobody adds more than the circuits' cap at once.
ASSUME WholeTokenAssumption ==
  /\ WholeToken \in Nat \ {0}
  /\ \A a \in Amounts : a \div WholeToken <= MaxTokens

VARIABLES
  private,  \* one PrivateObligation account per user
  pending   \* computations in flight on each of them

market_vars == vars
private_vars == <<private, pending>>
all_vars == <<vars, private_vars>>

\* Clients encrypt whole tokens, and lose the fraction.
whole_tokens(amount) == amount \div WholeToken

Queue(u, offset, circuit, amount, prices) ==
  /\ CanQueue(pending[u], offset)
  /\ pending' = [pending EXCEPT ![u] =
       queue_computation(private[u], @, offset, circuit, amount, prices)]

-------------------------------------------------------------------------------
PrivateInit ==
  /\ Init
  /\ private = [u \in Users |-> NewAccount]
  /\ pending = [u \in Users |-> << >>]

\* Mutant of InitPrivateObligation: an account in use may be set up again.
InitPrivateAgain(u, offset) ==
  /\ MarketResolves
  /\ private' = [private EXCEPT ![u] = init_private(@)]
  /\ Queue(u, offset, "init_position_v2", 0, NoPrices)
  /\ UNCHANGED market_vars

InitPrivateObligation(u, offset) ==
  /\ MarketResolves
  /\ CanInitPrivate(private[u])
  /\ private' = [private EXCEPT ![u] = init_private(@)]
  /\ Queue(u, offset, "init_position_v2", 0, NoPrices)
  /\ UNCHANGED market_vars

\* Tokens and obligation as in deposit_collateral.
PrivateDepositCollateral(u, r, amount, offset) ==
  /\ CanPrivateDeposit(private[u], whole_tokens(amount))
  /\ DepositCollateral(u, r, amount)
  /\ private' = [private EXCEPT ![u] = with_collateral_reserve(@, r)]
  /\ Queue(u, offset, "add_collateral_v2", whole_tokens(amount), NoPrices)

\* Mutant of PriceKnown: nobody asks for a price or a refresh.
NothingAsked(u, r) == TRUE

\* Only in a reserve with an oracle must there be a price, and the values be
\* of this slot.
PriceKnown(u, r) ==
  reserves[r].config.pyth_oracle =>
    reserves[r].market_price_sf > 0 /\ ~is_slot_stale(obligations[u], slot)

PrivateBorrow(u, r, amount, offset) ==
  /\ Open
  /\ CanPrivateBorrow(private[u], whole_tokens(amount))
  /\ PriceKnown(u, r)
  /\ Lend(u, r, amount)
  /\ private' = [private EXCEPT ![u] = with_borrow_reserve(@, r)]
  /\ Queue(u, offset, "add_borrow_v2", whole_tokens(amount), NoPrices)

PrivateCheckLiquidatable(u, prices, offset) ==
  /\ MarketResolves
  /\ private[u].is_initialized
  /\ Queue(u, offset, "check_health_v2", 0, prices)
  /\ UNCHANGED <<market_vars, private>>

\* The flag is the holder's; the obligation is any of the market's.
ExecutePrivateLiquidation(liquidator, holder, u, rr, wr, repay_amount) ==
  /\ Open
  /\ private[holder].is_liquidatable
  /\ Seize(liquidator, u, rr, wr, repay_amount)
  /\ private' = [private EXCEPT ![holder].is_liquidatable = FALSE]
  /\ UNCHANGED pending

\* What the cluster does, as in PrivatePosition.
Run(u, offset) ==
  /\ pending[u][offset].output = NoOutput
  /\ \E output \in Outputs(private[u], pending[u][offset],
                           FreshNonce(private[u], pending[u])) \cup {Failure} :
       pending' = [pending EXCEPT ![u][offset].output = output]
  /\ UNCHANGED <<market_vars, private>>

Callback(u, offset) ==
  /\ pending[u][offset].output \notin {NoOutput, Failure}
  /\ private' = [private EXCEPT ![u] = Delivered(@, pending[u][offset])]
  /\ pending' = [pending EXCEPT ![u] = Without(@, offset)]
  /\ UNCHANGED market_vars

Lost(u, offset) ==
  /\ pending' = [pending EXCEPT ![u] = Without(@, offset)]
  /\ UNCHANGED <<market_vars, private>>

PrivateStep(u) ==
  \/ \E o \in Offsets : InitPrivateObligation(u, o)
  \/ \E o \in Offsets, r \in Listed, a \in Amounts :
       /\ u \in Enrolled
       /\ PrivateDepositCollateral(u, r, a, o) \/ PrivateBorrow(u, r, a, o)
  \/ \E o \in Offsets, prices \in Prices : PrivateCheckLiquidatable(u, prices, o)
  \/ \E h \in Users, v \in Enrolled, rr, wr \in Listed, a \in Amounts :
       ExecutePrivateLiquidation(u, h, v, rr, wr, a)
  \/ \E o \in DOMAIN pending[u] : Run(u, o) \/ Callback(u, o) \/ Lost(u, o)

PrivateNext ==
  \/ Next /\ UNCHANGED private_vars
  \/ \E u \in Users : PrivateStep(u)

PrivateSpec == PrivateInit /\ [][PrivateNext]_all_vars

-------------------------------------------------------------------------------
\* Debt is only taken on values that a refresh of this very slot wrote, or in
\* a reserve that has no oracle to refresh from; so a price that moved since
\* is never borrowed against, by whichever of the two instructions.
DebtOnFreshValues ==
  [][\A u \in Enrolled, r \in Listed :
       DebtIn(obligations'[u], r) > DebtIn(obligations[u], r)
         /\ liquidity_vault'[r] < liquidity_vault[r]
       => \/ obligations[u].slot = slot
          \/ ~reserves[r].config.pyth_oracle]_all_vars

\* The private side of each user is a PrivatePosition, whatever the market and
\* its pause let through.
OnePosition(u) ==
  INSTANCE PrivatePosition WITH
    account    <- private[u],
    pending    <- pending[u],
    MaxAdd     <- MaxTokens,
    OwnerWaits <- FALSE
ImplementsPositions ==
  /\ \A u \in Users : OnePosition(u)!Init
  /\ [][\A u \in Users : OnePosition(u)!Next \/ UNCHANGED OnePosition(u)!vars]_all_vars
===============================================================================
