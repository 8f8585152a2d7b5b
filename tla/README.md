# Veil-Vault in TLA+

A verification project for Veil-Vault, a lending protocol on Solana (an Anchor
program, `src/programs/veilvault`, and Arcium circuits, `src/encrypted-ixs`).
It has models of the program's accounts and instructions, TLC runs that check
them on small instances, and TLAPS proofs for every size.

Paths below are relative to `src/programs/veilvault/src/` unless they begin
with `src/`.

## 1. Inventory

| Component | State it keeps | Operations | Hard part |
|---|---|---|---|
| Reserve (`state/reserve.rs`) | idle liquidity, debt, fees, cTokens issued, borrow index, price, slot of the last accrual, configuration | deposit, redeem, borrow, repay, accrue, set price, set config | rounding in checked u64/u128 arithmetic; interest accrued by every handler on its own, in any order |
| Obligation (`state/obligation.rs`) | 8 deposit and 8 borrow slots, two counts, a value per slot, slot of the last refresh | deposit, withdraw, borrow, repay, accrue, health, refresh | slots given back leave holes while the code scans a prefix; values are snapshots of the last refresh |
| Market instructions (`instructions/*.rs`, public path) | nothing of their own; they join reserves, obligations and SPL token accounts | deposit, withdraw, deposit_collateral, withdraw_collateral, borrow, repay, liquidate, refresh_reserve, refresh_obligation | interleavings of several users in one slot; account state and token balances must agree |
| Governance (`state/lending_market.rs`) | owner, emergency pause | initialize_market, set_pause, update_market_authority, update_reserve_config | a pause, a hand-over or a new configuration between any two steps of others |
| Account creation | - | add_reserve, init_obligation | a reserve listed or an obligation opened between any two steps of others |
| Price reading (`utils/prices.rs`) | - | get_pyth_price | age, confidence and exponent checks in machine integers |
| Private positions (`state/private_obligation.rs`, `instructions/*private*.rs`) | encrypted position, nonce, liquidatable flag, two reserve keys | init, deposit, borrow, check, liquidate: each queues a computation whose callback comes later, or never | callbacks late, lost or out of order overwrite newer state; the flag outlives its cause |
| Circuits (`src/encrypted-ixs/src/lib.rs`) | - | init_position, add_collateral, add_borrow, check_health; the two remove_ circuits, which nothing queues | a division before a multiplication, products in u64 |
| Tests, scripts, circuit builder, migrations | - | - | not part of the program |

How they interact. Every instruction is one Solana transaction: it runs alone
on the accounts it names, and if any check or checked operation fails, no
account changes. So what interleaves is whole instructions of different users,
within one slot or across slots. They share the Reserve accounts (everyone's),
the Obligation accounts (the owner's, but anyone may refresh or liquidate), the
SPL accounts and the clock. Handlers call `accrue_interest` on the reserves they
touch; `refresh_obligation` does not, and reads what the reserves have stored.
`borrow`, `withdraw_collateral` and `liquidate` use the values that the last
`refresh_obligation` wrote, and insist that it was in the same slot.

The private layer is the one place with asynchronous calls. Its instructions act
on the same reserves, obligations and vaults as the public ones, with a copy of
their checks, and most also queue a computation on the user's encrypted position.
The instruction reads the account's nonce and passes it along
(`private_borrow.rs:179`); the cluster runs the circuit later, on the ciphertexts
it then finds in the account; and a callback, later still, stores ciphertexts and
nonce, or sets the liquidatable flag. A computation can fail, in which case the
callback errs and changes nothing, or expire without one. The tokens moved when
the instruction ran, whatever becomes of its computation.

What makes each part correct:

- Reserve: whatever was lent, accrued and set aside as fees, each cToken stays
  backed by a unit of liquidity; nobody's action lowers the exchange rate; no
  slot is charged twice; the account never promises more than the vault holds.
- Obligation: slots, counts and contents agree; a debt can always be repaid in
  full and then closes; a liquidation repays at most half and seizes at most its
  worth with the bonus.
- Market: each cToken locked is on exactly one obligation; snapshots never get
  ahead of the reserves; nobody loses cTokens unpaid; a pause stops what it must;
  new risk only after a refresh in the same slot.
- Private layer: to an owner who waits for the answers, each change is made
  exactly once, on what the changes before it left, or not at all; an
  initialisation that is asked for again completes; tokens in the encrypted
  position always have a reserve; a check never calls an uncovered position
  healthy; and the private instructions keep what the public ones promise.

The hazards are listed one by one, each at its line, in `PROJECT.json`.

## 2. Modules

```
FixedPoint            checked arithmetic, widths, RATE_SCALE
  ReserveState        a Reserve account as a record, one operator per method
    ReserveLemmas     what those operators return, keep and bound
    Reserve           its life: account, vault, mint and clock      MCReserve
      ReserveProofs   theorems about it   --- implements ---> ShareVault
    ObligationState   an Obligation account, one operator per method
      ObligationLemmas    what those operators do to slots, counts and debts
      ObligationHandlers  what each instruction does to an obligation
        Obligation    its life among reserves that move as they like  MCObligation
          ObligationProofs  theorems about it
        Lending       the market: all accounts, users, the owner,     MCLending
                      with PriceFeed; each of its reserves
                      --- implements ---> Reserve
          LendingProofs   theorems about it
  PriceFeed           which Pyth messages count, and the price they give

Addresses             the reserves' addresses (also of ObligationState)
Circuits              the encrypted computations, on what the ciphertexts stand for
  PrivateState        a PrivateObligation and its computations in flight
    PrivatePosition   its life: owner, keepers and cluster           MCPrivate
                      --- implements ---> PositionLedger
      PrivateProofs   theorems about it
      PrivateHistory  with the checks outdated by a liquidation      MCPrivateHistory
    PrivateLending    Lending with the private instructions beside   MCPrivateLending
                      the public ones; each user's private side
                      --- implements ---> PrivatePosition, and each
                      reserve --- implements ---> Reserve
      PrivateLendingProofs  theorems about it, from those of LendingProofs
```

Conventions. `op(x, ..)` is the account a method leaves behind and
`CanOp(x, ..)` says that it returns `Ok`. Every `checked_*` operation, and every
plain one too (`overflow-checks = true` in `src/Cargo.toml`), is a guard in some
`Can..`; the casts `as u64` and `as u16`, which wrap, are remainders. An action
is a handler as a whole: its guards are the account constraints, `require!`s and
checked operations, its primed variables all accounts and token balances that it
leaves changed. What is compared is kept, what is only carried (bumps, padding,
addresses of vaults, decimals, error codes, events) is left out.

- **FixedPoint** has the constants `RATE_SCALE`, `SLOTS_PER_YEAR`, `MAX_U64` and
  `MAX_U128`. They are parameters: the proofs are for all, the runs use small ones.
- **ReserveState** translates `Reserve`, `ReserveLiquidity`, `ReserveCollateral`,
  `ReserveConfig` and `CollateralExchangeRate`. `borrowed_amount_sf` is in whole
  tokens there, whatever its suffix says; that is what the code does.
- **Reserve** adds the SPL balance of the liquidity vault, the supply of the
  cToken mint and the clock. Its actions are the instructions that touch a
  reserve, plus two things the program cannot prevent: tokens sent straight to the
  vault, and cTokens burned by their holder.
- **ShareVault** is the abstract promise: a pool of shares whose worth never
  falls, first issued at par or dearer.
- **ObligationState** translates `Obligation` and its two kinds of slot, and the
  pricing loops of `refresh_obligation`. Slots are numbered from 1; a prefix
  `[..count]` of the code is `InPrefix`.
- **ObligationHandlers** is the part of each handler between loading the
  obligation and the transfers. Obligation and Lending both use it.
- **Obligation** is one obligation whose reserves are an environment: any state of
  a given set, except that the borrow index never falls, which is what
  `InterestChargedOnce` shows of every reserve. The arithmetic of debts gets more
  room this way than in the whole market.
- **PriceFeed** is `get_pyth_price`. The power of ten is a fraction `up / down`.
- **Lending** is the market: the accounts of all users and reserves, the token
  accounts, pause, owner and clock. It starts just after `initialize_market`;
  `AddReserve` and `InitObligation` are actions that may come at any time, so
  `reserves` and `obligations` are functions on the accounts there are. `Lend` and
  `Seize` are what a public and a private instruction have in common. A user's underlying tokens are not
  counted: anyone may have brought any amount from outside. A market that was
  handed over no longer resolves (`update_market_authority.rs:9`):
  `MarketResolves` is a guard of every instruction that derives its address.
- **Circuits** has the four circuits that the program registers. `MaxTokens` is
  the cap that their precision note asks of clients, below which no product leaves
  a u64.
- **PrivateState** translates `PrivateObligation` and its callbacks. Ciphertexts are
  a position together with the nonce they were made under; `decrypt` under another
  nonce gives `Unreadable`. A computation in flight keeps the circuit, the nonce
  it was queued with, its plaintext arguments and, when it has run, its output. Nonces
  are fresh, and the least one not in use stands for any of them.
- **PrivatePosition** is one position: the instructions that queue (whatever the
  market says to them), `Run`, `Fail`, `Callback` and `Lost`, and the liquidation
  that clears the flag. `OwnerWaits` says whether the owner sends nothing before
  the last answer, as `src/scripts/test-private-layer.ts` does (it polls at 491-496,
  547-552 and 617-621), or sends what he likes.
- **PositionLedger** is the abstract promise to an owner: a position, at most one
  change due, which is made or dropped, and not due for ever. `Standing(account)` and
  `Due(pending)` of PrivatePosition are the refinement mapping.
- **PrivateHistory** adds which computations were queued before the last liquidation.
- **PrivateLending** composes Lending and PrivateState: public and private
  instructions in any mix, several computations in flight for each user.

## 3. Runs

All small numbers: `RATE_SCALE = SLOTS_PER_YEAR = 2`, so that one slot at 10000
bps charges one full unit of the index, interest comes in halves, and every
division in the code has remainders to lose. In the obligation runs amounts reach
`MAX_U64` and the overflow guards refuse something; in the others the deposit and
borrow limits of the configuration come first. `MAX_U128` is reached in no run.
All runs but one check for deadlock: some instruction is always accepted.
`lending_users` does not, since after a hand-over no instruction of the market
resolves (section 2) and in the last slot everything may stop.

| Run | Instance | Shows |
|---|---|---|
| `reserve` | amounts 1 and 10, 3 slots, 4 configurations (one frozen, one with neither fee nor oracle, one to be refused), 1 token outside | type, solvency, cover, no gain in a round trip, no dilution, fee share, interest charged once, refinement of ShareVault |
| `obligation_slots` | 2 reserves, 2+2 slots, amounts 1-2, three reserve states (one without a price), symmetric in the reserves | slots, counts and snapshots consistent; whoever owes nothing can leave; a valued debt stays valued |
| `obligation_amounts` | 1 reserve, indices 3, 5, 7, exchange rates 1 and 4/3, two prices, amounts 1, 3, 5 | full repayment closes; refreshing often costs nothing; close factor; seizure bounded |
| `lending_users` | 2 users (symmetric), 1 reserve, 3 slots, pause, hand-over, frozen configuration, good and bad price messages | type, custody, tokens agree with the books, snapshots, nothing taken unpaid, liquidations bounded, pause, risk only after a refresh |
| `lending_reserves` | 1 user, 2 reserves (symmetric), 2 slots, listed and configured at any time | custody, snapshots and the refresh requirement across reserves, and that each reserve implements module Reserve |
| `private_serial` | 2 reserves, 2 offsets, 2 whole tokens a side, deposits and loans of 0 or 1, two price quotes, an owner who waits, keepers who do not, fairness | type, every token has its reserve, healthy means covered, refinement of PositionLedger with its liveness, initialisation completes |
| `private_market` | 1 user, 1 reserve whose oracle comes and goes, 1 offset, 2 slots, whole token of 2 units | custody, snapshots, the pause and debts on fresh values for public and private instructions mixed; refinement of Reserve and PrivatePosition |
| five `violation` runs | the smallest instances that show them | section 6 |

Why the bounds are enough. Three slots give interest on interest and an accrual
over several slots; 10 then 1 as amounts give deposits and loans of unequal size
with an exchange rate that is no integer; two slots per side are the least with
a hole before an active slot; two users are the least in which one acts on the
other's obligation, and two reserves the least with collateral and debt apart.
A liquidation closes half of a debt, so debts of two tokens and more occur in each
run that speaks of one. Two offsets are the least with an update and a check in
flight together, and with two checks that overtake each other; two tokens of
collateral at 1.02 and 85 percent are the least for which the check's division
rounds something other than everything off. A whole token of two units makes a
token amount that is no multiple lose its fraction. What small numbers cannot
show, the proofs do: every invariant of a passing run, and every action property
and refinement up to its liveness, is a theorem for all sizes (section 4).

The bounds by name: `MaxSlot` (clock), `MaxOutside` (tokens moved behind the
program's back), `MaxDebt` (scaled debt that a borrow may leave on an
obligation), `MaxAdd` (whole tokens of one private deposit or loan), `Offsets`
(computations in flight on an account), `Nonces` (as many as can be in use, so no
bound on how often one is rotated), `MAX_U64`/`MAX_U128` (widths, which the code
has too), `MaxTokens` (the circuits' cap, which the code has as a note), and
`deposit_limit`, `borrow_limit` in the configurations, which the code has too.

Fairness. The public path has no scheduler, keeper or queue of its own: nothing
happens unless a user sends an instruction, and nothing obliges anyone to. No
fairness is assumed there, and what could have been a liveness question (can a
debt always be repaid, can a depositor without debt leave) is asked as a state
property instead: `FullRepaymentCloses`, `DebtFreeCanLeave`, `SnapshotsBehind`.
The private layer does have a queue, and `FairSpec` of PrivatePosition, which only
`private_serial` uses, assumes

- that each computation in flight is in the end called back, or lost to an error
  or to its expiry (weak fairness for each offset): Arcium answers or expires
  every computation it takes;
- that the cluster does not fail, and the network does not lose, every one of
  endlessly many initialisations (strong fairness of running one and of calling
  one back);
- that an owner whose account is not initialised asks again (weak fairness), as
  `src/scripts/test-private-layer.ts:466-468` does and
  `instructions/init_private_obligation.rs:55-56` says is safe.

Deposits, loans and checks need not succeed, nor be asked for. Without the strong
fairness of the callback TLC finds `InitialisationCompletes` violated, and with an
owner who does not wait it finds `ImplementsLedger` violated: both
assumptions are needed.

Every property of a passing run has a mutant in `PROJECT.json`, a plausible
mistake in the code under which TLC finds it violated. The mutant operators stand
beside the definition that they distort.

## 4. Proofs

The theorems hold for every value of the constants: any scales and integer widths,
any number of slots, reserves and computations in flight, any inputs, no bound on
how long the program runs. The widths of a byte (counts), of basis points and the
program's own constants are as in the code. Every property that a passing run
checks is stated by a theorem, save what is liveness.

### The reserve (ReserveLemmas, ReserveProofs, ShareVault)

| Theorem | Says |
|---|---|
| `TypeCorrect` | types are kept, and the configuration stays one that validates |
| `Solvency` | `SharesBacked`: total_supply is never below the cTokens issued |
| `ClaimsAlwaysCovered` | the vault has what the account calls available; no cToken is unaccounted for |
| `RoundTrip` | deposit and redeem at once never gains |
| `NeverDiluted` | no step lowers the exchange rate |
| `FeesBounded` | the protocol takes at most `MAX_PROTOCOL_FEE_BPS` of interest |
| `IndexMonotonic` | the borrow index never falls and no slot is charged twice |
| `Refinement` | the reserve implements `ShareVault` |
| `ParKept` (ShareVault) | in such a vault a share is always worth at least one unit |

The argument. The inductive invariant is `Inv == TypeOK /\ SharesBacked /\
ClaimsCovered`. No part is inductive alone. `exchange_rate` falls back to 1:1
when `total_supply` is 0 or fails by underflow (`reserve.rs:534`), so a reserve
whose supply could underflow while cTokens exist would hand out shares at the
wrong price; `SharesBacked` excludes that state. To keep it, an accrual
must add more to the debt than to the fees, and that needs `protocol_fee <=
BPS_SCALER`, which is `validate`, a part of `TypeOK` (lemmas `InterestGrows`
and `FairAccrual`). Deposits and redemptions keep it because both conversions round
down (`FairDeposit`, `FairRedeem`); loans and repayments because they only move
liquidity from one term to another (`FairLoan`). Each action has one lemma that
gives the invariant and all four step properties at once (`StepOK`), and
`NextStep` joins them.

### The obligation (ObligationLemmas, ObligationProofs)

| Theorem | Says |
|---|---|
| `TypeCorrect` | slots, counts, amounts and debts fit their fields |
| `CollateralSlots`, `DebtSlots` | `DepositsConsistent`, `BorrowsConsistent`: however slots are opened, emptied and reused, counts are the slots in use, no reserve has two, empty ones are blank, a debt is a whole token at least and its snapshot one its reserve has reached |
| `RepaymentCloses` | `FullRepaymentCloses`: repaying what is due is accepted and gives the slot back |
| `DebtFreeLeaves` | `DebtFreeCanLeave`: who owes nothing can withdraw everything |
| `RefreshingOften` | catching up in two steps never costs more than in one |
| `StayingValued` | a debt once valued keeps a value while its slot is in use |
| `HalfTheDebtStays`, `SeizureWorthIt` | the close factor, and the bound of a seizure |

The argument. `Inv == TypeOK /\ DepositsConsistent /\ BorrowsConsistent` says that
the obligation is `Sound`, and `ObligationLemmas` shows method by method that an
operation on a sound obligation leaves a sound one, and what it does to the
collateral and debt of each reserve (`Deposited`, `Released` and their like). The
counts are cardinalities of sets of slots, which change by one element at a time.
That an index search finds the one slot of a reserve needs `OneSlotEach`, which is
why the consistency of the slots must be part of the invariant of any property of
amounts. Rounding is a handful of lemmas about `\div`, shared with the reserve.

### The market (LendingProofs)

| Theorem | Says |
|---|---|
| `TypeCorrect` | all accounts, balances and the clock keep their types |
| `Custody` | `CollateralInCustody`: a collateral vault holds exactly what is locked |
| `BooksMatch` | `VaultsMatchBooks`: a vault holds available_amount, all cTokens add up to mint_total_supply |
| `DebtsPayable` | `SnapshotsBehind`: no debt's accrual is ever refused for its snapshot |
| `Solvent` | every cToken of every reserve is backed, whichever instructions came before |
| `PauseFreezes` | `FrozenWhilePaused` |
| `RiskOnFreshValues` | `RiskOnlyAfterRefresh` |
| `Refinement` | each reserve, once listed, implements module Reserve |
| `LiquidationsFair` | `LiquidationsBounded`: close factor and worth of a seizure, with the interest of the very slot |
| `NobodyLosesUnpaid` | `NothingTakenUnpaid`, as long as `TotalsFit` |

The argument. `Inv` has six parts, which lean on one another:
`ReservesSound` (each reserve is typed, backed, validly configured, its index at
least the scale), `ObligationsSound` (`Sound` relative to the reserves: a debt's
snapshot is behind its reserve), `LockedOnlyInListed`, `CollateralInCustody` and
`VaultsMatchBooks`. The last two are what the handlers rely on without a check: that
a transfer out of a vault succeeds, and that burning cTokens cannot take the mint's
count below zero. Both are sums over all users; that changing one user's term
changes the sum by as much is `TotalChange`, proved by taking a
minimal set for which it fails (`FS_StrictSubsetOrderingWellFounded`, `WFMin`),
because an induction theorem cannot be instantiated here. Each instruction has a
lemma that says what it does to its reserves, its obligation and the balances
(`ReservesStep`, `ObligationsStep`, `BalancesStep`), and one that the invariant
survives it. An instruction that loads one reserve twice (`liquidate` with debt and
collateral in the same one) is two steps of it, in sequence.

For `Refinement` the operators of the instance of Reserve must be shown to be those
of the market (`SameArithmetic` to `SameMethods`), and the parameters to satisfy
the assumptions of Reserve (`ReserveParameters`). Then every instruction is an
action of the reserves it names (`DepositMaps` and so on). Reserve's vault and mint
are the market's, which is where `VaultsMatchBooks` is needed once more: it makes an
untouched reserve stutter.

`NobodyLosesUnpaid` has a hypothesis, `[]TotalsFit`: what the depositors of a
reserve own fits a u64. `total_supply` is a u128, and `collateral_to_liquidity`
casts a payout to u64 (`state/reserve.rs:561`): one that is a multiple of 2^64 would
burn cTokens for nothing. No check of the program keeps interest from taking a
total that far, so the hypothesis cannot be an invariant; with tokens of which there
are fewer than 2^64 it is true. In `lending_users`, where the width is 6, totals do pass
it, and no payout reached there is cast to 0.

### The private position (PrivateProofs)

| Theorem | Says |
|---|---|
| `TypeCorrect` | the account and its computations keep their types |
| `ReservesKnown` | `PositionHasReserves`: tokens in the encrypted position come with the address of their reserve |
| `HealthyIsNeverUncovered` | `HealthyMeansCovered`: a check that reads the position calls it healthy only if its collateral covers the debt with nothing rounded off |
| `SettledOnceOrDropped` | for an owner who waits, the initial state and every step are those of `PositionLedger` |

The argument. The type needs that nonces do not collide, though only a finite stock
of them is modelled: `TypeInv` says that ciphertexts under way have nonces that
neither the account, nor a computation, nor other ciphertexts have (`Apart`), and
`NonceLeft` counts: the computations hold two each at most, and the stock has one
more than that and the account's. It also says that what is asked for fits the position
it was asked on as long as that is the account's (`Fits`).

`PositionHasReserves` is not inductive: it says nothing of the
outputs still under way, which a callback stores without a look at the account.
The invariant `Inv` adds what each computation is entitled to (`Entitled`): one
that adds collateral or debt was queued on an account that is initialised and
names the reserve, and its output, when there is one, is backed by the addresses
that the account has. Those are never cleared again, because
`init_private_obligation` clears them only while `is_initialized` is not set, and
then, as `Inv` also says, the account has no position and no change is in
flight. So the late reset by a second initialisation, which the code allows,
loses tokens but never orphans one. Rounding is the lemma `RoundedDown`; a verdict
comes from nowhere but a run (`VerdictsComeFromRuns`).

The ledger's invariant is `Serial`: one update in flight, asked on the account as
it is, its output what the circuit makes of the position there, and the
position of an initialised account never unreadable. A step either asks for
a change, makes it, drops it, or leaves position and change alone (lemmas
`AskStep`, `MakeStep`, `DropStep`, `Quiet`). Without `OwnerWaits` `Serial` fails, and so does the refinement.

### Both together (PrivateLendingProofs)

| Theorem | Says |
|---|---|
| `PrivateCustody`, `PrivateBooks`, `PrivateDebtsPayable`, `PrivateSolvent` | the invariants of the market, with private instructions in any mix |
| `NobodyLosesPrivately`, `PrivateLiquidationsFair` | `NothingTakenUnpaid` (with the same hypothesis) and `LiquidationsBounded` |
| `PauseFreezesPrivate` | the pause stops the private instructions too |
| `FreshDebts` | `DebtOnFreshValues`: no debt on values older than the slot, where the oracle is on |
| `PrivateReserves` | each reserve still implements module Reserve |
| `PrivatePositions` | each user's private side implements PrivatePosition |

The argument. What the market sees of a private instruction is what a public one
does (`Lend`, `Seize`, `DepositCollateral`), or nothing (lemma `MarketSees`), so
`Inv` of LendingProofs carries over as it is, and so does what was proved of loans
and seizures; only the checks before them differ, which is why the pause and the
freshness are proved anew. For the positions, a step of the composition is a step of
one user's account and leaves the others alone (`OthersStay`); a client's amount
is a number of whole tokens below the circuits' cap, which the instance needs.

### Assumptions

All are named `ASSUME`s of the modules, which TLC evaluates on the runs.

- Scales and slots are positive, `RATE_SCALE` fits a u128, and inputs are
  values of the code's types (FixedPoint, Reserve, Obligation, Lending, Circuits).
  Nothing is assumed of the configurations the owner sends.
- `NoReserve`, the default key, is no reserve's address (Addresses).
- There are finitely many users and offsets (Lending, PrivateState): accounts exist
  one by one. Without it the sums over users would mean nothing.
- A client encrypts no more than the circuits' cap (PrivateLending): the note in
  `src/encrypted-ixs/src/lib.rs` asks it of them, and nothing on chain can check.
- The values that stand for no output, a failure and unreadable ciphertexts are
  different from positions, verdicts and changes (PrivateState, PrivatePosition).

### Only model-checked

- `InitialisationCompletes` and the liveness in `ImplementsLedger` (that no change is
  due for ever): this prover does not reach liveness.
- The five `violation` runs: what they show is a behaviour, for which one instance
  is enough.

## 5. Not modelled

- `remove_collateral_2` and `remove_borrow_2`: the program registers no such
  computation and queues none. The encrypted position therefore never shrinks but
  by a second initialisation.
- `init_*_comp_def`, which register the circuits once before anything else, and
  the Arcium accounts, fees and signatures. An output that does not verify is a
  `Failure`.
- A client who encrypts something other than what the instruction moves, or passes
  the circuits' cap: nothing on chain can tell. The model's clients encrypt the
  whole tokens of what they move; `src/scripts/test-private-layer.ts` encrypts token
  units, which is `WholeToken = 1`.
- Whether the prices a keeper sends with a check are true: they are the caller's
  choice, in the model too.
- Several markets: they share no account, so one market is each of them.
- Error codes, events, token decimals, and Anchor's checks of account owners and
  discriminators: a wrong account is refused before the handler runs.
- A transfer of cTokens between users' own token accounts: another deposit and
  withdrawal in effect, except for who made it.
- A Pyth price below one unit of the scale (a price of 0) in the market's runs;
  the obligation's runs have it.
- The u64 function `is_price_stale` (`utils/last_update.rs`) and the market's
  `set_version` and `set_protocol_fees`: no instruction calls them.

## 6. Where the program and what is said of it differ

Each of these is a run whose property states the words of a comment or document,
and TLC's counterexample.

- `obligation_health` - `health_factor` promises a number scaled by `RATE_SCALE`,
  divides two scaled numbers, and is compared with `RATE_SCALE` all the same. Any
  position with valued debt and less than 10^12 times as much collateral is
  unhealthy. Borrow compares the two sums directly, so it lends to positions
  which may at once be liquidated.
- `obligation_refresh` - the refresh prices the first `borrows_count` slots, which
  after a repayment are not the slots in use.
- `obligation_withdrawal` - a debt taken after the refresh of a slot has value 0
  until the next refresh, and a withdrawal of the collateral does not see it. A
  second borrow in that slot (`borrow.rs:108`) does not see it either.
- `lending_books` - the reserve rounds its debt to whole tokens at each accrual, the
  obligations do not, so that borrowers owe more than the reserve counts as lent, and
  the last to repay is refused (`checked_sub`).
- `private_recheck` - a liquidation clears the flag and is meant to require a fresh
  check; but the callback of a check that was queued, or even computed, before the
  liquidation sets the flag again.

Some behaviour worth knowing contradicts no statement of the repository, so that
there is no run about it:

- fees are taken off the supply that utilization divides by (`reserve.rs:467`), so
  it can pass 100% and the rate its maximum;
- nothing looks at the age of a stored price (`refresh_obligation.rs:63`): an
  obligation refreshed in this slot may be valued at an old one;
- nothing repeats a change of the encrypted position whose computation failed or
  expired (`private_deposit_collateral.rs:282`), although the tokens moved and the
  obligation counts them. Public withdrawals, repayments and liquidations leave
  the encrypted position as it is, too. The two part, and the flag is about the
  encrypted one;
- with two updates in flight the second to be called back overwrites the first, or
  leaves ciphertexts that nobody can read. The program does not exclude it; owners
  who wait for the answers are safe (`ImplementsLedger`).

## 7. Plan

Done: every component modelled and checked, alone and composed, and every property
of a passing run proved, save liveness. What could still be added:

1. `PositionHasReserves` and `HealthyMeansCovered` stated of the composed market.
   They hold of it by `PrivatePositions` and `PrivateProofs`; the prover cannot cite
   a theorem of an instance with a parameter, so the steps would be repeated there.
2. The same of each reserve and `NoDilution`, by `Refinement`.
3. A model of a client who encrypts something other than what he moves.
4. The two `remove_` circuits, once the program queues them.
