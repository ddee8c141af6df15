# TLA+ models of the DoubleZero Solana programs

This directory models the on-chain programs of the repository: the
**revenue-distribution** program, which charges Solana validators for the use of
the network and pays its contributors, and the **passport** program, which takes
deposits for access requests. TLC checks the models on small instances; TLAPS
proves the most important properties for every value of the constants.

`PROJECT.json` lists the components, the runs, the lines behind every definition,
the hazards and the theorems.

## 1. Inventory

### Revenue distribution (`src/programs/revenue-distribution`)

| Component | State | Operations |
|---|---|---|
| ProgramConfig | pause flag, keys, grace periods, burn-rate schedule, relay pay, write-off activation epoch, next DZ epoch | `InitializeProgram`, `SetAdmin`, `ConfigureProgram` |
| Community burn rate | limit, epochs to increasing and to limit, cached slope and next rate | `checked_update`, `checked_compute` |
| Distribution, one per DZ epoch | phase flags, debt and rewards totals and roots, counters, bitmaps appended to the account, 2Z token account, lamports | `InitializeDistribution`, `ConfigureDistributionDebt`, `FinalizeDistributionDebt`, `ConfigureDistributionRewards`, `SetDistributionEconomicBurnRate`, `FinalizeDistributionRewards`, `DistributeRewards` |
| Validator debt | deposit account per validator, processed and write-off bitmaps | `InitializeSolanaValidatorDeposit`, `PaySolanaValidatorDebt`, `EnableSolanaValidatorDebtWriteOff`, `WriteOffSolanaValidatorDebt`, `WithdrawSolanaValidatorDeposit` |
| Journal | SOL balance, swapped SOL, next epoch to sweep, 2Z at the swap destination, number of integrations | `InitializeJournal`, `InitializeSwapDestination`, `WithdrawSol`, `SweepDistributionTokens` |
| ContributorRewards | rewards manager, recipients and shares, a flag that blocks a change of manager | `InitializeContributorRewards`, `SetRewardsManager`, `ConfigureContributorRewards` |
| RewardsIntegration | registration index, per distribution a 512-bit bitmap and a snapshot of the count | `InitializeRewardsIntegration`, `CollectIntegrationRewards` |
| Migration | none of its own | `MigrateProgramAccounts` |
| Merkle verification | none | `VerifyDistributionMerkleRoot` (read-only) |

How they interact: the debt accountant completes an epoch and commits to a debt
root; validators' deposits pay into the journal, anyone submitting the proof; the
swap program buys the journal's SOL for 2Z; when an epoch's rewards are final, its
debt net of write-offs is taken out of the swapped SOL and the matching 2Z is swept
into the distribution, strictly in epoch order; integrations and prepayments add
2Z; relayers then distribute one reward per leaf, paid out of an escrow. All parts
share accounts, and nobody orders the callers.

What is hard: most instructions are permissionless, so every order of payment,
write-off, finalization, swap, sweep, collection and distribution of *different*
epochs can happen; a write-off of one epoch may be charged to a later one; three
bitmaps share one byte array whose layout depends on that order; the same lamports
hold rent and escrow; shares are rounded down several times; the admin may pause or
reconfigure between any two steps; sweeps can stall each other.

What makes it correct: SOL and 2Z are conserved, every debt and reward is settled
once, what is finalized stays, the swapped SOL exactly covers the sweeps, escrow and
token accounts remain solvent, burn rates never fall, a pause freezes funds, and
settled epochs are swept and distributed in the end.

### Passport (`src/programs/passport`)

State: a config (two pause flags, admin, sentinel, deposit, fee, limit of backup
IDs) and one access request per service key (beneficiary, fee). Operations:
`InitializeProgram`, `SetAdmin`, `ConfigureProgram`, `RequestAccess`, `GrantAccess`,
`DenyAccess`. Hard: the admin changes deposit, fee and sentinel while requests are
open; addresses may be funded before they exist; one wallet may hold several roles; a
service key may be requested again. Correct: a request is decided on the terms it was
made with, can always be granted, and no lamport is created or lost.

### Mock programs (`src/mock`)

Test doubles of the two kinds of external program. The **mock swap program** keeps a
registry of fills (a ring of 8 slots with a head and a count); buying SOL records a
fill and withdraws SOL from the journal, and a sweep dequeues the oldest fill. The
**mock integration** keeps a distribution account and a bucket of 2Z per DZ epoch,
which anyone may create, and hands the bucket over when it is collected. Hard: fills
of several epochs are outstanding while sweeps and purchases alternate; buckets of
later epochs exist, and are filled, while an earlier one is collected. Correct: the
outstanding fills account for the swapped SOL, and revenue stays in its epoch.

### Not modelled

- `VerifyDistributionMerkleRoot` changes no account.
- `program-tools` is modelled where it decides or changes state (`try_create_account`,
  `try_initialize`, the upgrade authority check); account iterators and zero-copy layout
  have no state. Instruction encoding and client builders have none either.
- A direct call of the mock's `DequeueFills`, which it accepts from any signer; the
  program it stands for is called by the sweep.
- A change of the swap program's ID while fills of the old one are outstanding: there
  is one swap program in the composed model.
- Off-chain parts (accountants, sentinel, validators' client) are not in this
  repository; they appear as the actors that submit instructions.

## 2. Modules

| Module | Models |
|---|---|
| `Totals` | sums of a function's values, as a count of base units |
| `CommunityBurnRate` | `state/program_config/community_burn_rate.rs`: the schedule as functions on a record |
| `RevenueState` | the account fields as variables, with their names, and the checks shared by `processor.rs` |
| `DebtInstructions`, `RewardsInstructions`, `JournalInstructions`, `EpochInstructions` | one action per instruction |
| `RevenueDistribution` | composes the four: types, `Init`, `Next`, fairness, `Spec` |
| `SettlementLedger` | what the program promises: an abstract ledger of SOL and tokens |
| `RevenueProperties` | the properties, and the mapping to the ledger |
| `MockSwap` | the mock swap program's registry of fills, composed with the revenue program |
| `MockIntegration` | the mock integration's accounts and buckets, composed with the revenue program |
| `Authorities` | who may do what: bootstrap instructions, appointments of roles, contributor accounts |
| `MCRevenue`, `MCFills`, `MCIntegration`, `MCAuthorities` | instances for TLC |
| `TotalsTheorems` | lemmas about sums: one changed amount, disjoint parts, sums of two functions, sums over leaf indices |
| `RevenueTypeProofs`, `SolConservationProofs`, `LedgerProofs` | types, SOL books and the refinement of the ledger |
| `TokenProofs` | 2Z, integrations, burn rate, finalized terms, pause, escrow, and the compositions with the mocks |
| `BitmapProofs` | the three bitmaps: debts and rewards settled once, and what is settled covers what is owed |
| `AuthoritiesProofs` | proofs about `Authorities` |
| `Passport`, `MCPassport`, `PassportProofs` | the passport program, its instance and its proofs |

One variable is one account field. A field of a Distribution is a function of the DZ
epoch, a field of a deposit a function of the validator, a field of an access request
a function of the service key. One action is one instruction, which is atomic: a
failing instruction reverts, so its early returns are conjuncts of the guard. A
definition introduced as *Faulty variant* is used only to show that a property fails
when the code is changed that way.

Abstractions, and what they leave out:

- **Merkle roots** are the sequences of their leaves, `<<>>` being `Hash::default()`.
  A proof succeeds exactly for the leaf at its index (collision-free hashing). Callers
  may pass any leaf of any calculation at any index.
- **Signers** in `RevenueDistribution` are roles: a privileged action is a step that its
  authority signed. Which key holds a role, and who gave it, is the subject of
  `Authorities`; the passport model keeps keys too, because a wallet may hold several roles.
- **Bitmaps** are sets of bit positions in the account's appended data, with the byte
  ranges and offsets of the code.
- **Numbers.** `UnitShare32` (10^9) and `UnitShare16` (10^4) are the constants `MAX_SHARE`
  and `MAX_RECIPIENT_SHARE`; division rounds down as in the code. Amounts are naturals:
  every amount is bounded by the supply of SOL or 2Z, far below 2^64, and `TypeOK` shows
  that none goes below zero. The exception is the journal's record of the swap destination:
  the sweep subtracts from it without a check an amount that another program chose, and no
  Cargo profile of the repository turns overflow checks on, so the record is kept modulo the
  constant `U64`. The 16-bit integration counter keeps its limit (`MAX_U16`).
- **Time**: one unit is one minute; grace periods are compared exactly.
- **Rent** is linear in the data length, with constants. `journal_lamports` is net of rent.
- **External programs.** The swap program may report any 2Z for the fills it dequeued:
  the sweep checks the SOL of the report and not its 2Z, so that only the token program,
  which moves no more than the account holds, limits it (`is_transfer_funded`). Anyone may
  send 2Z to the swap destination without a swap (`DonateTwoZ`, up to `MaxDonated`); the
  report may then exceed the journal's record. An integration transfers any amount.
  `OwnStep` holds the steps that involve no other program, and `MockSwap` and
  `MockIntegration` put the mocks' code in place of the other ones. The mock integration
  does not compare the account passed as bucket with the bucket's address: the model lets
  it be another, empty, account of the same authority. Any 2Z sent to the journal is a
  prepayment. 2Z sent directly to a distribution's token account is left out: the only
  instruction that reads that balance, `CollectIntegrationRewards`, uses its change over
  one call. So are lamports sent to the journal or to a distribution.
- **Validator fee parameters** are reduced to whether any is set, the only thing read.
- **Init** of `RevenueDistribution` is the state after bootstrap: program, journal, swap
  destination and contributor accounts exist and the admin made a first configuration.
  `Authorities` starts before any account exists. Its bump seeds are functions of
  addresses and not state; three history variables record who signed last, which
  authorities have ever signed and who last set a contributor's blocking flag.
- The receiver of a deposit withdrawal is not modelled, only what leaves the deposit.
- **Passport**: the access mode is its number of backup IDs; the validator's signature in
  it is checked by the sentinel off chain. One transaction holds one instruction. The
  runtime's rule that an instruction preserves the sum of lamports is *not* in the
  model: the code must keep it by itself, since a decision that breaks it could never
  succeed. Nor are the rent rules for wallets.

## 3. Runs

| Run | Properties | Instance | States |
|---|---|---|---|
| `debt` | `SolConservation`, `WriteOffConservation`, `DebtSettledOnce`, `SettledDebtCoversSweep`, `DepositDebits`, `SwapDestinationTracked`, `ImplementsLedger` | 2 validators, 2 epochs, write-offs, any report of 2Z, a donation, `U64` of 16 | 1,047,000 |
| `rewards` | `TypeOK`, `TokenConservation`, `NullRootStaysEmpty`, `RewardsSolvency`, `EscrowCoversRelays`, `CollectedFrozenWhenDistributing`, `FinalizedTermsFrozen`, `NoRetroactiveBlock`, `GateHonest`, `GateCanOpen`, `ImplementsLedger` | 1 epoch, 2 contributors, 2 integrations, split recipients, null root | 226,000 |
| `layout` | `DebtSettledOnce`, `RewardsPaidOnce`, `SafeBelowTheFloor` | 9 rewards (a two-byte bitmap) or the null root, 1 debt, write-offs, 1 integration, a second epoch at the migration floor | 267,000 |
| `burn_rate` | `BurnRateNeverFalls` | 4 epochs, all reschedulings | 162,000 |
| `configuration` | `EscrowCoversRelays`, `PauseFreezesFunds` | 2 epochs, every other setting | 484,000 |
| `sweep_progress` | `SettledEpochsAreSwept` | 2 validators, 2 epochs, fair | 120,000 |
| `distribution_progress` | `SettledEpochsAreSwept`, `SweptRewardsAreDistributed`, `RevenueStaysInEpoch` | 2 epochs, a mock integration whose accounts for an epoch may never be prepared, fair | 181,000 |
| `authorities` | `BlockedControl`, `ChainOfTrust`, `PayeeControl` | 2 keys (or none) for every role, an upgrade authority, 1 contributor | 125,000 |
| `passport` | `RequestsCovered`, `LamportsConserved`, `PendingRequestsKept`, `DecisionsHonourTerms` | 2 wallets in every role, 2 service keys | 225,000 |
| `escrow` | `EscrowCoversRelays`, violated | write-offs, 2 rewards | |
| `migration` | `NoRetroactiveBlock`, violated | migration, 2 integrations | |
| `fills` | `FillsBackSwapDestination`, violated | mock swap program with 8 slots, 2 epochs | |

Why the bounds are enough. Two epochs let a write-off be charged to another epoch and
sweeps wait for each other. Two validators, of which a leaf may name the wrong one,
let a payment and a write-off race. Shares are quarters, so that products do not
divide evenly and rounding leaves dust. Nine rewards are the fewest whose bitmap takes
two bytes. Four epochs take the burn rate through its static, increasing and limit
phases with a reschedule in each. Two integrations, as many as the bitmap has bits in
that instance (`INTEGRATION_BITS`), are registered before or after the
initialization of a distribution. Two epochs are enough for a collection to meet a bucket
that is not its own, for an epoch that can never be collected to stand before or after one
that can, and for one to lie below the migration floor and one at it; in the `layout`
instance time ends before the second epoch can be calculated, so that it is initialized,
collected and migrated while the first one pays. A `U64` of 16 is
above every amount in the instances, and the record wraps as soon as a report of 2Z
exceeds it, which donations make possible. Two keys are enough to share, swap and
vacate every role, and contributor accounts do not depend on each other. For the passport, rents and deposits of one lamport put
fees at their limit, and a deposit setting whose fee exceeds the account shows the
rejection matters; each wallet may be admin, sentinel and requester at once.

`CHECK_DEADLOCK FALSE` is in every cfg because the bounds on time and epochs, or
wallets without lamports, really end a behaviour; in the `authorities` run a program
whose roles are all vacant may stop.

**The ledger.** `SettlementLedger` knows phases, amounts and an order of sweeps, and
nothing of roots, bitmaps, rent, escrow or callers. `RevenueProperties` maps to it: the
phase of an epoch is read off its flags, what it owes is `checked_total_sol_debt()`, and
the pools are the journal's counters and the token balances. `ImplementsLedger` is the
ledger's specification under that mapping: every instruction is a step of the ledger or
leaves it alone. So a debt is never forgiven after the sweep that used it, an epoch is never
swept before an earlier one or at another amount than its net debt, and no 2Z leaves
a distribution before its sweep.

**Fairness.** `FairSpec` assumes weak fairness of `SwapSol`, `Sweep(e)` and
`DistributeReward(e)`: steps that need no authority of this program and that someone is
paid for or has a stake in (the swap market, relayers paid by the escrow). Nothing is
assumed of admin, accountants or validators, hence the premises of the two progress
properties, and nothing of an external integration, whose withdrawal may fail for ever:
the program's README (lines 13-15) says that an epoch "can be structurally uncollectable".
`IntegrationSpec` adds weak fairness of `CollectBucket(e, p)`. Anyone may submit that
step, but it is enabled only if somebody created the mock's accounts for the epoch, which
nothing obliges them to do. So behaviours with an uncollectable epoch are among those of
the `distribution_progress` run. Such an epoch stays behind the gate at
`processor.rs:1327`; `SweptRewardsAreDistributed` therefore speaks of the epochs whose
integrations all have their accounts (`IsCollectable`), and the run shows that the
other epoch delays neither their sweep nor their rewards. The liveness instances never
pause.

### Findings

- **`escrow`** (`processor.rs:2215`). `EnableSolanaValidatorDebtWriteOff` computes the
  rent it must add from the account's whole balance. After the rewards are finalized
  that balance includes the relayers' escrow, so the bitmap's rent is paid out of the
  escrow and the last reward cannot pay its relayer. In the `rewards` and
  `configuration` instances, without write-offs, the same property holds.
- **`migration`** (`processor.rs:3386`). The migration writes the *current* number of
  integrations into old distributions, although the comment at 889-891 says that
  integrations registered later do not block a distribution. The `rewards` run, without
  the migration, shows that nothing else does.
- **`fills`** (`src/mock/swap-sol-2z/src/processor.rs:78`). The mock swap program writes a
  new fill at `fills_count` and dequeues at `head`. After the first dequeue the two no
  longer agree: the new fill lands before the head or on an outstanding fill, and the
  fills that later sweeps would dequeue do not account for the swapped SOL and its 2Z.
  Only the mock is concerned; that the revenue program keeps its own books whatever the
  mock reports is the theorem `FaultyFillsKeepTheBooks`.

## 4. Proofs

Every invariant and every action property that a passing run checks is also a theorem.
The proof modules form a chain: `TotalsTheorems`, `RevenueTypeProofs`,
`SolConservationProofs`, `LedgerProofs`, `TokenProofs`, `BitmapProofs`, each extending the
one before; `PassportProofs` and `AuthoritiesProofs` stand beside it.

**Assumptions** are the named `ASSUME`s of `CommunityBurnRate`, `RevenueState`,
`MockIntegration`, `Authorities` and `Passport`: constants have their types, shares have a
positive whole, integrations may prepare every epoch of the program
(`IntegrationEpochsAssumption`), the lamports of the passport model are finite in number
and its kinds of accounts distinct, and the zero key cannot sign. TLC evaluates them in
the runs. A hypothesis beyond them is part of the theorem that needs it.

**Sums** are counted as sets of units (`Totals`), not computed recursively, so what a
changed amount does to a sum is a fact about finite sets (`TotalUpdate`,
`TotalIncrease`). Amounts over two disjoint sets of arguments add up (`TotalParts`), so
do two amounts per argument (`TotalSum`), and a sum over leaf indices is one over
positions of leaves (`IndexedTotal`, `IndexedExtend`, `IndexedParts`).

**Who writes what.** `Writers` (`TokenProofs`) lists for every account field the
instructions that write it. It is proved once from `Next`; the later proofs consider
the writers of the fields they are about and no other instruction.

### Types, SOL and the ledger

- **`TypeCorrectness`** (`Spec => []TypeOK`). No subtraction of the revenue program but that
  from the record of the swap destination, which wraps, goes below zero. `TypeOK` is not inductive: `TypeInv` adds that configured
  recipients' shares make up the whole (so a reward is never paid out more than its
  amount: `RecipientsBound`, by induction on the number of recipients, and
  `RewardSplit`), that the slope's denominator is not zero (the burn rate divides by it)
  and that the journal's lamports match its books (both are decreased after one check).
- **`SolIsConserved`**, **`WriteOffsAreConserved`**. `SolBooks` adds to the two properties
  that the sums are finite and `PhaseOrder`: swept implies rewards final implies debt
  final, and nothing is charged to an epoch whose debt is not final. Without it a late
  `ConfigureDistributionDebt` could change a debt that a sweep has already taken. Steps
  that do not touch the books are handled together (`QuietSteps`).
- **`ProgramImplementsLedger`** (`Spec => ImplementsLedger`). Every instruction maps to a step
  of the ledger or to a stutter, one lemma per instruction. The mapping needs `TypeInv`
  (amounts are naturals), `SolBooks` (a write-off never exceeds the debt it is charged to,
  and the phases are in order, so that the flags of an epoch give one phase) and
  `FinalizedExist`: an epoch with a final debt has been initialized, without which a
  phase could skip "open".

### Bitmaps

- **`LayoutInvariance`**. `LayoutInv`: the bitmaps of an epoch lie inside its data and share
  no byte, no bit is set beyond the data, and a bitmap has no bytes before the instruction
  that appends it. Hence a bitmap is clear when it is appended (`AppendedIsClear`), in
  whichever order the three are, and marking a leaf marks it in one bitmap only
  (`MarkOwn`, `MarkOther`, then `PayMarks`, `WriteOffMarks`, `DistributeMarks`).
- **`DebtsAreSettledOnce`**. `SettledInv` adds to `DebtSettledOnce` that the written-off
  leaves are leaves of the root, too, and that over all epochs they are worth what all
  epochs were charged. The second is needed because a write-off is marked in its own
  epoch and charged to another. A root changes only while no leaf of it is marked.
- **`SettledDebtIsSwept`**. When all leaves of a consistent epoch are marked, what was paid
  and what was written off is its debt (`SettledEpoch`: the marked leaves are all the
  leaves, by their number). Summed over the epochs, with `SettledInv` for the
  write-offs and `SolConservation` for the rest, the swapped SOL is the unswept net debt.
- **`RewardsArePaidOnce`**, **`RewardsAreSolvent`**. `RewardedInv` is `RewardsPaidOnce` in
  terms of the marks; it is kept because neither the root nor the collected total changes
  once a reward is marked. Solvency follows: shares of the whole, each rounded down, are
  worth at most the total (`SharesFit`), unpaid and paid rewards are disjoint parts of
  them, and the account holds what was not paid (`TokensAreConserved`).

### 2Z, terms and configuration

- **`TokensAreConserved`** from `TokenBooks`, which adds that the sum over the epochs is
  finite and that nothing was converted for an epoch that is not swept.
- **`SwapDestinationIsTracked`**. `SwapDestinationTracked` is not inductive: while sweeps have
  taken more than swaps delivered it says nothing, and the next swap must still bring the
  right record. `SwapRecord` says that the record differs from the balance less the
  donations by a multiple of `U64`, always; two words that do are equal
  (`LessThanOneTurn`).
- **`GateIsHonest`**, **`GateOpens`**. `GateInv`: an epoch's count of collections is the size
  of its bitmap, its bits are below its snapshot, no snapshot exceeds the count of
  integrations, and every number below that count is the index of one. So a count that
  reaches the snapshot means a full bitmap, and a smaller one leaves an index, and its
  integration, to collect.
- **`BurnRateIsMonotone`**: from the types and what `checked_compute` and `checked_update`
  do to the cached rate (`ComputedRate`, `UpdatedRate`).
- **`DepositsAreDebitedRightly`**, **`FinalizedTermsAreFrozen`**, **`PauseIsEffective`**: action
  properties, by the writers of the fields and, for the terms, `SolBooks`.
- **`NewIntegrationsDoNotBlock`**, **`SharesAreOfOneTotal`**, **`NullRootsStayEmpty`**,
  **`RelayersCanBePaid`**: see the hypotheses below. `DistributingInv`: a distribution that
  paid a reward is swept and collected. `NullRootInv` adds to the null-root property that
  all integrations were collected at finalization; otherwise a later collection would
  bring in 2Z.

**Hypotheses on behaviours.** Two of the findings are behaviours of the program under
which some properties fail, so the theorems say what excludes them:

- The migration may change the snapshot of a distribution whose gate has opened.
  `NewIntegrationsDoNotBlock` proves `NoRetroactiveBlock` if snapshots are kept
  (`SnapshotsKept`), and `SharesAreOfOneTotal`, `NullRootsStayEmpty`, `RewardsArePaidOnce`
  and `RewardsAreSolvent` have `NoRetroactiveBlock` as a hypothesis: once blocked again, a
  distribution may collect more 2Z between two rewards, which then are shares of
  different totals. Migrations touch the epochs from `MIN_DZ_EPOCH` on only
  (`SnapshotsBelowTheFloor`), and every step of the argument is about one epoch, so
  `RewardsAreSafeBelowTheFloor` proves all of this of the epochs below the floor without a
  hypothesis, while those above it are migrated at will (`LowDistributingInv`,
  `LowNullRootInv`, `LowRewardedInv` are the three invariants for these epochs).
- `EnableSolanaValidatorDebtWriteOff` after the finalization of the rewards uses the
  escrow. `RelayersCanBePaid` therefore supposes that write-offs are enabled before
  (`WriteOffsEnabledInTime`); the two runs that check `EscrowCoversRelays` enable none.

### Compositions

- **`RevenueIsNotMixed`**. `RevenueInv` adds the types of the buckets to
  `RevenueStaysInEpoch`. The collection moves one bucket, that of the collecting
  distribution's epoch.
- **`IntegrationImplementsProgram`**, **`SwapImplementsProgram`**. With a mock in the place of
  the external program, every step is a step of `Spec` or leaves its variables alone: the
  theorems about `Spec` hold of both compositions. The first supposes that the program
  takes any natural amount of 2Z (`TokenAmounts = Nat`; a bucket may hold any sum of
  deposits), the second that the registry has a slot and that zero is an amount. No
  condition is put on the fills: neither the mock nor the sweep compares the reported 2Z
  with anything, and the models do not either.
- **`FaultyFillsKeepTheBooks`**. Hence the mock's misplaced fills (`fills`) may keep a sweep
  waiting, or give an epoch the 2Z of another's fill, but 2Z is conserved and the journal's
  record is right, which is proved of `Spec` for every report that the token account
  covers.

### Authorities and passport

- **`BlockedStaysInControl`**, **`PowersAreGranted`**, **`PayeesAreControlled`** for
  `Authorities`. `ChainOfTrust` is not inductive: `Appointed` adds that a role that some
  key holds was given by an authority that had signed. Since the zero key never signs,
  whoever signs for a role has been appointed. The action property uses `BlockedControl`
  to identify the manager of a blocked account with the key that blocked it.
- **`OpenRequestsAreCovered`**, **`LamportsAreConserved`**, **`DecisionsAreHonoured`**,
  **`PendingRequestsAreKept`** for the passport program. `PassportInv` adds
  `FeeBelowDeposit`, which connects the guard of `ConfigureProgram` with the fee a later
  request copies; with `RequestsCovered` the refund never saturates, which is what
  conservation rests on. The last two are action properties from the same invariant: a
  decision pays wallets only, and a request account is not a wallet.

### Only model-checked

The two progress properties, `SettledEpochsAreSwept` and `SweptRewardsAreDistributed`:
liveness under fairness, and the enabledness it depends on, are out of the prover's
reach. What they rest on is partly proved: the swapped SOL suffices for the sweeps
(`SettledDebtIsSwept`), the gate can open (`GateOpens`) and the account can pay
(`RewardsAreSolvent`, `RelayersCanBePaid`).

## 5. Plan

Done, in this order: the debt and journal, rewards, layout, configuration and burn
rate of the revenue program; its types and SOL books proved; the passport program and
its proofs; the abstract ledger, checked and proved to be implemented; authorities,
contributor accounts and bootstrap with their proofs; the mock programs composed with
the revenue program; proofs of the 2Z, configuration and bitmap properties and of the
compositions. Next:

1. An abstract specification of the distribution of rewards (a pot, shares and
   payees), and the proof that the program implements it below the migration floor.
2. The safety that liveness needs and that is not proved yet: the guards of the next
   sweep and of the next distribution hold in the states the progress properties start
   from, stated without `ENABLED`.
3. The properties of the abstract ledger itself, transferred to the program by
   `ProgramImplementsLedger`.
