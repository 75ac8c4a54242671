# Backtest_Agent in TLA+

A verification development for Backtest_Agent: TLA+ models of the parts whose
correctness is hard to test, TLC configurations that check them on small
instances, and TLAPS proofs of the theorems that matter most for every value of
the constants. File and line references are to the repository.

* [The system](#the-system) is the inventory: parts, state, interaction, hazards.
* [The models](#the-models) says which module stands for what.
* [The runs](#the-runs) says what TLC checks, with which bounds and fairness.
* [The proofs](#the-proofs) says what TLAPS proves and along which argument.
* [What the models say about the code](#what-the-models-say-about-the-code) lists
  the places where code and documents disagree.
* [Not modelled](#not-modelled) and [Plan](#plan) are the rest.

## The system

Backtest_Agent is a Python service (FastAPI) and a set of scheduled jobs. It
simulates a trading strategy over historical bars, validates the strategy that
looks best, publishes the evidence to another service (Database_Agent) and attests
the stages of its promotion. It never trades.

| part | state it keeps | operations | what makes it correct |
|---|---|---|---|
| engine (`engine.py`) | cash, positions, pending signals, unfinished forced exits, remaining bar volume, equity curve: all local to one call of `_run_backtest` | one pass over timestamps, seven loops over symbols at each | every cent accounted for; no bar trades more than its participation cap; a stop once triggered is pursued; limits hold although many buys share one snapshot |
| execution and entry search (`execution.py`, `execution_policy.py`) | none; the policy is a `ContextVar` | prices, capacity, impact, binary search for an entry quantity | the search returns the largest fill that respects cash, exposure, position and risk limits |
| risk adapter (`risk_adapter.py`) | none | evaluate one entry | agrees with the allocator |
| strategies (`strategies.py`) | none | closes to buy/sell/hold | no look-ahead |
| metrics and analytics (`analytics.py`, `compare.py`) | none | ratios of a finished run | floating-point reporting |
| publisher (`publisher.py`) | none | fills to round trips, payload | round trips agree with the engine's ledger |
| database client (`database_client.py`) | one request at a time | POST a run, look it up when in doubt, promotion calls | "success" only if this evidence is stored |
| promotion lifecycle (`promotion_lifecycle.py`) | the last record answered | create or find, attest stage by stage | stages in order, ended stays ended, no false green |
| hourly runner (`hourly_promotion_runner.py`, `scripts/run_*_hourly_backtest.py`) | list of per-symbol items, written at the end | fetch, split, select, validate, open the holdout, publish, promote, report | the report never says more than happened |
| sealed holdout (`final_holdout.py`) | none | split, evaluate | opened only after selection |
| walk-forward, nested validation, multi-strategy selection | none | windows, selection inside a training window, gates | no test bar reaches the selection |
| research gates (`pre_holdout_research.py`, `research_overfit.py`, `research_trial_registry.py`) | none | cost stress, PBO, trial counts | fail closed, in order |
| statistics and robustness | seeded generators | bootstrap, stress scenarios | numeric |
| batch and single-run API (`main.py`) | list of items | run and publish per symbol | partial failure is reported as such |
| data provider (`data_provider.py`) | none | paged download, validation, fingerprint | all bars, once, in order |
| run identity (`run_identity.py`) | none | hash of data and parameters | equal identity, equal run |
| research evidence (`phase5*` to `phase16*`), storage and audit (`phase17*`, `phase18*`) | none | audits of a finished report; publish and read back | decides nothing about promotion |
| candidate policies | functions replaced at start-up | filter candidates, rewrite reports | only ever narrow what is promoted |
| security, readiness, contract, observability | counters under a lock | HTTP plumbing | |

How they interact: the API and the runner call the engine (a pure call that can
take seconds); the engine calls strategies, execution model and risk adapter; the
runner hands the result to the publisher, the publisher to the database client, and
only a confirmed publication goes on to the promotion lifecycle. Across processes
there is no shared memory: what the scheduled workflow (`hourly_backtest.yml`), the
post-merge workflow (`post_merge_v4_production_top10.yml`, another concurrency
group), the API service and reruns of any of them share is the database, and they
meet there because `run_id` is a hash of data and parameters.

What is hard, and to test in particular:

* **order inside a timestamp** - gap exits, signal exits, sizing, entries, intrabar
  exits and the close share one volume budget and one cash balance;
* **partial fills over many bars** - an exit that takes five bars meets gaps, empty
  bars and new signals on the way;
* **numeric edges** - integer increments, proportional fees, a price that depends on
  the quantity being searched for;
* **ambiguous requests** - timed out but committed, committed late, an error after
  the commit, a conflict that is a success;
* **concurrency at the database** - several processes publish the same run and
  advance the same promotion, from records that others have since changed;
* **partial failure and reruns** - one symbol of many fails, a job dies between
  publishing and promoting, the next hour does the same work again.

`PROJECT.json` lists each hazard at its line with the properties that cover it.

## The models

```
Execution               pricing, sizing, risk check: pure operators
 |-- EntrySearch        the binary search of max_entry_quantity
 |-- Engine             _run_backtest
 |    `-- TradeLedger   the fills and the curve of a run, what is published of them
 |         `-- LedgerEvidence   the evidence chain over them
 `-- Rounding           what a report rounds away (in TradeLedger and FillEvidence)
      `-- FillEvidence  phases 9 to 12 as functions of a report (in LedgerEvidence)

Strategies              the four signals
MarketData              the pages of the provider
OverfitGate             the probability of overfitting

MultiStrategy           gates, ranking and choice on one slice: pure operators
 |-- WalkForward        nested windows and the decision to promote
 `-- CandidatePolicy    the Manager's policies around the choice

HourlyRunner            the hourly pipeline of all symbols
RegimeEvidence          phases 13 to 15 over a growing history

PromotionRecord         what may become of a promotion
 ^ implemented by Promotion and by HourlyRunner, below
EvidenceStore           what publishing promises
 ^ implemented by
Publication             publish_backtest_run and the database behind it
 `-- PublicationRetry   with an observer of each try
Promotion               create_and_advance_backtest_promotion, database, manager
BatchRun                run-and-publish requests and the exit code of the script
ResearchRun             the sealed research workflow, its storage and audit
```

The theorems are in eight modules: `Execution_proofs`, `Engine_proofs` (with
`TradeLedger` and `LedgerEvidence`), `Algorithms_proofs` (`EntrySearch`, `MarketData`,
`Strategies`, `OverfitGate`), `Selection_proofs` (`WalkForward` with `MultiStrategy`,
`CandidatePolicy`, `RegimeEvidence`), `Publication_proofs` (with `PublicationRetry`),
`Promotion_proofs`, `HourlyRunner_proofs`, and `Storage_proofs` (`BatchRun`,
`ResearchRun`).

A definition whose name begins with `Fault_` is the definition that follows it with
a plausible bug. Nothing else uses it: it is there to show that a property would
notice that bug.

The modules whose name begins with `MC` are the instances: they extend a component, or
several, and give values to their constants. `MCEngineLedger` is the engine with its
ledger and the evidence of it: one behaviour of all three. `MCAlgorithms`,
`MCSelection` and `MCStorage` put components side by side that do not interact: a
variable `subject`, chosen initially, says which of them moves, and the variables of the
others keep a well-typed value. They extend these components, as the proofs do, so that
what a run checks and what a theorem states is one definition; only the second
walk-forward of `MCSelection`, of v3, is an `INSTANCE` (`V3`). Such a run is the union of
the runs of its subjects, and what is checked holds of the others because they rest.
What is configured outside the program and differs between processes is not a
constant but a variable that no step changes (`setting` of `HourlyRunner` and of
`ResearchRun`, `hasDatabase` of `BatchRun`): one run visits every configuration, and
one theorem is about all of them.

### Numbers

Prices and money are floats in the code; the models use exact integers so that
TLC and the provers can compute with them. A bar's price `p` stands for the
*reference* `p * BPS^2`, an *executed* price has one more factor `BPS`, money has
`BPS^4` units, so that percentages and basis points (parts of `BPS`, 10000 in the
code) multiply without a remainder wherever the code does not round. Where the code
rounds (quantities down to an increment, fees in proportion) the model divides with
`\div`. With a small `BPS` the runs explore coarse percentages; the formulas are
the same.

A *report* is rounded: the engine computes with its own floats and writes every price
with four decimals and every amount of money to the cent (`engine.py:155-168`, `:727`,
`:841`). `Rounding` has the two units as constants, `PriceTick` and `Cent`, so that a
rounding is one of whole numbers, and the tolerances with which the readers of a report
compare, as multiples of them: 0.03 is three cents, 0.00006 of a share 0.6 ticks. In the
code a cent is a hundred ticks.

### Execution, EntrySearch

`Execution` translates `execution.py` and the sizing functions of `engine.py`
operator by operator (capacity of a bar, linear market impact, spread, slippage,
fee, stop and target price, `_position_size`, the four conditions of `allowed`).
Its `ASSUME`s are the validators of the policy and of the request.

`EntrySearch` is the loop of `max_entry_quantity`: `order`, the inputs, and
`lowSteps`, `highSteps` in increments. `Raise` and `Lower` are its two branches.

### Engine

A state is a point between two iterations of the loops of `_run_backtest`: `phase`
names the loop, `todo` the symbols it has yet to visit, in alphabetical order as in
the code. `OpenBatch` brings the next timestamp and its bars; `ProtectAtOpen`
(`engine.py:422`), `SignalExit` (`:487`), `Size` (`:547`), `Enter` and `Refuse`
(`:581`), `ProtectInBar` (`:757`), `CloseBatch` (`:822`) are the loops;
`EndOfData`, `Liquidate`, `Finish` the end (`:845`). Each action is a whole
iteration: fill, cash, fees, position, forced exit and liquidity in one step.
Bars come one timestamp at a time from a set of shapes, and the strategy says
anything at any close, because no property may depend on a particular strategy.
Whether a timestamp begins a new day (the daily trade limit) is a free choice.
`traded` is an observer of the shares bought and sold of the current bar;
`realized` and `roundTripPnl` are the sums the metrics take over the trade lists.

Left out: the lists of trades, rejections, warnings and equity points themselves,
and the ratios computed from them. A symbol's `stop` and `target` are 0 instead of
`None` while it holds nothing; every use in the code asks for a positive quantity
first.

### EvidenceStore, Publication

`EvidenceStore` is the promise: under one `run_id` one evidence is kept for good,
and "confirmed" is said only to a publisher whose evidence that is. A refusal
promises nothing about what is stored.

`Publication` is how `DatabaseAgentClient.publish_backtest_run` does it. A payload
is its *identity* (the fields `_existing_run_matches_payload` compares: account,
skill, strategy, symbol, parameters, metrics, fingerprint, lengths) and its
*context* (what it does not compare: workflow run, trigger). Two publishers may
have different identities under the same `run_id`, since account and skill are not
hashed, and a rerun has the same identity in another context. `Handle` and
`HandleLate` are the database, which is outside the repository: it stores a run once,
answers truthfully when it says "success", may fail after the commit, and may
handle a request after its sender gave up. `GiveUp` is a timeout or transport error,
`Hear` an answer, `LookInVain` and `Decide` one attempt of the reconciliation.
The lookup is one step: what is stored never changes, so a stale answer of "found"
does not exist, and "not found" is always possible. `PublicationRetry` adds, for
each publisher, whether anything outside it has gone wrong since its current try
began: what a *retry* may promise depends on nothing earlier.

### Promotion

The database record is its `history`: the states it had, with the length as
version. `Begin` sends the create request, `Advance` is one round of the loop,
`Lose` and `Stop` are the exceptions that end the call. The database, external,
compares expected state and version, replays an identical transition with the
record that transition made (the incident-recovery section of
`docs/BACKTEST_PROMOTION_INTEGRATION.md`), and knows no order of the states, so that
the order in the history is this agent's doing. `Manage` is every transition of the
manager. `floor` is an observer: the version when the runner began.

`PromotionRecord` is what all this comes to for somebody who does not see the requests:
the agent attests a promotion until it is robust and leaves it alone from there on, the
manager approves it or ends it, and what has ended stays ended. `Promotion` implements
it (`Stage` is the mapping), with any number of transitions per call; `HourlyRunner`
implements it too, with a call in one step. That is why one may stand for the other.

### TradeLedger, FillEvidence, LedgerEvidence

`TradeLedger` runs along with `Engine` and appends to `trades` and `curve` what
`_run_backtest` appends: every fill with the fields somebody computes with, every
point of the equity curve, and the bar of the timestamp. Over them it has the
metrics of `_trade_metrics`, as counts and sums over the places of the exits
(`Exits`, `RoundTrips`, `Winners`, `Losers`), and `_trade_pairs` and
`_equity_curve_rows` of `publisher.py`: `PairingOf` goes through the fills and pairs
a sell with the entry before it, whose fees it shares out.

`FillEvidence` translates phase 9 (are the fills of the test windows all there),
phase 10 (closed positions rebuilt from them), phase 11 (their losses) and phase 12
(their costs) as functions of a report. `LedgerEvidence` hands the ledger over as
`nested_validation_v4.py` does, and also what a faulty transport would make of it: a
report in which a fill is lost, doubled or moved. The fills are
what was exported, with rounded prices and money, and the books that phase 10 rebuilds
from them differ from the engine's by what the roundings add up to. Each comparison has
the tolerance of the code, in ticks and cents.

### Strategies, MarketData, OverfitGate

`Strategies` grows a history by a bar at each close and evaluates the four signals,
an average being the sum over its window. Where two averages differ they are compared
as the fractions they are, by cross-multiplication. Where they are equal, or a close is
two percent from one exactly, the float quotients of the code decide: three closes of 0.1
average above five of them. The variable `rounding` is that decision, any of three
outcomes at a tie and none elsewhere.
`MarketData` is the loop of `fetch_bars`
(`Fetch` asks for one page) and the checks and the sort of `validate_price_bars`
(`Validate`); the service has some number of bars and cuts them into pages as it
likes, repeats a bar, sends one that cannot be parsed, or fails; `Sorted` says of each place
which row a sort puts there, by counting. `OverfitGate` is
`run_cscv_pbo`: the slices, the half-splits that are evaluated, the middle rank at
a tie and the share of negative logits.

### MultiStrategy, WalkForward, CandidatePolicy

A backtest of a candidate is a record of the metrics that a gate reads; which
numbers a strategy earns is free. `MultiStrategy` has the gates of
`multi_strategy.py` and `statistical_validation.py`, the ranking, and the choice or
abstention. The p-values are one flag.

`WalkForward` evaluates one window in each step `Evaluate`, with any outcome for
each candidate, and `Conclude` draws the conclusion: the stability gates, the rates
and medians over all or over deployed windows, the latest selection. Bars are
numbers, slices are intervals. `Profile` says whether the inner selection is that
of v3 or the relaxed one of `nested_validation_v4.py`. A median is what stands in the
middle of the values in ascending order: `Ranked(list, k)` is the k-th smallest, said
with cardinalities in place of a sorted list, since a theorem about sorting would need
induction.

`CandidatePolicy` is a process of `run_nested_hourly_backtest.py` before and while it
makes its choice: the bucket policy and the market regime read the files the
Manager left, and install a hook around the request, each calling the one before;
the ban on promoting exploratory research and the identity of the evidence follow.
`Request` sends the request of a symbol through the hooks, the newest first.
The files change between processes, the database keeps what all of them published.

### HourlyRunner

One runner is one workflow: `Fetch`, `Select`, `Validate`, `OpenHoldout`, `Publish`,
`Promote` for one symbol after the other, then `Write`, and the two adapters
`ReclassifyGates` and `ReclassifyHistory`, which rewrite the report by the text of
its errors. `setting` is the configuration of the workflows: their symbols, and which
of them have a database to publish to. `outlook` fixes which checks the bars of a
symbol fail on a day, so that a rerun on the same bars sees the same. `Crash` is a
cancelled job: what was written stays, a publication in flight may still arrive.
Publication and promotion appear with what their modules promise: a confirmed
publication is stored, one not confirmed may be stored later; a promotion call moves
forward or reports what others have decided. `unsealed` is an observer of the holdouts a run has executed.

### BatchRun, ResearchRun

`BatchRun` answers a request for one or several symbols: the contract of
`api_contracts.py`, a run id for each symbol, the simulation that may raise, the
publication with the promise of `EvidenceStore` for each id, the summary, and the
exit code that the script makes of it; `hasDatabase` is whether one is configured. A
symbol has a spelling, bars have a version and a request has an account, since those are
what requests may disagree about. What is stored is a row (`Row`): its id, symbol and
bars, the account, and the fingerprint of *all* bars of the batch (`Dataset`), which the
script puts into the metadata and the batch copies to every symbol. `Agrees` compares
rows as the client does; the id leaves out the account and the fingerprint
(`SymbolRunId`).

`ResearchRun` is the job of the sealed research: the gates of
`pre_holdout_research.py` in order with what each leaves in an item, the POST of each
symbol's evidence and its look-up (phase 17), the report, and the audit in a step of
its own (phase 18); `setting` has the flags of the job. The database stores, stores
late, refuses, or keeps something else than it acknowledged; the job may be cancelled
anywhere and is repeated.

### RegimeEvidence

A provider publishes observations of a market regime, some late, some revised; an
archive collects what it sees when it sees it; trades are entered in folds and
remember what was known then. At the end a file is handed over, as published or
altered in one way, and the as-of join (phase 13), the audit (phase 14) and the
corroboration by the archive (phase 15) judge it.

## The runs

| run | instance | what it shows |
|---|---|---|
| `engine_single` | 1 symbol, 4 timestamps, 6 bar shapes x volumes 0, 6, 16, increment 2 | volume caps (`WithinBarVolume`), whole increments and an allocator the risk adapter agrees with (`FillsStand`), stops pursued and remembered (`StopsAreWorkedOff`); no buy back at the open of a sale, and stop before target (`FillsAreConservative`) |
| `engine_ledger` | 2 symbols, 3 timestamps, volumes 8 and 24, reserve and exposure limits, a cent of 2000 and a tick of 247 units | two buys compete for one snapshot of cash and equity (`SnapshotSuffices`); the account, exactly (`AccountExplained`), and its limits (`WithinLimits`); published rows, metrics and curve agree with it up to their roundings (`PublishedIsTrue`); the evidence chain keeps the books of a genuine run, vouches for it when its positions are not too large for the tolerances, and then in the metrics' own numbers (`GenuineIsVouched`); it explains its costs likewise unless a trade lost money, and does not vouch for one with a lost, doubled or moved fill (`DamageIsSeen`) |
| `publication` | 2 publishers x 2 identities x 2 contexts, 2 publications each, 3 attempts | confirmed is stored and a calm retry is confirmed (`VerdictsAreRight`); the protocol implements `EvidenceStore` (`ImplementsEvidenceStore`); every call ends (`CallEnds`) |
| `promotion` | 2 runners, one of them run twice | stages in order and ended for good (`HistoryIsLegal`), no false green (`NoFalseGreen`), the calls implement the record (`ImplementsPromotionRecord`), every call ends (`RunEnds`) |
| `algorithms` | grids of orders; histories of 6 bars; 7 bars in pages of 3; 2 candidates over 3 to 5 bars in 4 slices | four algorithms against their references (`ReturnsTheLargest`, `SignalsAreSound`, `FetchIsFaithful`, `GateIsFair`), and the two loops end (`LoopsEnd`) |
| `selection` | 3 windows of v4, 2 overlapping ones of v3; one process with any file of the Manager, two in a row with fewer; a regime history of 2 records, without and with an archive | no look-ahead (`WindowsApart`), promotion of v4 earned and abstention explained (`PromotionsAreEarned`, `ChoiceExplained`), the same of v3, where tests overlap and may trade nothing (`OverlapIsEarned`), policies that only narrow (`EligibleIsEarned`), evidence of one id is one (`EvidenceNotConfused`), labels were known and stay (`LabelsAreTrue`, `PastLabelsStay`) |
| `hourly` | 2 symbols cancelled and repeated, with and without the database; 2 workflows on one symbol, 2 days | the seal (`SealKept`), passed evidence only (`OnlyPassedEvidence`), honest reports and nothing swallowed (`ReportsAreTrue`), promotions become only what the record allows (`ImplementsPromotionRecord`), every run ends with all symbols (`RunEnds`) |
| `storage` | a script with 19 requests and an API thread with the 6 sound ones on newer bars, without a fingerprint and partly for another account, 2 calls each, or the script without a database; sealed research of 2 symbols, 2 days, 2 runs | exit code 0 and a green job mean stored (`ExitZeroIsStored`, `GreenIsStored`, which also has evidence once and in order), the id of a batch's symbol holds this symbol's evidence on these bars only, and is refused for the account or the batch's fingerprint alone (`SymbolsStayApart`), calls and runs end (`CallsAndRunsEnd`) |
| `engine_signal`, `engine_costs` | as `engine_single`, other fees and volumes | violations, see below |
| `engine_losses` | as `engine_ledger`, with units so small that nothing is rounded away | violation, see below |
| `research_doc` | 1 symbol, any gates failing | violation, see below |

A property of a run is often a conjunction of facts that belong together, each
defined and explained on its own in its module: `FillsStand` is `WholeIncrements` and
`AllocationStands`, `SnapshotSuffices` is `PositionsBounded` and `CashNonNegative`,
`VerdictsAreRight` is `ConfirmedIsStored` and `CalmTryIsConfirmed`, and so on. The type
invariants are proved for every instance, so only one is in a run: that of
`ResearchRun`, which also says what a report is made of.

**Why these bounds are enough.** The engine's hazards need a position, an exit that
does not fill in one bar, and a bar after it: that takes three or four timestamps
(buy signal, entry, exit, next exit). Volume 0 makes an exit fail, 6 (a
capacity of 3, which is one increment of 2) fill partly, 16 wholly; the shapes go
through stop, target, both, neither, and gap
either way. Two symbols are enough for one to change what the other sees: the cash, the exposure
and the entries of the day that the second meets. That no more positions are open than
the limit needs more symbols than positions; a run of three symbols and two positions
would have the buys and little of the ledger, so the limit is left to the theorem
`PositionsStayBounded`, which is for any number. Three timestamps of two symbols give
the ledger partial exits, re-entries, and liquidations at different last bars. `PriceTick`
and `Cent` are chosen so that every part of the roundings is met with positions of a few
shares: prices, fees, profits and equity are no multiples of their units, so they round
both ways; a position of up to three shares is one the tolerance of phase 10 takes, of two
one that of phase 11 takes, and larger ones are among those that may be refused. In the
code's units these sizes are 375 and 250 shares, and 875 for phase 12.
For publication and promotion, two
processes and two calls of one of them cover a request of an earlier call that
arrives during a later call of either process. The loops of the algorithms see
their edges: a history that fills pages exactly and one that the limit cuts, a
window one bar longer than the longest look-back, an odd remainder of bars in the
slices, ties. Three windows have a first, a middle and a latest one, and a median
that is the mean of two when one holds cash. Two cycles of the policies are enough
for an evidence of the last hour to meet this hour's; two symbols of a workflow for
a failure before and after a success; two days for a rerun on newer bars. An
archive that sees one observation of two misses one, and a file altered beside an
archive is handed over once there is a trade, an archive and a registration, since
phase 15 refuses any file without them. More of each only adds more of the same
steps, and the theorems below cover any number.

**Fairness.** Only the program's own steps are assumed to happen, never those of the
database, the manager, the provider or a late request.

| fair | because |
|---|---|
| `Client(p)` of `Publication`, `Runner(r)` of `Promotion` | every `httpx` request has a timeout: a waiting client gets an answer or an exception |
| `Step(r)` of `HourlyRunner` for both runners, `Step` of `ResearchRun`, `Progress(c)` of `BatchRun` | sequential Python whose calls return or raise; where it may stop, at a cancelled job, that is an action of its own. `MCStorage` asks for it only where `CallsAndRunsEnd` speaks: of the script without a database and of the published research. With a database, a request also waits for its publication, whose end is `CallEnds` of `publication` |
| `Fetch` or `Validate` of `MarketData` | as for the client; that the loop ends rests on pages that bring bars |
| the loop of `EntrySearch` | a loop without a call |

`CHECK_DEADLOCK FALSE` is set where the program ends: a finished simulation, search
or history, and processes that have used up their runs.

## The proofs

All proofs are for every value of the constants, from the named assumptions of the
modules (the validated ranges of the policy and the request, the clamped number of
reconciliation attempts, a step no shorter than the test slice unless they may
overlap, folds that do not, finitely many symbols or candidates that are told apart by
numbers). The theorems that need a hypothesis of their own state it; it is explained
below.

**Execution_proofs** is the arithmetic: products and `\div` are monotone, so impact,
price, cost and all four limits of an entry grow with the quantity; what the
allocator, the sizing and the risk adapter return is a quantity no larger than they
were asked for. Its last part is about `SumFunction`: it exists, is an integer,
bounds its terms when none is negative, changes by as much as one term does, and
splits into the sums of two parts. The community module defines it by recursion over
subsets; the lemmas go by the smallest subset that would be an exception.

**Engine_proofs.** Types first (`EngineTypes`), then one inductive invariant for each
theorem, kept by every action. A lemma (`StepKinds`) sorts the thirteen actions: opening a
timestamp, the four sells, the buy, and those that move neither books nor volumes.

* `VolumeIsCapped`: traded plus remaining shares *are* the cap of the bar
  (`VolumeMetered`); the cap alone is not inductive, since nothing would say what
  the next fill may still take.
* `OnlyStopsAreForced`, `StopsPursued`: a forced exit is a stop of a held position
  and, from its failed attempt to the end of the timestamp, has no volume left
  (`ForcedAreExhausted`); otherwise a later loop could sell the shares and leave the
  forced exit behind. `BreachesRemembered` adds what the intrabar loop has visited.
  The three together are `StopsWorkedOff`.
* `BooksBalance`: a sell takes its proportion of the entry fees, rounded, and the
  last one takes all that is left (`AllFeesGo`), so nothing is lost however often
  the rounding happened. It needs that an empty position is empty in every field and
  that a symbol about to buy holds nothing (`Booked`), because a buy *overwrites*
  the average price and the fees.
* `ProfitIsExplained`: the last curve point is the value of the portfolio whenever
  the simulation is between timestamps or done (`CurveIsCurrent`), then the books.
  Both are `AccountIsExplained`.
* `LimitsHold`: while buys are placed, marks are opens and a symbol not sold at the
  open has not traded (`OpenHolds`). The set of held symbols grows by the buyer only,
  which bounds it (`PositionsStayBounded`). For cash and exposure
  (`BuysStayWithinLimits`) the risk agent is the difficulty: it may change the
  allocated quantity after the limits were checked. A smaller fill has a lower
  impact, a lower price and a lower cost (`CostGrows`), and the value it adds at the
  open is no more than what was paid (`BuyAddsItsValue`).
* `AllocationsStand`: the risk agent never does change it. It checks what the
  allocator checked already, at the same price and equity (`RiskLeaves`,
  `AllocationIsFinal`), on quantities that are whole increments from the sizing on
  (`InIncrements`), so that rounding down once more takes nothing.
* `SnapshotsSuffice`: the position limit, and no overdraft. A buy is paid for; a sell
  must bring at least its fee. The validators do not see to that, so the theorem
  assumes it: slippage, impact and half a spread are at most the price, and the fee
  at most the value. Without the first, finding 2 below is a counterexample; fees
  have no upper bound in `models.py:57`.
* `StopsAreConservative`: stops and targets are prices (`PricesAreReal`), inside a bar
  only protection sells and the stop comes first (`StopComesFirst`), and a sell brings
  no more than its reference (`SellBringsAtMost`). That needs only one half of the
  same hypothesis: otherwise a fee above the value, of a price below zero, is income.
  With `NothingBoughtBack`, which needs none, it is `FillsStayConservative`.

*The ledger*, in the same module, is a refinement to begin with (`LedgerIsEngine`: every
step of `LedgerSpec` is one of the engine), which gives it all of the above.

* `RowsAreTrue`: the publisher keeps books of its own, of entries not yet sold. The
  invariant `Ledgered` says that they are the engine's: the entry of a symbol is its
  position, with its quantity, price and fees (`EntriesStand`), so that no sell meets
  too small an entry, and the publisher's share of the fees is near the engine's. The
  sums taken at the end over lists are those the engine took as it went, up to half a cent
  for each number in them (`SumsAgree`): a fill adds one term to some of them
  (`OneFillMore`, `SellMetrics`) and a row to the rest (`RowSums`). That a row is in the right place is
  counted, not sorted (`SellPlaces`). The pairing is a recursive function over the
  fills, of which only one fact is needed: the pairing of one fill more is `Pair` of
  the pairing before (`PairingGoesOn`).
* `PublishedStaysTrue` adds the curve. The deepest fall is taken over the points before
  the liquidation replaced the last of them by a lower one, and with the initial
  equity as the first peak; the published falls are taken afterwards and without it. A
  fall from a higher peak is deeper (`DepthGrows`), but only of an equity that is not
  negative. Hence the hypothesis of `SnapshotsSuffice`.
* `GenuineStaysVouched`: the books of phase 10, kept by a fold over the fills that were
  exported, are a third copy, made of rounded numbers. The invariant `Vouching` says that
  after every fill they mirror the engine's (`BookWell`, `Mirrors`): an open book for
  every symbol that is held, with its quantity, its cost at the exported price, and its
  fees and profit near the engine's. How near is counted along: `Near(x, y, d)` is a
  distance of at most half of d, and `Drift(q, n)` is what the roundings of n amounts and
  of the prices of q shares may have moved a sum. Phase 10 shares out fees that it has
  already shared out before; that their error does not grow with the number of exits is
  `SharesNear`. A position that the tolerance takes leaves no error (`ErrorsExplained`);
  of a larger one phase 10 may note three errors, all of a sum, and nothing else
  (`Flawless`). Next to it stand what a single fill must be for phases 9 and 10 to accept
  it (`FillsAreGood`), that time does not run backwards (`Timed`), and that the closed
  positions count and sum as the metrics do, a clear win or loss being one in both
  (`CountsAgree`). Of the fold only one step is needed, as for the pairing. At the end a
  position is open in the books exactly when it is open, which is when phase 10 does not
  verify the run; phase 11 has one group, its tolerance takes what it takes of each row
  (`RowIsAbsorbed`), and the tolerance of the sum is the sum of the tolerances
  (`SumsWithin`). A fill is accepted when its exported price is positive, so the least
  price that a bar gives, after all adjustments, must be a tick (`PricesShow`). The other
  hypothesis, more than one timestamp, is that a test window ends after it starts.

**Algorithms_proofs.**

* *The entry search.* The price depends on the quantity through the market impact,
  so it is not obvious that bisection is allowed. Since cost and limits grow with the
  quantity, whatever fits still fits when it is smaller (`FitsDownward`). With
  that, "the lower end fits and everything above the upper end does not" is
  inductive: `SearchIsBracketed`. At the end both ends meet: `SearchReturnsTheLargest`.
  `SearchTypes` says that both ends stay whole numbers of increments in range.
* *The bars* (`SpecFetchIsFaithful`). While the service has done nothing wrong the rows
  are the first bars of the range, `Upto(n)`; once it has repeated a bar or sent a bad
  one, the rows show it (`Spoilt`) and more pages do not hide it (`SpoiltStays`), so that
  the validation refuses them. What is sorted already, sorting leaves alone (`SortedUpto`).
* *The signals* (`SpecSignalsAreSound`). A history and its last bars have the same
  windows, and the same rounding of their averages (`SameSignals`). Signals that would
  contradict one another are excluded by an average lying between the least and the
  greatest of its terms (`AverageBetween`). In a market that stands still the averages are
  equal and their rounding is free; three strategies ask for something else besides, and
  the theorem is about these (`StillSignals`).
* *The overfitting gate* (`SpecGateIsFair`). The slices partition the bars, so that a
  score is the sum of the scores of its slices and the best of each slice is the best
  of any half (`Dominated`). Of two candidates one is ahead in a half, and the split is
  overfitted exactly when the other one is in the complement (`OverfittedByTwo`):
  symmetric, so the splits that are kept have half of what all have (`HalfOfAll`).

**Publication_proofs.** The inductive invariant adds two facts to `ConfirmedIsStored`:
the answer "success" is given only of the run that is stored (`AnswersAreTrue`), and
a request still under way was offered by some publisher (`LateWasOffered`), which
survives reruns because they change the context only. `ConfirmedEvidence` follows,
and with it the refinement, step by step: commits map to `Keep`, ends of calls to
`Confirm` or `Refuse`, reruns to `Again`, all else to stuttering
(`PublicationImplementsStore`). The types (`TypesHold`) are an invariant of their own.
`VerdictsStayRight` is about a single try (`CalmTries`): as long as nothing around it
has gone wrong, an answer is one the server should give and means that something is
stored, so a call that fails has met the evidence of somebody else.

**Promotion_proofs.** The invariant says that requests, also the late ones, are
transitions this agent owns; that an answer is an entry of the history
(`Recorded`); and that neither answers nor questions are older than the run. The
history only grows (`Grows`), so what was recorded stays so. This gives
`StagesInOrder`, `EndedForGood` and `ReportsAreTrue` (the property `NoFalseGreen`),
with `TypesHold` before them. The first two together are `HistoryStaysLegal`.
`PromotionImplementsRecord` is the refinement: of all that is sent, also late, only a
transition out of the state before robustness applies (`ServingMoves`), so each step
attests, is the manager's, or changes nothing of the stage.

**Selection_proofs.** The walk-forward, for any history, lengths, step, embargo,
candidates and outcomes:

* every training slice ends an embargo before its own test slice and all later ones
  (`SpecNoLookAhead`), and no bar is tested twice (`SpecTestedOnce`) unless the criteria
  allow overlap. Disjointness of all pairs by their distance would be a product of
  step and index; the invariant instead keeps the windows in order and the next one
  behind all of them, which one step preserves by addition alone. Both are
  `SpecWindowsApart`.
* `SpecChoiceExplained`: the ranking is a strict total order (`RankingIsTotal`,
  `RankingIsOrder`), so that among finitely many candidates one comes first; a chosen
  candidate came first among those whose gates it passed, in training runs that some
  step drew (`ChosenInTraining`).
* `SpecPromotionsAreEarned`: a promotion was given for windows that used every start
  of the grid (`StartsUsed`, with the arithmetic of the next multiple), and more than
  half of them reach what the gates demand of the median (`HalfReachesMedian`). The
  invariant `RecordInv` says what a recorded window is, and from what the verdict was
  drawn. A finite set having a first or a largest member is an induction over its
  size; the proofs take a minimal set instead, in the well-founded order of proper
  subsets (`FirstExists`, `LargestExists`). `SpecTypeOK` has the types.

The policies, for any suite, portfolio and files of the Manager, over any number of
processes:

* `SpecEligibleIsEarned`, `SpecEvidenceNotConfused`, `SpecPolicyTypeOK`: which hooks are
  in force follows from where the process is (`HooksInForce`), and the map from the file
  (`MapInForce`). There are at most two hooks, so what a request asks for in the end is
  said in closed form (`RequestAsks`). A request that was forced to fail offers nobody
  (`NobodyIsForced`). With this every item and every piece of evidence was chosen from
  what its bucket and regime leave (`ItemExplained`, `StoreExplained`), and the identity
  names both.

The market regime, for any provider, archive, folds and hypotheses:

* `SpecLabelsAreTrue`, `SpecPastLabelsStay`: what is remembered with a trade is the
  newest observation that was there at its entry (`NewestUpTo`, `TradesExplained`), and
  what is published later is available later. The join therefore finds it in a file
  that says what was published, and an altered file differs in a way that the audit
  or the archive compares.

**HourlyRunner_proofs.** For any number of workflows, symbols, days, reruns and
cancellations. The invariant has what each runner knows of the symbol it is at
(`Passed`, `AtWork`), and that every item is true of the world it was recorded in
(`ItemIsTrue`): of the bars' failures, of what is stored and decided, of the holdouts
executed. An item stays true because the world only grows, and because holdouts are
executed in the order of the symbols (`UnsealedInOrder`), so never for an item that
says "sealed" already. The adapters read the text of errors; that they file nothing
under the wrong check needs that a failure says which it was (`FailureIsReal`). From
it follow `SealIsKept`, `OnlyPassedIsStored`, `ReportsStayTrue` and, as properties of
steps, `PromotionsNeverStepBack` and `RunsImplementRecord`.

**Storage_proofs.** For the sealed research: confirmed are, at every moment, exactly
the items before the current place that did not fail, in order (`Confirmed`); what the
answer of the server means when nothing has gone wrong (`Heard`); and that a report
waiting for its audit is complete (`Reported`). A green run then has every row
(`GreenStaysStored`, which also has that documents are kept and posted once and in
order). For the requests: a caller's outcomes are true of what is stored
(`OutcomeIsTrue`), and a row under an id computed from the evidence holds that
evidence (`StoredInv`). Exit code 0 follows, and the count of a summary, which is the
cardinality of the rows it speaks of (`ExitCodesAreTrue`, `RowsCounted`). Under the id of
a batch's symbol stands this symbol's evidence on these bars, so that only the account
or the fingerprint can make the client refuse it (`SymbolsNeverMeet`).

**Only model-checked.**

* Termination and every other liveness property: liveness under fairness is out of
  the prover's reach.
* `DamageIsSeen`. It is about reports of which a fill was lost, doubled or moved, or that
  were joined to another. No run of the engine produces them, so there is no invariant
  that follows the fold from one fill to the next: what it computes of the fills after
  the damage is induction over data.
* `OverlapIsEarned` is `PromotionsAreEarned` of a second instance; the theorem
  `SpecPromotionsAreEarned` is about all instances.
* `CostsAreExplained`, the part of `DamageIsSeen` that is about genuine fills: that the
  roundings of the costs of a position stay within the tolerance of phase 12.
* The violations of the next section: one counterexample each.

## What the models say about the code

1. *A sell signal can be forgotten* (`engine_signal`). A position with a pending sell
   opens beyond its take-profit on a bar whose volume does not suffice. The
   take-profit branch clears the forced exit (`engine.py:446`) and marks the symbol
   as exited, so the sell signal is skipped (`:491`), not recorded as partial, and
   overwritten at the close (`:826`). `README.md:163` and
   `docs/EXECUTION_REALISM.md:55` say an unfinished exit continues on later bars.
2. *A sell price can be negative* (`engine_costs`). The request validator bounds
   slippage plus market impact (`models.py:76`), but a sell also pays half the
   spread (`execution.py:52`). The test at
   `tests/test_volume_aware_execution.py:89` says that an invalid combination is
   rejected.

3. *Evidence of some symbols is not stored* (`research_doc`). The publisher of phase 17
   raises for an item without `phase9_oos_fill_evidence`
   (`phase17_research_storage.py:53`), and an item that the cost stress or the
   promotion metadata turned down has none (`pre_holdout_research.py:701`, `:739`).
   `phase18_research_publish_audit.py:19` says "A NO_TRADE research result is still
   an item that must be stored and read back", and
   `docs/phase17-research-database-integration.md:35` says the same.

4. *A trade that lost money is never explained* (`engine_losses`). Phase 12 reconciles
   the costs of a closed position with its profit, and first asks whether that profit is
   a number, with a test that is meant for prices and fees and refuses what is below
   zero (`phase12_execution_cost_regime_evidence.py:15-18`, `:213`). So each loss is filed
   as `closed_trade_cost_decomposition_mismatch`, and phases 13 and 14, which ask for the
   verdict, pass no run with a losing trade. The docstring (`:80-81`) promises the
   reconciliation of every round trip; the only trade of the tests made a profit.
   `CostsAreExplained`, which holds, says how far it goes: the price of every fill is
   explained, no error but this one is filed, and a run is verified whose closed trades
   lost nothing and are not too large for the tolerance (875 shares), however many exits
   they took.

Seen while modelling, in the code the models are written from, without a run of
their own:

* `docs/sealed-final-holdout.md:22` says the holdout is opened once. Nothing remembers
  an opening: a rerun, or another workflow, executes it again on the same bars
  (`hourly_promotion_runner.py:561`). Within one run it is opened once.
* `research_overfit.py:82-83` and `:145` speak of every half-split; the code keeps those
  with slice zero in the first half (`:147-149`). With two candidates and no ties that
  makes no difference (`TwoCandidatesAreSymmetric`, proved with the gate); with more it may.
* Phases 10 and 11 compare rebuilt with reported profits within 0.03 and 0.00006 of a
  share, "Engine stores executed prices at 4 decimals, and rounds realized P&L/fees to
  cents" (`phase10_closed_position_evidence.py:132-134`). Two exported prices, each off by
  up to half a tick, are off by a tick together, 0.0001 of a share: a genuine position of
  some thousand shares can be refused, as `engine_realized_pnl_mismatch` by phase 10 or
  as `pnl_or_fee_reconciliation_failed` by phase 11, whose cents do not grow with the
  number of exits as those of phase 10 do (`:160`). For at most 375 shares and two exits,
  or 250 shares and one exit, `GenuineRunVerifies` says that it cannot happen.
* `docs/API_CONTRACT.md:168` says that changing one symbol of a batch does not change
  another one's run identity. The `run_id` stays the same, but the client also compares
  the fingerprint in the metadata, which is that of the whole batch
  (`scripts/run_hourly_backtest.py:141-178`, `main.py:318`,
  `database_client.py:187-218`): the unchanged symbol is refused by its own evidence. The
  model has this (`Taken`), and `BatchIdsAreOwn` says what remains true.
* The crossover compares two float averages (`strategies.py:22-26`): five closes of 0.1
  give 0.10000000000000002 over three of them and 0.1 over five, a buy in a market that
  stands still. `FlatMarketHolds` leaves the crossover out.
* `fetch_bars` asks for the next page as long as there is a token
  (`data_provider.py:87-130`): a service that sends empty pages with tokens keeps it
  asking. The modelled service brings a bar with every token.
* `docs/API_CONTRACT.md:104-106` says that a window without an eligible candidate records
  the best diagnostic one and evaluates it on the test slice; the code records
  `NO_TRADE` and no candidate (`multi_strategy_walk_forward.py:587-599`).

Three limits that are not disagreements: a failed publication does not mean that
nothing is stored (a 502 to 504 is not reconciled), which is why `CalmTryIsConfirmed`
speaks of the next try; a runner whose answers are replays may report a promotion
that has been revoked since its run began; and a feed that withholds its latest
observation is labelled with the one before, since only the labels are looked up in
the archive (`phase15_independent_evidence.py:177`).

## Not modelled

* Bootstrap, p-values, Monte Carlo, stress scenarios and the ratios of `analytics.py`
  and `compare.py`: floating-point functions of a finished run. Their verdicts are
  inputs of the models.
* The plain walk-forward of `walk_forward.py`, which cuts each symbol at its own ratio
  (`:12`): symbols of different ranges are split at different dates, and nothing in
  the repository says that they should not be, so there is no property to state.
* The endpoints that only compute or report, middleware, security, readiness, the
  system contract, logging and metrics.
* Parsing: bars, environment settings, dates, the text of errors. A bar that cannot be
  parsed, or a setting out of range, is one value.
* Hashing: identities and digests are equal exactly when what they hash is.
* Floating point, apart from the roundings of a report and the ties of the averages:
  numbers that differ are taken to compare as exact numbers do.
* Phases 5 to 8 and 16, the replays and the attribution scripts: they sort and count
  finished reports and decide nothing.
* The research profiles v5 to v8 beyond their gates: they pick parameters.
* The other workflows: read for their triggers and concurrency groups, which are the
  processes of the models.

## Plan

What could be added, in this order:

1. The publication of `HourlyRunner` and of `ResearchRun` as implementations of
   `EvidenceStore`, as it is done for promotions: so far they have its promise
   written out.
2. `CostsAreExplained` as a theorem, with the near books of `GenuineStaysVouched`.
3. The plain walk-forward of `walk_forward.py`, once something says what it promises.
