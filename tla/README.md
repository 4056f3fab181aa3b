# stock-analyze in TLA+

`stock_analyze` runs simulated ("paper") portfolios of two strategy agents on two
markets: A shares, and cross-border ETFs listed in China (`cn_qdii_etf`). Once a
trading day a timer starts `run-daily` for each account. It executes the orders
the day before left, values the holdings, drops what is still pending and writes
orders for the next day. An operator releases new strategy configurations into
the running accounts. The state is a handful of files per account; each is
replaced atomically (`utils.py:68`), nothing is atomic across them, and nothing
is locked. Around this core a research pipeline trains models and decides, from
what they would have earned, which of them the strategies may use; an
"intelligence" database collects announcements from a supplier and has them read
by language models; a dashboard and notifications show the rest.

This directory models the accounts, the release, the announcement backfill, the
semantic batches and the model registry, checks them with TLC, and proves with
TLAPS the safety of both accounts, the release, the backfill, the semantic batches
and the registry. Paths below are under `src/stock_analyze/` unless they start with `src/`.

## Modules

| module | models | checked by | proved in |
|---|---|---|---|
| `AtomicLedger` | abstract: what a paper account promises | - | - |
| `SettlementAccount` | `markets/_settlement_simulator.py` as the QDII market binds it, driven by `cli.py` | `MCSettlement`: `settlement_qdii`, `settlement_t1` | `SettlementProofs` |
| `PaperAccount` | `markets/a_share/simulator.py`, `store.py`, quotes of `data_provider`, driven by `cli.py` | `MCPaper`: `paper_daily`, `paper_manual`, `paper_resale` | `PaperProofs` |
| `StrategyRelease` | `strategy_release.py`, `evolution_writer.py`, with the daily cycles beside them | `MCRelease`: `release`, `release_fresh`, `release_audit` | `ReleaseProofs` |
| `Backfill` | `intelligence/backfill.py` over `intelligence/store.py:1716-5110` | `MCBackfill`: `backfill` | `BackfillProofs`, `CoverageProofs` |
| `SemanticExchange` | `intelligence/semantic/exchange.py` over `intelligence/store.py:5651-6955` | `MCSemantic`: `semantic` | `SemanticProofs` |
| `ModelRegistry` | `research/activation.py`, `drift.py`, `model_iteration.py`, as `research/pipeline.py` and `shadow_admission.py` use them | `MCRegistry`: `registry`, `registry_drift` | `RegistryProofs` |

Every module has one action per file write, transaction or loop iteration, since a
kill may fall between any two. The comments of the actions name the functions, and
`PROJECT.json` maps each definition to its lines. Definitions whose comment says
"mutant" or "mutation" are deliberate errors; no specification uses them. For
every checked property one of them is substituted for a definition, and TLC then
finds the property violated.

### SettlementAccount

State: the files `state.json` (`book`: cash, positions, settlement queue),
`pending_orders.json` (`open`), `trades.csv` (`ledger`), `positions.csv`
(`view`), `daily_nav.csv` (`nav`) and `.settlement_transaction.json` (`journal`),
plus the memory of the command that runs (`job`, `pc`, `work`, `plan`, `saved`).

| actions | code |
|---|---|
| `Start` | `cli.main` dispatches `execute`, `update-nav`, `rebalance` or `run-daily` |
| `Load`, `ExecuteNext` | `execute_due_orders`: drain the queue, then one order at a time, retained or filled |
| `WriteJournal`, `CommitWrite`, `Unlink` | the outcome goes to the journal, then to four files, then the journal goes; also the replay of a journal found at the start of an execution |
| `AppendNav`, `NavState`, `NavView` | `update_nav` |
| `ClearTargets`, `PlanSell`, `PlanBuy`, `WritePlan`, `Enrich`, `GenerationFails`, `Restore` | `_run_daily_decision_cycle` and `generate_rebalance_orders` with its enrichment pass |
| `Crash`, `NextDay` | a kill or an uncaught exception at any point; the calendar |

A refinement mapping (`Abstract`) reads the account through the journal: as long
as there is one it is the truth, whatever the four files say. Through it the
module implements `AtomicLedger`, whose steps are "the due orders that fill leave
the open set, and holdings, money and ledger move together" and "new targets
replace open orders".

Abstractions. Orders get an id the code does not store, given out in list order,
so that "executed twice" can be said at all. Trade rows are kept as a count per
order and as column totals, which is what readers add up. Money is integral in
units that make the commission exact; the code's rounding of cents is left out.
Prices and target weights are nondeterministic, so orders are any that buying
power and holdings allow. `Init` also admits a pending order of an account that
left the configuration, which every execution must retain.

### PaperAccount

State: `state` (cash; per code the shares, the sellable shares, the date of the
last buy), `pending` (batches of signal date, execution date and target
holdings), `trades`, `view`, and the daily rows of the market, of which a run sees
those up to its date. `fresh` and `torn` are history variables used by properties
only. Execution is batch by batch (`OpenBatch`, `CloseBatch`) and order by order
(`Attempt`: done, blocked, sold, bought), then four plain writes without a journal
(`SavePending`, `SaveState`, `AppendTrades`, `WritePositions`), then the same
daily cycle.

Abstractions. One account and one lot size; targets are any function from codes to
holdings up to `MaxLots`, since scores, optimizer and caps do not matter here; one
flat fee instead of commission, tax and slippage; a row may be absent, or forbid
selling (`Bans`); valuations and NAV rows are left out; the trade rows of one
execution are appended in one step (a kill inside the append is a kill before it).

### StrategyRelease

State: per manifest entry the live overlay, its backup, its audit artifacts, the
pending orders and their archive with its progress mark; the release process
(`rel`); the daily cycle of each account (`cycle`). The release reads everything,
runs all gates, and then goes through the entries: backup, overlay, log, diff, CSV
row (`write_evolution`), and the archive of the old orders
(`_archive_pending_orders`), which on a retry is driven by the mark `archiving` or
`cleared` (or none, in archives of an earlier version: the second disjunct of
`Init`). The operator may be killed and may re-run at any time; daily cycles load a
configuration at their start and use it to the end.

Abstractions. Two overlays, `old` and `new`; gates pass or refuse; `by` is a
history field of an order; `raced` records that a release and a cycle overlapped.

### Backfill

State: the database (`db`: stored documents, the catalogue of securities seen in
them, `backfill_partitions`, `backfill_partition_items`, `backfill_jobs` with their
references, verification rounds) and per worker the recursion of
`AnnouncementBackfill` (`work`: the job and a stack of frames). Every store method is
one SQLite transaction, so a transaction is an operator from database to database
and a worker's step applies it.

| actions | code |
|---|---|
| `Begin`, `Enter`, `Finish` | `run`, `ensure_backfill_job`, `finish_backfill_job` |
| `ClaimProbe`, `CommitLeaf`, `CommitProbe`, `DiscardPage`, `FetchFails` | `_process`: claim the partition, ask for a page; short: complete; full: split or, for one day, go on security by security |
| `Join`, `FinishSplit` | `_process_split`, `_complete_split_parent` |
| `Bind`, `Scan`, `ClaimItem`, `CommitItem`, `ItemFails`, `ItemsDone` | `_process_saturated_day`, `_process_security_item` |
| `ClaimVerification`, `CommitRound`, `ClaimFold`, `Fold` | `_run_verification_round`, `_complete_item_parent`: whole-day probes until they show no new security |
| `Kill` | of a worker; its lease lapses at any later time |

A claim is an owner and a generation; a worker whose lease lapsed goes on with what
it fetched, and `Holds` decides at commit time whether it still counts.

Abstractions. `RunsJob`, `Holds` and `Refers` compare holders instead of counters
(nothing but equality of generations is ever asked). A lease may lapse at any time.
A page is any set of documents of the right size (`Pages`): the supplier's order is
not relied upon. The requests of one security are one step. Exceptions roll their
transaction back. Live ingestion stores documents exactly like another job's pages
and is not a process of its own. Left out: rows of older completion strategies, the
B-share filter, counters and offsets, `record_backfill_page` (the workflow does not
call it), configuration differences other than the page size.

### SemanticExchange

State: `semantic_execution_jobs` (`exec`), `semantic_runs` (`run`), candidates and
their decisions (`cand`), `semantic_repair_replacements` (`repl`), the job
directories (`job`: output rows, reports, and for a repair its context), and the
processes (`work`). `Prepare` makes a repair; `RunStart` to `RunReport` are `run_job`,
which for a bound job moves the row's status around every provider call;
`ImportStart` to `ImportReport` are `import_job`: claim or reuse a run, finish it,
decide its candidates, activate the repair.

Abstractions. A run's key is the document, the prompt and, for a repair, the job;
the executor is fixed. What the provider answers, whether it is valid, how many
events it holds and what becomes of a candidate are nondeterministic. Rows that are
not bound to the store's status are exchanged in one step. An exception that ends
an import is a kill. Hidden by an event relation, evidence, facts, scores, feature
refresh, the coding plan, external executors and deterministic routes are left out.

### ModelRegistry

State of one account: `registry.json` (`kind`, `status`, `role`, `champion`,
`previous`), `drift_lifecycle.json` (`drift`, `observed`), `shadow_cycles.json`
(`cycles`, `counted`), the pinned challenger (`candidate`), the daily prediction
(`run`) and a training or admission (`op`).

| actions | code |
|---|---|
| `StartPredict`, `ObserveDrift`, `ObserveAgain`, `Quarantine` | `predict`: `_resolve_model_roles`, `_assess_model_drift`, `quarantine_roles` |
| `Pin`, `CountCycle`, `GateToActive`, `EndGates` | `ensure_iteration_candidate`, `_advance_shadow_cycle`, `record_role_gate`, `reject_shadow` |
| `StartTrain`, `GateToShadow`, `Finalize` | `train_models` |
| `Admit`, `Supersede` | `admit_development_shadow`, `admit_campaign_shadows` |
| `RejectRule`, `RetireRules` | the operator's commands: `audit_shadow_quality`, one write for each rule, and `retire_legacy_rebuild_shadows`, one for all |

Abstractions. What the metrics say is a nondeterministic choice (`Outcome`, `wins`,
`hard`, `usable`): of the evidence only the number of usable cycles is kept, since
that is what the code counts. Versions are numbered as they register. A lifecycle
that is healthy, on warning or short of evidence is `open`: nothing but a report
tells these apart. Each method of `ModelRegistry` is one atomic write, so two
processes that overwrite each other's registry are outside the model, and in the
runs a training does not overlap a prediction (`Overlap`). The writes of a command
fall on one day. The market-wide fallback model, hashes and protocol versions,
`retire` and `initialize_champion` (no caller in the pipeline) and the classical
tournament are left out.

## What the runs show

| run | result |
|---|---|
| `settlement_qdii` | With the mechanics of the QDII market (sale proceeds reusable the same day), a kill between any two writes and any command on the half-committed store: execution is atomic (`AtomicSpec`), no order is filled twice (`ExactlyOnce`), cash, positions and trades agree (`Reconciled`), cash is never negative although orders are sized with other prices (`Solvent`), the daily cycle values and retargets a store without a pending journal (`DailyReadsSettled`), and no order disappears except by a fill or by replacement (`OrdersLeaveByFillOrReplacement`). |
| `settlement_t1` | The base class with proceeds queued to T+1: the queue neither loses nor double-credits money, and under the fairness below a journal is eventually replayed (`JournalIsReplayed`) and every receivable becomes cash (`ProceedsBecomeCash`). No binding in the repository uses this branch today; it is the base class's other half. |
| `paper_daily` | `run-daily` only, as the timers start it: never overdrawn, no share bought in a run is sold the same day, no trade past its target, agreement with `trades.csv` unless a kill fell between `state.json` and `trades.csv`, and with `positions.csv` outside an execution until the first kill and after every valuation of the daily cycle (`Reconciled`). |
| `paper_manual` | `rebalance`, `execute`, `update-nav` in any order: batches of several dates coexist, an execution drops only orders whose target is met or a later due batch speaks for (`OrdersLeaveFilled`), and the books agree (`Reconciled`). |
| `paper_resale` | **Violation.** Batches of two signal dates executed late in one run: the first buys, dated by an older row, and the second sells the same shares minutes later, which the T+1 rule of the specification forbids. |
| `release` | Two accounts, kills, refusals and re-runs: every switched overlay has its backup, without a kill there is no mix of strategies, no old order survives a completed release, what is taken off a queue is in an archive, and a completed release that is run again changes nothing. |
| `release_fresh` | **Violation.** After a kill between overlay and archive, a daily cycle under the new strategy queues fresh orders, and the retry archives and clears them. |
| `release_audit` | **Violation.** After a kill between the overlay and its log, diff and CSV row, the retry finds the overlay "unchanged" and never writes them. |
| `backfill` | Two workers, two jobs whose ranges and page sizes differ, one kill, lapse, failure or exhausted budget after the other: a completed partition holds what its basis says (`LeafHoldsItsDocuments`), a job reported complete has every day under a completed leaf (`CompleteJobIsCovered`) and trusts completed partitions only (`CompleteJobIsTrusted`); the report is taken back (`ReportIsTakenBackForCause`) and a partition asked again (`ReopenedForCause`) only for a reason. |
| `semantic` | A nightly job and two repairs of a document, two processes, a kill or a failed request: a final result stays (`ResultsAreFinal`), a document that was read keeps a visible reading through activations, refusals and roll-backs unless a repair of it is torn (`SomeReadingVisible`), an imported job is settled (`ImportedIsSettled`), and no row is asked twice at the same time (`OneCallPerRow`). |
| `registry` | Two models, a kill between any two writes: the champion of a role is its one active model (`OneActivePerRole`), it is left only for a successor that remembers it or for its quarantine (`ChampionLeavesForCause`), a role becomes active on enough observed weeks or by a roll-back (`ActiveOnEvidence`), a quarantine on file takes from the serving model every role it holds, unless it recovers or is replaced, but for a role in which it is its own predecessor (`QuarantineLands`; see Observed), and a challenger with evidence is promoted or rejected (`ShadowIsDecided`). |
| `registry_drift` | **Violation.** A quarantined model has one healthy window and then a hard breach: its lifecycle goes back to a warning, without the healthy windows in a row that `recovery_hysteresis_windows` asks for. |

### Observed

More was met than there are runs for.

* `docs/competition-runbook.md:75-80` lists archiving (4) before switching (5);
  `strategy_release.py:256-274` switches first.
* `NoOvershoot` fails under the manual commands as `SettlesNextDay` does: a late sell
  order whose target lies above the holding sells the absolute difference
  (`markets/a_share/simulator.py:805-807`).
* A kill between `pending_orders.json` and `state.json`
  (`markets/a_share/simulator.py:755-756`) loses the orders just executed: they are off
  the queue, and neither holdings nor `trades.csv` know them. `OrdersLeaveFilled` speaks
  of the execution's own account; on file a lost order looks like a filled one. The
  daily cycle plans from the saved holdings and so orders again what is missing.
* A kill between two decisions of one result leaves a succeeded run with some of its
  events. The next import asks only that those stored are canonical
  (`semantic/exchange.py:2326`, `:2651`) and is reported `imported`, which is why
  `ImportedIsSettled` asks for one canonical event and not for all.
* A torn repair leaves no reading. Two repairs under a prompt each (`MCPrompt` in
  `MCSemantic`): the first has replaced a document's nightly reading, the second was
  made from both readings.
  `activate_semantic_repair` decides run by run (`intelligence/store.py:6200-6222`):
  it refuses the nightly reading, which the first repair holds, and replaces the
  first repair's. The refusal's `rolled_back` row hides the second repair's own
  reading (`store.py:6922-6955`), the caller raises `semantic_repair_superseded` only
  after the commit (`semantic/exchange.py:2644`), and the document shows no reading.
  Without the clause `~Torn(k, d)`, `SomeReadingVisible` is violated in 18 states;
  `src/tests/test_intelligence_semantic_repair.py:117` covers a context without the
  first repair's run. Three repairs under one prompt do the same, without a roll-back,
  where two nightly jobs read a document under two prompts: one repair holds the first
  reading, and the two made from both readings are torn.
* A kill between the row's status and the saved answer (`exchange.py:2806-3098`) makes
  every later `run_job` abort at that row, and the rows behind it never run
  (`RunAborts`). A run left `running` by a kill is never reclaimed (`store.py:6005`).
  Two runners of one job may lose each other's output rows (`exchange.py:3091`).
* Without `--resume` a job may be reported complete over a day nobody finished
  (`CompleteJobIsCovered` with `Resume` both ways; TLC finds it with three jobs over
  days 1 to 3). A run of [1,3] has entered the finished half [1,2], has completed day 3
  and stands before its join. Another job's run starts again without `--resume`: it
  reopens [1,1] and [1,2], its claim of the saturated day drops the day's probe
  (`intelligence/store.py:2411-2625`), and it is killed. The join asks nothing of the
  halves (`intelligence/backfill.py:749`), so [1,3] is completed, and a third job that
  finds it complete and no probed day below it is reported complete. The service
  always passes `--resume` and holds a lock (`src/deploy/systemd`,
  `stock-analyze-intelligence-backfill.service:14`); the flag of the command is optional.
* `finish_backfill_job` does not ask whether a completed saturated day was completed
  under today's catalogue; that is left to the re-opening (`ReopenForCatalogGrowth`).
* A champion whose predecessor is itself is rolled back to itself
  (`research/activation.py:771-779`): one version is promoted, then the other, the
  second is quarantined and the role goes back to the first, which `previous` still
  names. The first, quarantined in turn, is written `quarantined` and at once `active`
  again, and stays champion with its quarantine on file, day after day, until it has
  enough healthy windows or a challenger is promoted. Without the clause `~OwnPredecessor(v, r)`,
  `QuarantineLands` is violated this way.
* Without a predecessor any model with a `superseded` role takes over (`:782-793`),
  also a shadow rule a later rule superseded, which no gate ever passed. A `retired` rule is admitted again (`:534`).
  Admitting an older campaign once more supersedes the live rule by one that is
  already closed (`research/shadow_admission.py:637`). Once one role of a model is
  promoted its other shadow roles are not gated again (`research/pipeline.py:4656`). A
  kill before `finalize_research_evaluation` leaves a model in shadow with one role
  (`:2497-2500`).

### Bounds

| bound | value | why it is enough |
|---|---|---|
| accounts (`Accounts`) | 1, plus a retired one | accounts share files but no money; the files are rewritten whole |
| codes | 1 or 2 | two orders in one execution, one filled and one kept; sells funding buys |
| `MaxOrders` 3, `MaxLots` 1 or 2 | | an order kept, one filled, one planned later; partial fills need 2 lots |
| prices | {1, 2} | a price doubles between sizing and fill, which makes cash insufficient |
| `InitCash` 33, 11, 5, 3 | | some buys fit, the next does not; with commission exactly at the limit |
| `LastDay` 3 to 5 | | order, late execution, next order; T+1 settlement twice |
| `MaxCrashes` 1 | | a kill, then any command on the remains; replay after replay is covered by `step` starting over and, for all numbers of kills, by the proof |
| `Entries` 2, `Bodies` 2, `MaxPlans` 2 | | a release stops between two accounts; queues that agree with an archive, differ or are empty; a cycle before and after a retry |
| backfill: days 1 and 2, four documents, `Limit` 2 and 1 | | day 1 has three announcements: saturated for either job, so it is split off and asked security by security; day 2 has one, which for the second job is a full page; three of four securities are not in the directory, so the catalogue grows under a completed day |
| backfill: `Resume` {TRUE} | any in the code | what the service passes; what other runs do is named under Observed |
| backfill: `Rounds` 1, `MaxEvents` 3 | | a start, another start and a kill, failure or exhausted budget, in every order; the code asks for more rounds of the same kind |
| semantic: documents 1 and 2, a prompt per job, `Result` {0, 2}, `MaxStarts` 3, `MaxFaults` 1 | | a repair made from another repair's reading, which a shared prompt excludes; no event, or two with a kill between their decisions; a run beside a run, an import beside an import, and the import repeated after the fault |
| registry: `NumVersions` 2, two roles | | a champion and a challenger, which is what promotions and roll-backs are about; what needs a third version is named under Observed |
| registry: `Windows` 1 or 2, `Recovery` 2, `Required` 2, `Cap` 3 | 3, 3, 12, 16 in the code | every counter below, at and above its threshold |

Codes and order bodies are interchangeable, which is what the symmetry sets of
`MCPaper` and `MCRelease` use; the temporal properties checked with symmetry are
action properties, for which it is sound; so are the workers of `MCBackfill` and
`MCSemantic` and the repairs of the latter. `MCBackfill` also has a view that leaves
out the holder of a claim nobody acts on any more. Deadlock is checked in the runs
of the accounts, the release and the registry, where an idle system can always start
another command; the backfill and the batches end when their starts are used up.

### Fairness

`FairSpec` of `MCSettlement` assumes three things. A started command keeps going
unless it is killed (`WF(Work)`): it is one sequential process and waits for
nobody. Days pass (`SF(NextDay)`). The daily run starts again and again, however
often other commands run (`SF(Start("run-daily"))`): `src/deploy/systemd` starts
the four daily services each weekday the market-data and research units before
them succeed, so this assumes that these do not fail for ever, and it assumes
nothing about earlier daily runs, on which no unit depends. No fairness is
assumed for the operator's commands or for individual orders to fill. Kills are
bounded by `MaxCrashes`; without a bound nothing could be promised.

`Fairness` of `ModelRegistry`: started predictions and trainings go on, predictions
start again and weeks pass, as above. `SF(Pin)` says that the prediction of the agent
that keeps challengers comes again and again. `SF(EvidencedWeek)` is an assumption
about the account, not about the schedule: again and again a week is counted whose
forward evidence is complete. Without it a challenger may wait for ever, and should.
The other modules have no liveness property: nothing in the code restarts an
operator's backfill or batch.

## What is proved

`SettlementProofs` proves, for all accounts, codes, prices, amounts, order counts,
days and kills allowed by `SettlementAssumption`, and whether the proceeds of a sale
are reusable at once or queued for `SettleDays`, the theorems `TypeCorrect`,
`BookedOnce`, `BooksReconcile`, `NeverOverdrawn`, `DailyCycleSettled`,
`ExecutionIsAtomic` (the refinement of `AtomicLedger`) and `NoOrderLost`: all
properties of `settlement_qdii`.

None of them is inductive: between two writes of a commit the files contradict
each other. The inductive invariant `IInv` says why that does no harm:

* `Memory`, `Control`: what is in memory, which command runs and whether there is
  a journal, for each value of `pc`;
* `Replayed`: the first `step` files agree with the journal;
* `SettledOK`: the store seen through the journal is consistent: money and
  holdings add up to the ledger, no row is doubled, pending orders are unbooked and
  have different ids;
* `ExecOK`: an execution in memory differs from the files by exactly one row per
  order that it took off the list;
* `DailyOK`: within the daily cycle there is no journal and the NAV row is current.

`InitIInv` and the step lemmas (`TypeStep`, `ControlStep`, `SettledStep`, ...) show
that it is initial and kept; each has one case per action. The arithmetic is in
`BuyAgrees`, `SellAgrees` and `RowAdds`.

A settlement queue is money: `Agree` counts it, and ties each receivable to a booked
row, so a sell that is not booked yet cannot meet its own receivable in the queue.
`QueueTotal` is a fold that takes the receivables in an order nobody knows. The section
"The settlement queue" shows that the order does not matter: `AdditiveExists` makes a
sum that is right for every order, by induction over finite sets (`FiniteSubsets`),
`TotalIsAdditive` shows that the fold computes it, and from there a receivable adds its
amount (`QueueTotalAdds`), a queue is worth its parts (`QueueTotalSplits`), and a drain
moves money without losing any (`DrainedBook`). A drain may run on the half-committed
state.json of a pending journal; there only the queues' finiteness is known, and the
replay writes over it.

`RegistryProofs` proves, for any number of versions, roles, windows, weeks and kills
that `RegistryAssumption` allows, and also when a training or an admission overlaps a
prediction (`Overlap`), the theorems `RegistryTypeCorrect`,
`RegistryOneActivePerRole`, `RegistryActiveOnEvidence` and
`RegistryChampionLeavesForCause`: all safety properties of `registry`. That the champion is the
one active model of its role is not inductive: an admission makes a rule's roles
`shadow` again unless its status is terminal, and would take the role from a champion
if a rule could be one with another status. A rule can be a champion, by a roll-back
(see Observed), so the invariant `IInv` adds

* `RolesOK`: an unregistered version has no role; a rule that has an active or a
  superseded role, or is somebody's predecessor, has the status `superseded`, which
  no admission reopens;
* `RunOK`, `OpOK`: a prediction or a training works on a learned model, a roll-back
  under way is one of a model quarantined on file, and the number of usable cycles a
  gate decides on was counted.

`NewestExists` is the one induction, by the well-founded order of the numbers. The
step lemmas have one case per write; `CloseKeeps` and `KindKept` carry what rejections
and registrations share.

`PaperProofs` proves about the A-share account, for any codes, prices, fees, days,
batches, kills and failed plans that `PaperAssumption` allows, `PaperTypeCorrect`,
`PaperSolvent`, `PaperReconciled` and `PaperOrdersLeaveFilled` under any commands, and
`PaperSettlesNextDay` and `PaperNoOvershoot` under the assumption `Daily`, that
`run-daily` is the only command. The last two need it: `paper_resale` shows how two
commands of one day break the first, and `Observed` the second. In the invariant

* `Funded`, `BooksOK` follow the money: cash and holdings in memory and in the files
  differ from `trades.csv` by exactly what the execution under way has done and not
  yet written, unless a kill tore them apart (`torn`);
* `ViewOK` says when `positions.csv` may differ from the saved holdings: inside an
  execution, and after a kill until the daily cycle has valued the account;
* `QueueOK`, `OrdersOK` follow the orders: batches have different signal dates, and an
  order taken off a batch is still in the execution's hands, met its target
  (`Accounted`), or a due later batch holds its code;
* `DailyOK` is the timers' schedule: at most one batch is due, its orders stem from
  one plan over holdings nobody touched since, so a sell order aims below the holding
  and what it sells was bought on an earlier day.

`ReleaseProofs` proves for any number of entries, orders, daily cycles, kills and
re-runs `ReleaseTypeCorrect`, `ReleaseRecoverable`, `ReleaseAllOrNothing`,
`ReleaseRetiresOldOrders`, `ReleaseArchivesBeforeClearing` and `ReleaseRerunHarmless`:
all properties of `release`. Its invariant says, for each step of the release, how far
the entries before, at and after the one in work have come (`ControlOK`), that a
switched overlay has its old body in the backup (`Recoverable`), and that an archive's
mark tells the truth about the queue where no daily cycle ran beside it (`QueueOK`);
`MixOK` is what a run without a kill may leave. What the runs
`release_audit` and `release_fresh` refute takes a kill: `ReleaseAuditedUntilKilled`
and `ReleaseFreshKeptUntilKilled` prove both statements for behaviours without one
(`crashes = 0`), by `AuditOK` (only the entry in work may lack records) and `FreshOK`
(an entry is archived in the run that switches it, and until then nobody queued an
order of the new strategy).

`SemanticProofs` proves, for any processes, jobs, documents, prompts, repairs, starts,
kills and failures that `SemanticAssumption` allows, `SemanticTypeCorrect`,
`SemanticResultsFinal`, `SemanticImportedSettled`, `SemanticOneCallPerRow` and
`SemanticSomeReadingVisible`. There is no lock to argue with; the invariant says what replaces it:

* `RunsOK`: a run that is `running` because a living process claimed it has that one
  owner, so the status it is finished with is nobody else's;
* `CallsOK`: the status of a bound row tells how far its one caller is (`StatusAt`),
  since `transition_semantic_execution_job` lets a second one through from no status
  a caller holds;
* `JobsOK`: a repair's context are finished runs of its own documents, and what a
  finished run says stays;
* `ImportOK`: an import without an error or an open item has settled every document no
  longer in its queue. The memory a step of an import leaves is one of the cases of
  `Fares`.

What each step does to the memory of its process (`Move`), to the rows (`RowChange`),
to the runs (`RunChange`) and to the files (`FilesFit`) is a lemma of its own; the
step lemmas of the invariant rest on these instead of on the actions.

Which reading of a document stays visible depends on which repair may replace which
reading, and that on when the repairs were made. `Readings` says that a repair which
has decided about a reading was made from it and has read the document itself, that no
repair is made from a reading under its own prompt, and (`Ordered`) that among any
repairs there is one from whose readings none of them was made, and one made from none
of theirs. So (`ReadingShows`), if no repair holds a reading of the document, what the
first of those rolled back had replaced is back; if some do, the last of them shows its
own. `SemanticReadingStays` drops the
exception: where a repair has one reading of a document to replace (`OneReadingEach`,
the case the tests of the repository cover), no repair is torn and a document that was
read always shows a reading.

`BackfillProofs` proves, for any workers, jobs, page sizes, ranges, documents, runs,
kills and failures that `BackfillAssumption` allows, `BackfillTypeCorrect`,
`BackfillLeavesHold`, `BackfillCompleteIsTrusted`, `BackfillReportTakenBack` and
`BackfillReopenedForCause`. The days are finitely many and without gaps, and every job
has at least one range. The invariant is

* `BasisOK`: only a day is ever probed, and what completed a probed day is its catalog;
* `Trusted`: the partitions a completed job refers to are complete;
* `Stored`: whatever an item, a probe or a leaf counts as seen is among the documents;
* `Reporting`: while the last run of a job is at work the job is not reported complete.

A transaction that refers to a partition may reopen any number of others, one after
the other. What one re-opening does is the relation `Reopens` (rows become
`failed_overflow`, references suspect, reports partial, each for a `Cause`), which is
transitive (`ReopensFurther`); `LeafLoop` and `AboveLoop` carry it along the loop by
induction on the rows left, and `Refreshes` is what remains of it for the caller. Each
action then has a lemma that its database is `Sound` and the memory it leaves is one
of the same job (`Moved`).

`CoverageProofs` goes on from there to `BackfillCompleteIsCovered`: a job reported
complete has every day of its range under a completed leaf, although its workers walk
over partitions that other jobs share, reopen and claim, and a join asks nothing of
its halves. It has two hypotheses. `ResumesOnly` is what the service does, and
without it the property is false (see Observed). `RootsApart` says that the ranges of
one job share no day, which `_month_partitions` (`intelligence/backfill.py:1387`)
makes so. The invariant `Coverage`, on top of that of `BackfillProofs`, says

* `RangesKnown`: every day of a completed range is `Known`: under a completed leaf, or
  probed before. A resumed run never forgets a probe, so a known day that is not
  covered was reopened, and the references above it say so;
* `JobsSettled`: a range a completed job refers to is `Settled`: covered, or one of the
  job's references within it waits for revalidation. A complete report excludes the
  latter (`Trusted`);
* `MemoryOK`: a worker's stack is a path down the tree of ranges (`Shape`), and the
  halves and roots beside and before that path that it has done (`Past`) are known,
  and settled as long as the worker still runs the job.

`Carries` is what a transaction leaves of all this: days stay known, a range that
stays complete keeps its days covered, and only one reference is made anew. Each
action is shown to carry the coverage and to add to the past only what it has just
completed.

Only model-checked: the liveness properties (fairness is beyond the prover).
`FreshOrdersKept` and `Audited` (after a kill), `QuarantineIsEarnedBack`, and `SettlesNextDay` under two
commands of one day, are refuted by the runs that expect a violation.

## Inventory of the system

| component | state | operations and interactions | hard parts | properties |
|---|---|---|---|---|
| QDII settlement account | six files per account store | initialize, execute, update NAV, generate; called by the CLI | kill between writes, replay, stale readers | modelled |
| A-share paper account | five files | the same, with batches, T+1, limits, partial fills | no journal, late batches, residuals | modelled |
| Daily cycle (`cli.py:1578-1599`) | none of its own | execute, value, clear, generate, restore on error | kill between clear and generate | modelled inside both accounts |
| Strategy release | overlays, `_history`, artifacts, archives | `apply-strategy-release` | no atomicity over entries, retries, daily cycles beside it | modelled |
| Overlay rollback (`agent_rollback.py`) | overlay, CSV row | `agent-rollback` | takes a market and ignores it; old orders stay queued | not yet |
| Run ledger (`run_ledger.py`) | `runs.csv` | a row at start, a row at the end | kill leaves "running"; append errors are swallowed | not yet |
| Backfill (`intelligence/backfill.py`, `store.py:1716-5110`) | SQLite: jobs, partitions, items, catalogue, verification rounds | claim, fetch, commit, split, verify; several workers | leases, generations, catalogue growth that reopens finished partitions | modelled |
| Model lifecycle (`research/activation.py`, `drift.py`, `model_iteration.py`) | registry, drift, cycles, challenger | train, admit, gate, quarantine, roll back | writes of several files, months of promotions and roll-backs, thresholds | modelled |
| Semantic runs (`store.py:5651-6955`, `intelligence/semantic/`) | SQLite: row statuses, runs, candidates, repairs; job directories | run, import, activate, roll back | no lock, kills between database and file, repairs that replace each other | modelled |
| Artifacts (`store.py:5116-5380, 6777`, `blob_store.py`, `artifact_*.py`) | blobs and rows | commit, exchange, prune | prune beside a writer | not yet |
| Research lineage (`research/lineage.py`, `formal_lineage.py`) | SQLite projections | insert decisions, fills, attribution | idempotence of re-projection | not yet |
| Notifications (`workflow_notifications.py`) | delivery ledger | send, then mark | kill between the two, two senders | not yet |
| Dashboard | none | reads everything | - | left out: no state of the system changes |
| systemd units, scripts | - | order and time of commands | - | only as fairness |
| Factors, models, backtests, reports, frontend | - | numerical or presentational | - | left out: no protocol state |

`PROJECT.json` lists the hazards of these parts line by line, with the properties
that would catch them.

Also left out of the modelled components: `initialize` on a used directory,
dry-run releases, the contents of gates and reports, corporate actions, and
what each module's section names. Of the parts that are not modelled, artifacts,
research lineage and notifications keep state of their own that never feeds back
into the accounts or the registry; the run ledger is a log whose errors are
swallowed on purpose; the rollback of an overlay is three sequential steps of an
operator, and what it leaves behind matters only to the next release.

## Plan

Modelled and proved about: both accounts, the release, the backfill, the semantic
batches and the registry. Every safety property that a passing run checks is a theorem.

What remains worth doing, in this order:

1. `StrategyRelease` over `SettlementAccount`, where a replay may bring archived orders
   back, and the overlay rollback before a second release of the same id.
2. `ModelRegistry` with reads and writes of the whole file apart, for two commands that
   overwrite each other's registry, and with a third version.
3. The delivery ledger of notifications; blobs and their prune.
