# LSSEFT in TLA+

LSSEFT computes effective-field-theory predictions for large-scale structure.
It is an MPI program: rank 0, the master, owns an SQLite store of results,
works out which results are missing, farms the calculations out to the other
ranks and stores what they send back. A job may be killed by the batch system
and started again; it must then compute what is missing and nothing else.

This directory models that machinery: the messages, the store, transactions, tokens,
what travels between master and workers, and how a job begins. The numbers
themselves (integrals over real variables) are not modelled; a value is what it
was computed from.

## 1. Inventory

Paths are relative to the source tree.

| component | state | operations | talks to |
|---|---|---|---|
| scheduler (`controller/scheduler.*`) | three flags per worker, three counters | `initialize_worker`, `make_assignment`, `mark_assigned`, `mark_unassigned`, `mark_inactive`, `is_ready`, `is_assignable`, `all_inactive` | called by `scatter()` |
| master (`controller/master_controller.*`) | work list iterators, scheduler, `sent_closedown`, work manager | `scatter`, `set_up_workers`, `close_down_workers`, `terminate_workers`, `store_payload`, `integrate_loop_growth` | workers by messages, store by `data_manager` |
| slave (`controller/slave_controller.*`) | the task it is in, the item it computes | `execute`, `process_task`, `process_item` | master by messages |
| process start-up (`main.cpp`, `controller/task_manager.*`) | rank | `work` | picks master or slave; no exception is caught |
| MPI layer (`MPI_detail/`, Boost.MPI) | messages under way | tags, payload classes | all ranks |
| work functions (`controller/work_functions/*`) | tokens, grids, cutoffs | `execute`: the order of the stages | master, `data_manager` |
| results store (`sqlite3_detail/{create,store,find,missing_elements,temporary_tables}.cpp`, `database/data_manager_impl/{work_lists,find}.cpp`) | result tables, work tables | `build_*_work_list`, `missing_*`, `drop_inconsistent_*`, `store`, `find` | SQLite |
| write preparation (`data_manager_impl/admin.cpp`, `sqlite3_detail/utilities.cpp`) | indexes, journal mode, foreign-key enforcement | `setup_write`, `finalize_write` | called by `scatter()` |
| transactions (`database/transaction_manager.*`, `data_manager_impl/transactions.cpp`) | one weak reference to the open transaction | open, commit, rollback, release | every database operation |
| database creation (`data_manager_impl/data_manager.cpp`, `sqlite3_detail/pipeline_id.cpp`) | tables, pipeline identity | constructor | once per job |
| tokens (`data_manager_impl/{tokenize,lookup_insert}.cpp`, `sqlite3_detail/{redshift.cpp,wavenumber.h,power_spectrum.h,*_params.cpp}`) | tables of models, redshifts, wavenumbers, cutoffs, parameter sets | look up within a tolerance, else insert | once per value |
| z, k, cutoff databases (`database/*_database.*`) | maps from token to value | `add_record`, `lookup` | in memory |
| argument cache, error handler, local environment | option flags | parsing, output | - |
| calculators (`cosmology/`) | none between items | one calculation | called by the slave |
| ranges (`cosmology/concepts/range_detail/`) | the grid of samples | `populate_grid`, sums of ranges | work functions |
| growth functions (`cosmology/oneloop_growth_integrator.*`, `cosmology/concepts/oneloop_growth.*`) | values of D and f beside the redshifts | `integrate`, `push_back`, iteration | master, `data_manager` |
| power spectra (`cosmology/concepts/power_spectrum_detail/`) | samples, spline, path and hash | `is_valid`, `set_rescaling` | filter, work functions |
| generated expressions (LSSEFT-analytic) | - | - | not in this repository |

What makes each correct:

- *scheduler*: its counters agree with its flags, and none of the asserts it is
  built on can fail. The asserts vanish in the recommended Release build, the
  counters are unsigned: a slip makes `scatter()` run for ever.
- *master and slave*: every item of a work list is computed and stored once; no
  process meets a message it has no case for; an item is decoded as the type it
  was encoded from; `scatter()` returns only when all is stored and all workers
  are at rest; nobody waits for somebody who waits for him; a job ends.
- *results store*: what a work list reads is there; what is stored is stored once;
  the tables filled by one stage agree, and when they do not, the rest is
  dropped and computed again; a completed job leaves nothing missing.
- *write preparation*: an index is never created twice and never left missing.
- *transactions*: at most one is open; a build that fails leaves no trace.
- *tokens*: whoever asks for the same value is given the same token, a token stands for one row, and a
  row that labels results is never lost; matching is not transitive, so a query may have to be refused.
- *database creation*: a file that is not complete is never taken for a database, nor one of another pipeline.
- *serialization*: what arrives is what was sent, in every member that anybody reads.
- *growth functions*: each redshift has one D and one f, of the same integration, and is handed its own.
- *containers of samples*: master and slave read the same value for a token.

What is hard: messages of several workers in any order; end-of-work sent to
workers that are still busy; item tags shared by two types; completion of a
send taken for its receipt; counters that only asserts guard; a job that dies
at any step with the store half filled and the indexes dropped; error paths
that forget the workers. `PROJECT.json` lists each at its line.

## 2. Modules

| module | what it models |
|---|---|
| `Scheduler` | the `scheduler` class: a value and its operations, each with the condition its asserts state |
| `Scatter` | one job: `execute()` as a row of stages, `scatter()`, the slave's loops, the message queues, and the death and restart of jobs |
| `WorkFarm` | abstract specification: what the farm promises about the store |
| `ScatterProperties` | the properties of `Scatter` |
| `ScatterInvariant` | the inductive invariant |
| `MCScatter` | small jobs for TLC |
| `ScatterProofs`, `ScatterTheorems` | the proofs |
| `ResultTables` | the results store table by table: what is missing, what is dropped, work lists, what they read, storing |
| `ResultProperties` | its properties, and how it implements `WorkFarm` |
| `ResultInvariant` | its inductive invariant |
| `MCResults` | small stores for TLC |
| `ResultTheorems` | the proofs |
| `Transactions` | one database operation after the other, each in its transaction: manager, handlers, weak reference, destructor, exceptions, SQLite's own state |
| `AtomicStore` | abstract specification: an operation happens in one step or not at all |
| `TransactionProperties` | the properties of `Transactions`, its inductive invariant |
| `MCTransactions` | three operations for TLC |
| `TransactionTheorems` | the proofs |
| `Products` | one job after the other, item by item: work record, payload, what is archived of it, calculation, product, what is archived of that, row |
| `ProductProperties`, `MCProducts` | its properties; small jobs for TLC |
| `ProductInvariant`, `ProductTheorems` | its inductive invariant; the proofs |
| `Tokens` | the tables of tokens: look-up within a tolerance, insertion, transactions, death |
| `TokenProperties`, `TokenTheorems` | what a token must be; the proofs |
| `Inputs` | a job up to its work: opening or creating the database, ranges, databases of samples, requests for tokens (extends `Tokens`) |
| `Growth` | the growth functions: missing, integrated, stored, read back, used to rescale (extends `Inputs`, whose requests it interleaves with) |
| `InputProperties`, `MCInputs` | properties of the composition; small jobs for TLC |
| `InputTheorems`, `GrowthTheorems` | the proofs: the file, the requests, tokens and their types; databases of samples and growth functions |

### Scatter and the code

The master's program counter `pc` names the places in `scatter()` where another
process can make a difference:

| pc | code |
|---|---|
| `start`, `between` | `execute()` before the database is opened; between two stages |
| `setup_wait`, `init` | `set_up_workers()`: `wait_all`, then the loop until `is_ready()` |
| `loop` | head of `while(!all_inactive())` |
| `close_wait` | `wait_all` of `close_down_workers()` |
| `assign`, `assigning`, `assign_wait` | the test and the `for` loop of the assignment, its `wait_all` |
| `probe` | the inner loop over `iprobe()` |
| `term_wait`, `exited` | `terminate_workers()`; `execute()` has returned |
| `down` | the job died |

A worker is `idle` in `execute()`, in a `task` in `process_task()`, `computing`
an item, or waiting for the `ack` of its send. Every channel between the
master and a worker is a sequence: MPI keeps the order of messages between two
ranks. Between ranks there is no order: any arrived message may be the one a
probe finds, and `NoMessage` may end the inner loop while one is on its way.
`Buffered` says which tags the library buffers; a send of any other completes
when its message is taken. A payload is the name of the item and whether
the sample was marked as failed.

The store is `rows`, a count per item, and `indexed`, per type of work item. A
store() and its transaction are one step; `Transactions` shows that they may be.
The work list is the items without a row.

An exception anywhere ends the job, since nothing between `scatter()` and
`main()` catches one: `StoreFailed` is the one the store throws on a failed
sample, `Crash` any other death. The next job starts with fresh processes and
the store as it was left. `MaxCrashes` bounds the deaths.

### ResultTables and the code

`rows[cell]` counts the rows of a table for a key; no result table has a
uniqueness constraint, so it may exceed one. A stage fills all tables of
`Tables(s)` with one key set `Wanted(g, s)` (the tensor products of the
redshift, wavenumber, cutoff and resummation databases). A job asks for a
`Grid`; the next one may ask for another.

| action | code |
|---|---|
| `StartJob` | `execute()` up to the first work list |
| `BuildList` | `build_*_work_list()` of the stage: `missing_*()`, `drop_inconsistent_*()`, the `find()`s of the inputs, `commit()` |
| `BuildFails` | the same when a `find()` throws: the transaction is rolled back and the job dies |
| `StoreItem` | `data_manager::store()` of one product, one row in each table |
| `EndStage` | the stage's list is stored (or was empty); without a power spectrum only the growth functions are computed |
| `ReadFiltered` | `build_wiggle_Pk()` |
| `Kill` | the job is killed, or dies farming out |
| `EditRow` | rows of a table deleted from outside |

`MissingFrom`, `TotalMissing`, `DropInconsistent` are the three steps of
`missing_elements.cpp`; `WorkItems` says which keys an item computes. `EditRow`
stands for whatever makes the tables of a stage disagree. No job does, since a
product is stored in one transaction, but `missing_elements.cpp:652` repairs
"those present in some tables but not others", and that code runs in every job.

The statements for kernels, spectra and multipoles are generated from
files that are not in the repository. They are modelled as the hand-written
ones of the growth functions: one query and one deletion per table.

*How the two specifications meet.* `Scatter` abstracts the store to one count per
item and takes the items without a row as the work list; `ResultTables`
abstracts the farm to items stored in any order. `Products` keeps the items and rows
with all their tokens, and drops the order of messages. The first two implement `WorkFarm`
(`ImplementsWorkFarm` of each): an item is stored once, after everything of the
earlier stages, and a job that dies loses nothing. `ResultTables` implements it
as long as all jobs ask for the same grid; findings `regrid` and
`filters` show what happens when they do not.

### Transactions and the code

| action | code |
|---|---|
| `OpenTransaction`, `BeginFails` | `open_transaction()`, with the manager's constructor and `BEGIN TRANSACTION` |
| `RunStatement`, `StatementFails` | one statement of a `store()`, a work list or a `tokenize()`; a `find()` that throws |
| `Commit`, `CommitFails`, `Release` | `commit()`: `COMMIT`, then `release_transaction()` |
| `Return` | the operation returns, the committed manager goes out of scope |
| `Abort`, `Unwind` | an exception nobody catches: the process ends at once, or the stack is unwound first |
| `Rollback`, `RollbackFails`, `ReleaseInDestructor` | the destructor of a manager that was not committed |
| `Kill`, `Restart` | the process dies; the next one opens the file, and SQLite discards what was not committed |

`current` is `data_manager`'s weak reference, `held` says whether a `shared_ptr`
to the manager exists, and `Lock` is `current_transaction.lock()`. The data is
only the number of statements an operation has in the file. SQLite is external:
what is modelled of it is `inTx`, that a statement outside a transaction
is committed at once, and that an error may end the transaction.

`AtomicStore` is what the other modules build on: `StoreProduct` of `Scatter` and
`BuildList` and `StoreItem` of `ResultTables` each stand for a whole transaction.

### Products and the code

A token is the id of a row of its table; the datum behind it bears the same
number, so that a value which is a record of what it was computed from can be
compared with the key it is stored under. Every class is the set of the members
that its `serialize()` archives (`new_filter_Pk`, `loop_integral`, ...); `Through`
is the journey: what is not archived becomes what the empty constructor makes, token
0 or default parameters (`Default`). `*_work_record`, `build_payload`,
`*_ready`, `store_*` bear the names of the code and are its constructors and bind
statements, member by member.

| action | code |
|---|---|
| `StartJob`, `EndStage`, `Kill` | as in `ResultTables` |
| `BuildList` | `build_*_work_list()`, with the throw of a `find()` that misses its row |
| `Send` | the assignment loop of `scatter()` with `build_payload()` |
| `FilterItem`, `XYItem`, `SpectrumItem`, `MultipoleItem`, `CountertermItem` | `process_item()` of that kind |
| `BeginLoopItem`, `Cuhre`, `FinishLoopItem` | the same for loop integrals: one call of the integrator a step, so that retries, failures and kills fall in between |
| `StoreProduct`, `StoreThrows` | `store()` |

### Tokens, Inputs, Growth and the code

Numbers are naturals, `One` is 1.0, a tolerance is given by its inverse. A query is
`Matches(t, stored, asked)`, in the direction of the SQL (relative to the stored value; a
division by zero is NULL and matches nothing). `tokens` is what the running process
sees, `committed` what the file holds; `held` and `given` record what was
answered, to state properties about.

| action | code |
|---|---|
| `attach`, `turn_away`, `create`, `create_table`, `write_pipeline_id` | the constructor of `data_manager` |
| `Ask`, `AskNothing`, `Fail` | one value of `tokenize()`, `build_*_db()` or `build_k_db()`: the query, the row, the record in the database; no value to ask for; a query that throws, or the assert of `add_record()` |
| `build_loop_growth_work_list`, `setup_growth_write`, `store`, `finalize_growth_write` | `integrate_loop_growth()` and what surrounds it; an index a step |
| `rescale_final_Pk` | the same: `find()`, the count of what it read, and the first and the last value |
| `Edit` | a row of D or f is lost |
| `Killed`, `Done` | the ends |

`execute(j)` is the sequence of requests of the Planck2015 work function. Ranges
become sequences (`stepping_range`, `aggregation_range`, `Tidied`), sequences become
databases (`add_record`), one value after another. `TokensByRequest` says that the composition
uses `Tokens` only through its actions, so that the theorems about
`TokenSpec` apply to it.

The container of growth functions is read through an iterator (`begin`, `end`,
`increments`, `decrement`, `dereference`) with a position among the redshifts, one among the
factors D, A to J and one among the rates f, fA to fJ; the factors move as one, and
so do the rates. `operator++` moves all positions, and a range-based for
(`oneloop_values`) ends when the redshifts do. `operator--` moves the redshift and the
factors back and leaves the rates (`oneloop_growth.h:221`). `rescale_final_Pk` uses it
to read the last value, so its rate lies past the end of a vector: what is read there
is undefined, and the model chooses it from the rates that are stored and `None`, which stands for
every other number. `found` is the container that was read, which later lists walk forwards;
`ends` are the two values that the rescaling reads. A job is taken to have a
redshift: without one, `begin()` itself could not be read.

`ResultTables` treats the growth functions as one of its stages, with sets; `Growth`
has the orders on which the matching of values to redshifts rests, and
the tokens.

## 3. Runs

| run | module | expects | properties | about |
|---|---|---|---|---|
| `safety` | `MCScatter` | pass | `TypeOK`, `SchedulerAssertsHold`, `NoUnexpectedMessage`, `ItemsDecodedAsSent`, `EachItemInOnePlace`, `IndexAbsentOnCreate`, `IInv`, `ScatterCompletes`, `ImplementsWorkFarm` | Two workers, two stages whose item messages share a tag, three items in the first stage, one job that may die at any point (or on a failed sample) and be started again: the protocol between master and workers is safe, its invariant is inductive on these states, and the store changes as WorkFarm promises. |
| `liveness` | `MCScatter` | pass | `NoCyclicWait`, `JobFinishes` | With payloads that the MPI library does not buffer (only empty messages are) the master and a worker never wait for each other; and with fair processes a job that is given a database and does not die finishes: every result is stored and every worker has exited. |
| `nodatabase` | `MCScatter` | violation | `EveryWorkerExits` | Without a database argument the master returns from execute() without terminate_workers(), and the workers wait for an EXIT instruction for ever. |
| `onegrid` | `MCResults` | pass | `TypeOK`, `DoneIsExact`, `NoMisread`, `ImplementsWorkFarm` | Jobs that all ask for the same two redshifts and two loop configurations and may be killed at any point: every stage finds what it needs, and the tables implement WorkFarm, with one row per result at the end. |
| `edits` | `MCResults` | pass | `NeverTwice`, `DoneIsComplete`, `OnlyDuplicatesMisread`, `DropsAreRecomputed` | Jobs that ask for different redshifts and resummation scales, with or without a power spectrum, killed at any point, while rows of single tables are deleted between them: what the tables disagree on is dropped and computed again and nothing else is, no result is stored twice by the stages that compute only what is missing, a job that ends left nothing missing, and a job fails to read only what finding regrid has doubled. |
| `regrid` | `MCResults` | violation | `OnlyMissingComputed` | After the redshift grid has grown, the one-loop work list computes, and stores again, the redshifts that are already there. |
| `filters` | `MCResults` | violation | `ReadAtItsOwnWavenumber` | After jobs with two sets of filter parameters the filtered power spectrum is read back at the wrong wavenumbers. |
| `commits` | `MCTransactions` | pass | `NextMayOpen`, `ThrownLeavesNoTrace`, `TInv`, `ImplementsAtomicStore` | Operations of one, two and three statements, any of which may fail, in processes that may be killed anywhere and started again: each operation is in the store with all its statements or not at all, and no transaction refuses the next. |
| `products` | `MCProducts` | pass | `TypeOK`, `RowsAreAsAsked`, `StoredOnce`, `NoMisread`, `DoneIsStored` | Jobs with and without a final power spectrum, whose items and products are packed and unpacked between master and workers, whose filters and integrals may fail, and which may be killed at any point: every row bears the tokens of the data it was computed from, is found by the stages that need it and by the next job, and is there once. |
| `unpacked` | `MCProducts` | violation | `RowsAreAsAsked` | In a database whose first power spectrum is another one, loop integrals are stored under that first one, whose token the empty constructor supplies. |
| `inputs` | `MCInputs` | pass | `TypeOK`, `UsableIsComplete`, `OnePipeline`, `SameTokenAgain`, `TokenStandsForValue`, `GivenIsCommitted`, `IndexSurvivesArchive`, `GrowthAsAsked`, `GrowthOnce`, `FoundInStep`, `NeverMisread`, `TokensByRequest` | Three jobs of four kinds (values within the tolerance of two others, zeros, overlapping and logarithmic ranges, a power spectrum whose file has changed, another pipeline), killed anywhere from the creation of the database to the rescaling of the final power spectrum, with one growth factor or rate deleted by hand: tokens keep their meaning, and growth factors their redshifts. |
| `normalization` | `MCInputs` | violation | `NormalisedAtEarliest` | After the redshift grid has grown, the two growth factors that a job divides by each other are normalised at different times. |

### Bounds

- *Workers*: two give every race between workers over the order of messages and
  over who gets the last item; the properties compare one worker with one
  other or with the master.
- *Items*: three in the first stage with two workers, so that one worker gets its
  second item while the other is still busy, and the last assignment leaves a
  free worker over. One in the second stage, where one worker gets nothing.
- *Stages*: two, because the hazards between stages (messages left over, shared
  tags) concern one stage and the next. They are the filter and the loop
  integrals, whose items share tag 21.
- *MaxCrashes* is 1: a second death adds nothing a first one, in any state and
  with any part of the store filled, does not. The initial store is already
  arbitrary.
- The proofs remove all of these bounds for the properties they cover.
- *ResultTables*: two tables stand for the kernels and two for the spectra (a
  disagreement needs two); two redshifts, so that an item with several results and a
  half-present grid exist; `onegrid` has two loop configurations, `edits` two
  resummation scales instead and four grids that overlap, contain one another and
  differ in whether a power spectrum is given. Jobs are not counted: any number
  may follow one another.
- *MaxEdits* is 2: one deletion makes two tables disagree, two make each of two lack
  what the other has, or two stages disagree at once. `edits` edits the tables of the stages
  that repair them; spectra are left out since their repair doubles rows
  (finding `regrid`), counterterms since they are not repaired (section 6).
- *Transactions*: three operations of one, two and three statements, so that a
  failure can come before, between and after the statements, and an operation
  follows one that committed, threw or was killed. Operations that threw are
  tried again by later jobs without a bound.
- *Products*: two wavenumbers and two redshifts, one of everything else, and a
  final power spectrum or none: an item of each kind, spectra that come two to an
  item, rows that share all but one token. The numbers of tokens of different kinds
  differ, so that an exchange shows. Four integrals stand for those of a kernel
  record, two of each number of retries. Jobs are not counted.
- *Inputs*, *Growth*: `One` is 100 and a tolerance a tenth, so that 1.00, 1.05 and 1.11
  match as neighbours and not end to end; 0 and 0.25 take the other branch of
  the look-up of redshifts; ranges are linear, logarithmic from either end, overlapping, with
  duplicates and with two zeros. *MaxJobs* is 3: one to create the database, one to be killed or to
  add to it, one to find it as it was left. *Statements* is 2, a first, a
  last and a death between; *MaxEdits* is 1, as losing a second row is losing a row of a
  later job. `normalization` needs two jobs only, the second with a redshift later than the
  first one's.

### Fairness

`FairSpec` assumes that a process that can go on does (`WF` of the master's step
and of every worker's: the code polls or blocks, and has no way to stop), and
that a message that has arrived is found by one of the probes still to come
(`SF` of `StoreProduct` and `ReceiveAck` per worker: `probe` comes round again
and again, and MPI guarantees progress). Nothing assumes that a dead job is
started again: `JobFinishes` lets the job stay down.
The other modules state no liveness: their jobs may be killed for ever.

## 4. Proofs

The theorems hold for any finite non-empty set of workers, any set of items, any
number of stages and kinds, any buffering and any number of deaths
(`WorkersAssumption`, `StagesAssumption`, `NoItemAssumption`,
`BoundsAssumption`, which TLC evaluates in the runs).

None of the safety properties is inductive. `SchedulerAssertsHold` says, for
instance, that an arriving product finds its worker assigned; to keep that true
one must know that there is no other message before it, that the worker
is not computing a second item, and that the item came from this
`scatter()`. `IInv` therefore lists, for every position of the master, the
few combinations of a worker's position and its two channels that can occur:
`Resting`, `Called`, `Reported`, `Holds` an item (on its way, in work, or on its
way back, with or without end-of-work behind it), `Free`, `Leaving`. With
them go the counters (`SchedulerConsistent`), the whereabouts of every
item of the list (`LoopItems`) and the indexes (`IndexInv`). TLC checks `IInv`
in the run `safety`.

- `ScatterProofs`: each operation of the scheduler keeps `CountersMatchFlags` when its
  condition holds (cardinalities of sets with one element more or less); lemmas on
  tags and channels, and the steps of the master.
- `ScatterTheorems`: the steps of the workers and of dying jobs, then
  `Invariant` (`Spec => []IInv`), the properties that follow from it, and
  `Refinement` (`Spec => ImplementsWorkFarm`): storing a product is `Store`, the
  end of a scatter or an empty list is `NextStage`, the death of a job is
  `StartAgain`, all else stutters.
- `PlacesCorrect`: `EachItemInOnePlace`. `IInv` says who holds an item; that nobody
  else has anything of it needs `IdleHands` as well: a worker that is not
  computing holds no item.
- `WaitsCorrect`: `NoCyclicWait`, provided the library buffers the end-of-work
  messages or the products. Without either there is a cycle: the master in
  `close_wait` for the end-of-work it sent behind an item, the worker for the
  receipt of that item's product. MPI libraries buffer short messages, and end-of-work
  is empty, but the standard does not promise it.

For the results store (`GridsAssumption`, `TablesAssumption`, `SamplesAssumption`,
`EditsAssumption`; any redshifts, configurations, tables of kernels and spectra,
grids, and any tables edited). There are five invariants, each the one before with more,
each under the hypotheses that the one before has with more:

| invariant | holds if | theorems |
|---|---|---|
| `UniqueInv` | always | `ResultTypes`, `StoredOnce` (`NeverTwice`), `DropsRecomputed` (needs no invariant but the type) |
| `RInv` | nobody edits the counterterms (`NoCountertermEdits`) | `JobsComplete` (`DoneIsComplete`) |
| `AgreeInv` | nor the one-loop spectra (`NoSpectraEdits`) | `OnlySpectraMisread` (`OnlyDuplicatesMisread`) |
| `OnceInv` | and all jobs ask for the same redshifts (`SameRedshifts`) | `JobsExact` (`DoneIsExact`), `NoResultMisread` (`NoMisread`) |
| `FarmInv` | all jobs ask for the same (`OneGrid`), nobody edits (`NoEdits`), and there are tables of kernels and spectra (`TablesThere`) | `ResultsRefine` (`ImplementsWorkFarm`) |

- That a store adds a row only where there is none needs `ListInv`: what is on the list
  is in no table of the stage, also not in those where it was (`DropInconsistent` has
  removed it), and no two items share a key, so storing one leaves this true of the others.
- `CoverInv` follows a stage: what its list does not cover is present, so when the list
  is empty the stage is complete, and later stages drop nothing of it
  (`TablesAssumption`). The counterterms need `CountertermsAgree`: since only
  c0 is asked, completeness rests on the four tables holding the same, which
  nothing in the code checks.
- That every `find()` reads one row rests on the same for the spectra (`SpectraAgree`): an
  item computes all redshifts of its configuration, so that one spectrum lost
  would be computed again with all the others, which are then stored twice (as in finding `regrid`).
  `LoopsWhole` says that a configuration was computed for all its redshifts equally often,
  which is true only while the grid of redshifts stays.
- For the refinement, `ItemsWhole`: all results of an item, in all tables, are there or
  none is. So a list drops nothing, its items are items of an empty store
  (`ListedItems`), and storing one is `Store`. The hypotheses are those of the run
  `onegrid`: an edit is a lost row, and a job with another grid has other items.

The hypotheses are not for the sake of the proofs: `regrid` refutes what
`OnceInv` says when the redshifts grow, and an edit of c6 makes `DoneIsComplete` false
(section 6). `OnlyMissingComputed` is refuted.

For the transactions (`StatementsAssumption`; any operations): `TInv` gives, for
every position, the manager's flags, both references and SQLite's state.
Neither `NextMayOpen` nor atomicity is inductive: that a commit publishes all
statements needs that SQLite has been in the transaction since `BEGIN`, and that a
begin is never refused needs that every way out of an operation has cleared the
reference or ended the process. `Invariant`, `NeverRefused`, `NoTrace` and
`Refinement` prove all that the run `commits` checks.

For the tokens (no assumption at all is used of what matches what): `TokenInv` says that the
rows of a table are numbered without gaps, as `insert` counts them, which is
what keeps a number from being given twice, also after a process took its rows with it; that what is
committed is part of what is seen; and that every token given or held is answered by a
row. That the same value gets the same token is not inductive without the latter:
the row that answered must still be there and still match, and then a query either finds it
alone or is refused. A stored zero never matches itself by a relative error, and is excepted (`Findable`).

For opening (`PipelineAssumption`, `BoundsAssumption`): `FileInv` says that an
identity is there only with all tables, that the running job's is the one in the file, and that every
row was computed by it.

The same three hold of the jobs of `Inputs` and `Growth` (`JobsTokensAgree`, `JobsTokensStand`,
`JobsTokensPersist`): every step is a step of `Tokens` or leaves the tables alone, and what is
asked belongs to the table it is asked of. The latter needs the shape of a job: `Progress`
says that what is left to do is the end of `execute(job)`, and `ExecuteShape` what its requests are. `JobsImplementTokens` is the
refinement itself: each look-up is one `tokenize`, the end of a process `Forget`, and all else stutters.

For the requests (`SamplesAssumption`, `LabelsAssumption`: the ranges of a job give sequences
of samples, its parameters are among `Blocks`), `InputTypes`; for the databases of samples:

- `IndexesRebuilt`: `IndexSurvivesArchive`, if each list is asked for in ascending order
  (`TidyRequests`). This is what `range_tol` and the sort of `aggregation_range` are for;
  the proof does not go into them, since they are folds over data. Two samples may have one
  token, and the index leads to the first: it is the least, in the order in which
  a rebuilt index meets them.
- The ranges are sorted by rank: the n-th record is the one that n - 1 others precede
  (`AscendingRecords`, from the bijection between records and ranks). This takes the place of an induction.

For the growth functions `GrowthInv` follows a job through its stage. `GrowthLabels`
(`GrowthAsAsked`): a row's redshift and parameters are those of its tokens, which rests on the
tokens standing. `GrowthUnique` (`GrowthOnce`): what the work list contains is in
neither table, since what one of them lacks is dropped from the other.
`FoundInOrder` (`FoundInStep`): rows inserted in descending order of redshift come back
in the order of their redshifts; that a descending sequence of n numbers up to n
leaves none out (`Descending`) says that none is passed over. A walk forwards is in step
(`WalkedForwards`), and a step back from the end leads to the factor of the lowest redshift
(`ReadEnds`, `EndRecords`). Nothing is claimed, nor true, of the rate beside it (section 6).
`NothingMisread` (`NeverMisread`). `Labelled`
allows for parameters numbered zero, which no query ever finds again: a row labelled with them
has the parameters themselves behind its token.

For the products (`JobsAssumption`, `NoneAssumption`: a null pointer is no power spectrum) the invariant gives
everything between master and workers its *fate*, the rows it will be stored as if no
integral and no filter fails: a record on the list, a payload on its way, a kernel on the desk,
a product on its way back. A step of a worker moves a thing from one place
to the next and leaves its fate alone (the lemmas `...Passes`), a store replaces the thing by
its fate, and only a list makes new ones. So the properties are about the list and the store alone:

| invariant | holds if | theorems |
|---|---|---|
| `AskedInv`: fates are rows that are asked for (`FatesAsked`) | the power spectrum and the loop parameters have token 0 (`FirstTokens`) | `RowsFaithful` (`RowsAreAsAsked`) |
| `StoredInv`: besides, what is missing is on its way (`CoverInv`) | and all jobs have one model (`SameModel`) | `DoneStored` (`DoneIsStored`) |
| `OnceInv`: no two fates share a cell (`FatesApart`), none has a row (`FatesOpen`), products are stored whole (`WholeInv`) | `FirstTokens`, and all jobs ask for the same redshifts (`SameRedshifts`) | `StoredApart` (`StoredOnce`), `AlwaysFound` (`NoMisread`) |

`FirstTokens` is exactly what finding `unpacked` violates: two members of a kernel are not
archived, and arrive as token 0. `SameModel` is needed because the table of filtered power
spectra has no column for the model: a job with another model is told that
its filtered power spectrum is there. `SameRedshifts` excludes finding `regrid`. `ProductTypes` needs none of them.

Only model-checked: liveness (`JobFinishes`), which is beyond the prover. The folds of
`aggregation_range` and the recursion of the sort are evaluated by TLC only; the
theorems assume no more of them than `SamplesAssumption` (that they yield samples) and, in `IndexesRebuilt`, `TidyRequests`.

## 5. Findings

- `EveryWorkerExits` (src/controller/work_functions/Planck2015_controller.cpp:37, run `nodatabase`): When no database was named the master's execute() returns without terminate_workers() (line 224, "instruct slave processes to terminate"), so no worker ever gets a message; src/controller/slave_controller.cpp:56 says "wait until we receive an EXIT instruction from master". The run shows every worker waiting in probe() for ever: the master prints ERROR_NO_DATABASE and returns, and then the job hangs instead of ending.
- `OnlyMissingComputed` (src/database/data_manager_impl/work_lists.cpp:256, run `regrid`): build_one_loop_Pk_work_list() gives every item find<oneloop_growth>(..., z_db), the growth functions of the whole grid, and oneloop_Pk_calculator.cpp:48 computes a spectrum for each of them. The comment at src/database/data_manager_impl/work_lists.cpp:252 says "schedule a task to compute any missing redshifts", and the multipole list (line 322) reads *missing_zs only. After the grid has grown, the spectra that were present are stored a second time; find() accepts exactly one row (find.cpp:215), so every later list that needs them throws.
- `ReadAtItsOwnWavenumber` (src/sqlite3_detail/find.h:88, run `filters`): The filtered power spectrum is selected by Pk_id alone, although its rows are stored, and looked for when missing, per filter parameters, and the n-th row is attached to the n-th wavenumber. The comment at src/sqlite3_detail/find.h:82 says "set up temporary table of desired k identifiers" and line 76 "extract filtered linear power spectrum (of given type Payload) for a given set of k-modes". With rows of two parameter sets the second row read is again the first wavenumber's.
- `RowsAreAsAsked` (src/cosmology/concepts/loop_integral.h:225, run `unpacked`): new_loop_momentum_integration::serialize (src/MPI_detail/mpi_operations.h:502) leaves out params and params_tok, and loop_integral::serialize (src/cosmology/concepts/loop_integral.h:225) leaves out params and Pk_lin; the empty constructors (src/cosmology/concepts/loop_integral.cpp:41) supply token 0 and default parameters. src/cosmology/concepts/loop_integral.h:165 says "empty constructor, used for constructing an empty container to be overwritten by an MPI payload": these members are not. The first power spectrum and the first loop parameters of a database do have token 0, and the controllers use default parameters; but with a second power spectrum the kernels are stored as results of the first. The one-loop stage then does not find them and the job ends (LOOP_MOMENTUM_MISREAD); every later job computes and stores them again.
- `NormalisedAtEarliest` (src/database/data_manager_impl/work_lists.cpp:158, run `normalization`): build_loop_growth_work_list() returns the missing redshifts only, and the integrator starts at the earliest of those with D=1 (src/cosmology/oneloop_growth_integrator.cpp:184). README.md:175 says "The earliest redshift is taken as the starting point, and the linear growth factor `D(z)` is normalized to unity at that time." After the grid has grown, or a row was lost, the new growth factors are normalised at the earliest of the new redshifts, and are stored, read back and divided by each other (rescale_final_Pk, src/database/data_manager.h:660) together with those normalised at the earliest of all. The run's second job adds a redshift later than the others: its D is 1 there, and the rescaling factor comes out as one.

## 6. Not modelled, and observations

Not modelled:

- Numerics, units, formatting, progress messages, argument parsing; the archive format of Boost.
- Transfer functions: no work function builds their work list.
- The code generated by LSSEFT-analytic, which is not in the repository.
- Journal mode and enforcement of foreign keys, which are SQLite's; a store() that
  meets a missing parent row cannot occur here (`GivenIsCommitted`).

Noticed while modelling, without a run:

- The prefix `operator--` of the growth functions' iterator steps back the positions of the redshift and of
  D_lin, A to J, and none of f_lin, fA to fJ (`cosmology/concepts/oneloop_growth.h:221`), although "all iterators should be
  in step, so need only compare one of them" (line 180, and likewise line 173). `rescale_final_Pk()` reads `*(--data->end())`
  (`database/data_manager.h:656`), and with it these eight rates from one past the end of their
  vectors, which is undefined. `Growth` has the step as the code does it, with any rate; that the last value is in step is false of it, and
  `FoundInStep` does not say so. It says that the two factors D, of which alone the rescaling is made
  (line 658), are those of the two ends all the same. Every other reader walks forwards.
- The counterterms missing from c2, c4 or c6 alone are not noticed: the c0 table is
  queried on behalf of c2 and c4, and c6 never (`sqlite3_detail/missing_elements.cpp:970`).
- `wait_all()` on `isend()`s returns when messages are buffered, not when they are "received", as
  the comments say (`controller/master_controller.cpp:175`); `NoUnexpectedMessage` and
  `ScatterCompletes` hold nevertheless.
- If the stack were unwound past an open transaction, the destructor's `rollback()` would throw out of a
  destructor (`database/transaction_manager.cpp:49`): the last reference is gone when it asks for it.
  The database is safe (`ThrownLeavesNoTrace`).
- A job that dies while it creates the database leaves a file that every later job
  turns away (`turn_away`): it must be removed by hand.
- Two values of a grid closer than the look-up tolerance share a token. The first is kept
  in the index by token; the one-loop stage computes a spectrum per value and stores two
  rows with one key. `range_tol` removes duplicates only if they are closer.
- Two zeros in a range are not recognized as duplicates (0/0), and the assert in
  `z_database::add_record()` fails (`Fail`); without asserts the second is dropped.
- A wavenumber or cutoff of zero is never found again and gets a new token in each job.
- The counterterms' work list does not drop its temporary table of redshifts
  (`data_manager_impl/work_lists.cpp:464`), and the c6 table has no index (`data_manager_impl/admin.cpp:84`).
- `oneloop_growth` copies the redshift database, whose index by token then points
  into the original; only iteration is used (`cosmology/concepts/oneloop_growth.cpp:32`).
- calculate_Matsubara_XY() does not look at the integrator's failure flag.

## 7. Plan

1. Lemmas that free `IndexesRebuilt` of `TidyRequests`, as far as sorting can be reasoned
   about without induction: the order and the distances of what `aggregation_range` returns.
2. A joint refinement: `Products` implements `WorkFarm` for jobs that ask for the same, item by item, by
   the same map as `ResultTables`.
3. The repair of rows deleted by hand in `Products`, as in `ResultTables`.
