# Formal models of secops-ingest

TLA+ models of the secops-ingest pipeline: how records get from a security vendor into the
warehouse and from there into the reporting tables, and what is promised on the way. The
models are written from the code under `src/secops_ingest/`; TLC checks them on small
instances and TLAPS proves the central properties for every instance. Paths below are relative
to that directory unless they start with `tests/` or name the repository's README.

## The system

A deployment runs one systemd unit per source and per transform target, each started by a
timer, each a fresh process with a database session of its own. They meet only in PostgreSQL.

    vendor API --fetch()--> ingest run --upsert--> raw table --chunks--> transform run --> facts, rollups
                              |   ^                                        |   ^
                              v   |                                        v   |
                     control.ingest_run, _watermark              control.transform_run, _watermark,
                                                                 _coverage; advisory lock
          packs enable / disable / drop: control.pack, DDL, bookkeeping
          hold-outs: control.source_state

| Component | State it keeps | Operations | What makes it hard | What makes it correct |
|---|---|---|---|---|
| ingest run (`common/run.py`, `context.py`, `watermark.py`) | watermark, ledger row; in memory: batch, highest mark, stop and partial flags | reap, start, read cursor, consume, land, advance, finish, fail | vendor changes records under the scan; stops, rejects, errors and kills at any point; the watermark commits apart from the rows | nothing below the watermark is missing; the watermark never moves back; a clean SUCCESS is a whole read |
| warehouse access (`common/db.py`) | raw rows and their `_ingested_at` | upsert, ledger and watermark writes, each its own commit | `now()` is the start of the transaction | changed rows look new to the transforms |
| transform runner (`transform/runner.py`, `base.py`, `locks.py`) | watermark, coverage, ledger row, advisory lock | mark, hold, chunk, rebuild rollups, record coverage, advance, stop | raw changes between the statements of a chunk; chunk and watermark commit separately; cancelled statements; ingest runs still landing | no raw row is passed over; rollups agree with facts; coverage is proof; no complete snapshot is lost; a backlog is worked off |
| transform targets (`transform/targets.py`) | none | the SQL of each target | which columns count as content | what the runner assumes of them: chunkable, full refresh, complete runs only |
| modification-ordered connectors (`sources/xdr.py`, `xsoar.py`, `_cortex.py`) | none across runs; in memory: pin, offset, total | page, compare totals, report partial | records leave the window while it is paged; clocks; truncated times | no row is stepped over below the watermark |
| full-scan connector (`sources/defectdojo.py`) | in memory: offset, page size, cap | page, shrink, grow, filter, cap | findings created, changed, deleted under the scan; pages that time out | the same, for a scan that is not in mark order |
| lagged connectors (`sources/xdr_alerts.py`, `wazuh.py`) | in memory: window, offset or search key | page a trailing window | late visibility; a window too full for one run | every record is read once it is visible; the source does not stand still |
| snapshot connectors (`sources/xdr_endpoints.py`, `ksat.py`, `ksat_phishing_runs.py`, `_ksat.py`) | none | page the whole estate | short, repeated or half-failed pages | a run that did not see everything says so |
| shared connector code (`common/http.py`) | attempts, backoff | retry, back off, stop | stop and deadline between attempts | the budget is kept, the stop is seen |
| pack lifecycle (`packs/__main__.py`, `state.py`) | `control.pack`, source mirror, DDL | enable, disable, drop, mirror, list | runs in flight; several commits per command; their order | a dropped pack leaves nothing that a later enable trips over |
| pack registry (`packs/registry.py`, `model.py`, `version.py`) | none; what is installed on the host | load, judge, collect, resolve | distributions that are broken, refused or collide, in any order | what a pack runs does not depend on its neighbours; one owner per source and target |
| hold-outs (`holdout.py`) | `control.source_state` | hold, release, sync | several deployers | a source is released only by its owner |
| schema (`schema/`, `common/schema_check.py`) | partitions, privileges and tables in the warehouse | print DDL, move the partition window, check it, grant and revoke, verify | applied beside running workers, on what older releases left; a window that lapses; applications cut off | a month has one home and the next one is ready; privileges end as configured and no worker loses what it needs on the way |
| secrets, CLI, observability, redaction, unit files | none that the pipeline depends on | - | - | - |

`PROJECT.json` lists every component with its state of modelling, and under "hazards" what can
go wrong in each at the line where it bites.

## Modules

| Module | Models | Composed with | Runs | Theorems in |
|---|---|---|---|---|
| `SourceFeed` | abstract: what any incremental source promises of its watermark | implemented by `IngestRun`, the three connectors with a watermark, and `Transform` | as a property of theirs | itself |
| `IngestRun` | one source and its worker, with the vendor changing records | `fetch()` as a contract; implements `SourceFeed` | `ingest_scan` | `IngestRunProofs` |
| `Transform` | one raw table, its ingest writers and the runs of one target | landing transactions; implements `SourceFeed` | `transform_chunked`, `transform_coverage` | `TransformProofs` |
| `SnapshotHold` | a snapshot source and the target that copies only complete runs | ingest ledger | `hold` | `SnapshotHoldProofs` |
| `PackLifecycle` | enable, disable, drop beside ingest and transform runs | both kinds of run | `pack_serial`, `pack_in_flight` | `PackLifecycleProofs` |
| `CortexScan` | `fetch()` of the modification-ordered connectors | the watermark of a run; implements `SourceFeed` | `cortex` | `ConnectorProofs` |
| `DojoScan` | `fetch()` and the page policy of the DefectDojo connector | the watermark of a run; implements `SourceFeed` | `dojo` | `ConnectorProofs` |
| `LagScan` | `fetch()` of the connectors with a trailing window | the watermark of a run; implements `SourceFeed` | `lag` | `ConnectorProofs` |
| `PageWalk` | `fetch()` of the sources that are read whole every time: KSAT and endpoints | the note of a run | `walk` | `ConnectorProofs` |
| `Retries` | one page request: attempts, backoff, stop checks | `RunClock` | none | `IngestRunProofs` |
| `HoldOut` | deployments that record which sources they hold out | converges of several hosts | `holdout` | `SchemaProofs` |
| `RunClock` | deadline, cap and age of reaping as functions of the settings | `Retries` | none | `IngestRunProofs` |
| `Registry` | pack discovery, target ownership, bare source names | an operator changing what is installed | `registry` | `RegistryProofs` |
| `Partitions` | the monthly partitions of one table: window, timer, check, health, expiry | landing | none | `SchemaProofs` |
| `Grants` | the privileges in the warehouse while the generated file is applied | a file cut off, tables created later | none | `SchemaProofs` |

A proof module extends one specification. Where it also holds the proofs of others, because
they share lemmas or a subject, those are instantiated under a name (`Dojo == INSTANCE
DojoScan`) with constants and variables of the module's own, so that the `TypeOK` of one is
not that of another; their assumptions are then hypotheses of the theorems. That is the case
of `DojoScan`, `CortexScan` and `LagScan` in `ConnectorProofs` (which extends `PageWalk`), of
`Grants` and `Partitions` in `SchemaProofs` (`HoldOut`), and of `RunClock` with `Retries` in
`IngestRunProofs`.

`MC*.tla` extend these for TLC and hold nothing but the constants of the instances. A
definition under a comment that begins "Mutation" is not part of a specification: it is a form
the definition below it would take if the code had a certain bug, and is used to see that a
property notices.

The modules split the pipeline where the code does. `IngestRun` takes `fetch()` as a contract
(what it may yield, in which order, what it leaves out), and `CortexScan`, `DojoScan`,
`LagScan` and `PageWalk` are the connectors that have to keep it. The first three and
`IngestRun` implement one abstract specification, `SourceFeed` (`KeepsPromise`: their
behaviours, seen through a refinement mapping, are its behaviours); `PageWalk` has no
watermark, and `CleanRunIsComplete` says of its walks what it says of the run in `IngestRun`.
A target implements `SourceFeed` too, with the raw table in the place of the vendor (shown in
`TransformProofs` only), so that the two halves of the pipeline compose: `EndToEnd`.
`Transform` takes ingest as transactions with a stamp and a commit; `SnapshotHold` adds the
ledger of the ingest runs, which only targets with `complete_runs_only` look at;
`PackLifecycle` reduces both kinds of run to what they commit. `HoldOut` and `Registry` stand
beside the pipeline: they decide what is shown as running and what a process can run at all.
`Partitions` and `Grants` are the two parts of the generated schema that have state: the
window in which rows land, and who may land them. They are small enough to be proved outright
and have no run of TLC.

### SourceFeed

A record has a content at the vendor (`content`), one in the raw table (`landed`) and perhaps
one that was given up as malformed (`given`). It is `due` while the next run would ask for it.
A step of a source may land rows and move its watermark, and the one condition is that what is
no longer due is settled: landed, or given up, as it is at the vendor. Rows never go back to
older content and a watermark is never taken back. What lies before the horizon of a first run
is in `past`. Each implementation reads "due" its own way: marks not below the watermark
(`IngestRun`, ordered), the truncated window (`CortexScan`), strictly newer marks
(`DojoScan`), the watermark less the lag (`LagScan`), stamps above the watermark
(`Transform`). A step of paging, or of a chunk before it commits, is a stutter.

### IngestRun

`pc` follows `execute()` and `_execute()`: `idle` - `Reap` - `ready` - `StartRun` - `open` -
`ReadCursor` - `scan` (`Fetch`, `Take`, `Reject`) - `flush` (`LandRest`) - `mark` (`SetMark`)
- `finish` (`Finish`). Every arrow is at most one commit, so `Crash` and `Fail` fall between
any two of them. A record carries a mark (`vmark`) and a version (`ver`), both of the vendor;
`raw` is the version that landed. `at` is where in the run a record is: with the vendor, in a
page, in the batch, landed or rejected, so a page is old by the time it lands. The two shapes
of source are the constant `Ordered`:

- ordered (XDR, XSOAR): window [cursor, pin], yielded in mark order; a run that is stopped may
  persist its highest mark. A scan by offset also ends, without a note, when records that
  departed from the window leave its next page empty (`ScanEnd`: no more is unread than
  departed), so that a clean row vouches for its window except for what was put off
  (`PutOff`);
- full scan (DefectDojo): everything with a mark above the cursor, in any order; a stopped or
  partial run keeps the cursor, a whole one persists its highest mark under the cap.

The refusals in front of a run (disabled pack, ambiguous source, schema drift) change nothing
and are stuttering steps. Rejected records are remembered with the version that was rejected,
because the code's promise is about that version: the row is counted, noted and given up.
`ReapsAged` is whether the settings name an age at all: with neither a cap nor a deadline
`_reap_after` returns None (`common/run.py:155-156`) and nothing is reaped.

What the contract takes for granted of the vendor is shown, or found missing, where the pages
are: an ordered scan that is given no totals or runs on a host that leads (`CortexScan`), a
deletion under a full scan (`DojoScan`).

### Transform

A stamp is `_ingested_at`: the start of the landing transaction, which is why `BeginLanding`
takes it and `CommitLanding` makes it visible. Stamps double as content, since the upsert
restamps a row only when its payload differs. A run is `Start`, `ReadMark`, then per chunk
`BeginChunk` (the bound), `Upsert`, `AffectedDays`, `CommitChunk`, `Advance`: the statements
of a chunk read the raw table separately, as READ COMMITTED has it, and the chunk's own fact
rows are in `slice` until it commits. The watermark has a commit of its own. SIGTERM either
cancels the statement in flight or is seen between chunks.

### SnapshotHold

A stamp stands for the rows of one landing commit, and `owner` for their `_ingest_run_id`.
`Hold` is `_hold_for_running_ingest`: the mark moves below the first row of a run that is
RUNNING and not older than the reap age. `NOTED` is SUCCESS with an `error_summary`. Stamps
are dense here (`mark - 1` for the microsecond below), and a chunk may end anywhere, so the
chunk size does not matter to what is shown.

### PackLifecycle

Each command is a process whose statements commit one by one (`cpc`); it may be killed between
them. The tables come from `enable` itself or from a generated schema file that a deployment
tool applies (`ApplySchema`); in the second case the operator records the state alone
(`EnableStateOnly`, `enable --state-only`), over whatever tables there are. `SchemaFirst` is
the operator's discipline to apply the file first, which nothing in the command checks.
Records are 1 .. `vend` in mark order and each is a coverage period of its own: coverage of a
month that is only half transformed is the subject of `Transform`, not of this module.
`Expire` is the raw expiry that runs outside this package and trusts
`control.transform_coverage`.

### CortexScan

The window is `[since, pin]` over modification times, a page is `PageSize` ranks of it from
`frm`, and `WindowShrank` compares the totals of two pages. Where a reply has no total
(`Silent`), nothing is compared with the page before nor with the one after, as
`window_shrank` makes no claim then. A run that is stopped persists its highest mark, one that
fails leaves the watermark (`Stop`). XSOAR truncates both bounds to the
second (`Grain`) while its records carry full stamps; XDR does not (`Grain` = 1). `Close`
writes the highest mark of the run whatever it was: inside one truncated second it may be
lower than the one before, which costs a re-read and loses nothing, since the promise is about
what lies below the watermark in force.

### DojoScan

Pages run over ids in descending order, so a creation shifts rows to later offsets (read
twice) and a deletion to earlier ones (stepped over). A page that times out is asked for again
smaller at the same offset, and grows back after `growAfter` clean pages, a number that
doubles with every timeout; the count of clean pages is kept at zero at full size, where the
code does not use it. `GiveUp` is every end that is not the last page: the source is not
ordered, so none of them moves the watermark.

### RunClock

Operators only: what `resolve_deadline`, `_reap_after` and `_Budget` compute from the two
settings of a unit. The other modules take their conclusions for granted: a run that is
stopped by its deadline has time to write its outcome, and a row that is reaped is a dead
process's (`Age` of `IngestRun` and `GrowOld` of `SnapshotHold` only age those). The theorems
say for every setting what a run of TLC would sample, so there is none.

### Retries

One connector inside `with_retries`: `Ask`, a call that is `Answered` or `Failed`, a backoff
of slices (`Sleep`), `Again`, and `NextPage` when the records of the page have been taken. A
stop may be asked for at any moment of a call or a slice (`Pass`); `Heed` is
`raise_if_stopping()`. `Delays` is `_delay()`: the server's Retry-After if it is a sane
number, else the doubled base with jitter, both capped. `late` measures how long a stop has
waited, `spent` how long a request has taken. `CallMax` is an assumption about the HTTP
client, whose timeout is per read and not per call.

### LagScan

Alerts never change, but one is detected (`det`) and becomes queryable (`visible`) up to
`Delay` later; the clock may not outrun either bound (`MayPass`). Every run reads `[wm - Lag,
...)` in order of detection, by offset (XDR) or by the sort key of the last hit (Wazuh:
`keyset`, which of the two an instance is). A run takes up to `RunTime`, and its deadline can
stop it after `MinPages` pages; the source yields in watermark order, so it then persists the
highest mark it was given, which may lie below the cursor. An answer that is cut short sets
the ceiling under which the watermark has to stay. `FarBelow` compares the rows of a page with
the highest mark of the pages before, the code with the highest mark so far: as a page ascends
in order of detection, no row is below one that it follows, and the two agree. `base` is the
horizon of the first run, the only one that leaves anything out on purpose.

### PageWalk

A collection is a sequence in the server's order. `kind` is the source: enrollments walk the
campaigns first and then the enrollments of each (`Nested`), phishing runs are a single walk,
and for both `paginate()` asks for page after page by number and compares what it collected
with the total the server gave. Endpoints are read by offset in the order of their ids
(`Ordered`, where `page` stands for `search_from`), until a page is empty or short; no total
is compared and no page count is capped. `mode` is what a KSAT server does during a run: it
reports totals, is silent about pagination, or serves its first page for ever (`PageWalkCap`).
These sources have no cursor: the promise is that a run without a note has seen all that was
there throughout (`stay`), and that a change is seen in the end because everything is read
again. A campaign that a page repeats is walked once here and as often as it was served in the
code, which reads the same enrollments again; the status filters of the enrollments source are
unset, as by default. A server that serves its first page of endpoints for ever is left out:
that walk has no cap, and only the deadline ends it.

### HoldOut

`holder` is the login in a row of `control.source_state`. `sync()` is `Begin`, `HoldNext` per
listed source, `MyHoldOuts`, `ReleaseNext` per source no longer listed, each with a commit of
its own, so that converges of several deployers interleave and one that is cut off leaves what
it did. A hold-out may be taken over by another login; the release of a source that was taken
over is refused and ends the command. `Managed` is the list of `--managed`, which keeps
deployers of one login apart. The hold and release commands know no such scope: `ByHand` takes
any source, with the login of some deployment (one that manages nothing is an operator's). A
source that is held by a login none of whose deployments manages it is `Stranded`: no converge
releases it. `asked` is the list a sync was called with and `want` the one
the operator keeps.

### Registry

A process loads the entry points in any order (`Load`), judges the packs by name once all are
loaded (`Judge`), and for targets collects what each declares (`Collect`, in any order): the
set `left` is what the loops have not reached. Between two processes an operator installs,
changes or removes a distribution or upgrades the core. `known` and `runs` are what the last
process found and would run, `was` what it found installed. Version ranges are modelled by
what comparing padded tuples does; `FoundIsExact` compares them with an order on numbers.
`Misspelled` is the one error that `main()` does not catch.

### Partitions

Months are integers and a month stands for all of its rows. `MoveWindow` is the DO block,
applied by a deploy, by `pack enable` (`Apply`) and by the timer (`Timer`), whose last
statement passes only if it finds next month (`Reaches`). A month with rows in DEFAULT
(`strays`) is skipped by the block. `Expire` (raw expiry) and `MoveByHand` (the remedy the
warning names) are outside the package. `reach` is the furthest month any application was to
create. The window's width is an argument of every application, since it is one of the
command.

### Grants

`acl` is what each role may do on each key; a key is a table, a schema, or the tables a
creator will make later in a schema. `Apply` puts the statements of `grants_sql` for a
configuration into `todo`, `Execute` runs one, in any order, `CutOff` loses the rest. A new
raw table gets its creator's default privileges (`CreateTable`). `Wanted` and `Unwanted` state
what a configuration means without reference to statements.

## Runs

| Run | Result | What it shows | Bounds |
|---|---|---|---|
| `ingest_scan` | pass | stops, partial reads, rejects, errors, kills and changes behind the scan lose nothing, the promise of `SourceFeed` is kept; a clean SUCCESS read its window; when faults and changes cease everything is landed; RUNNING rows of the dead are closed | 2 records, 2 changes, clock 1 to 3, skew 1, 1 tolerated reject, 2 faults |
| `transform_chunked` | pass | with one writer, no row is passed over, rollups are wrong only where the next run looks, a backlog is worked off one chunk per run | 3 rows, 2 days of one month, chunks of 1, 3 landings, 1 fault |
| `transform_coverage` | violation | coverage of a month is recorded with its first chunk | the same, no fault |
| `hold` | pass | no complete snapshot is passed over, nothing incomplete is copied, every complete one is copied in the end | 3 runs of 2 landings, 1 fault |
| `pack_serial` | pass | one command at a time, no drop over a run in flight: nothing is lost, no coverage without facts, no ENABLED pack without tables | 3 records, 2 faults, the state alone only over a schema |
| `pack_in_flight` | violation | drop over an ingest run in flight leaves a watermark above a gap | 2 records, no fault |
| `cortex` | pass | offset paging with the shrink check keeps the promise of `SourceFeed`, and catches up | 4 records, pages of 2, every reply with its total, 2 ticks a second, clock to 4, 1 stop |
| `dojo` | pass | creations and changes under the scan, deletions between scans, pages that shrink and grow: the promise is kept, and it catches up | 5 findings, pages 4 and 2, clock to 4 and on to 5, 2 faults |
| `lag` | pass | late alerts, stops at any record after two pages, answers cut short, searches that only part of the shards answer: the promise is kept while the lag covers delay and run time, and a backlog longer than a run is worked off | both sources: 5 alerts, pages of 2, lag 2, delay 1, run time 1, clock to 7, 1 fault |
| `walk` | pass | short and repeated pages, silent servers, failed requests: a run without a note is complete, every run ends, every change is seen | each of the three sources: 2 campaigns, 3 records, pages of 2, at most 3 pages, 4 changes, 1 fault |
| `holdout` | pass | converges interleave and are cut off: hold before release, nobody's row under a shared login is undone, the table ends as the lists have it, but for rows stranded by hand, and then rests | 3 deployers, 2 logins, 3 sources, 3 edits or commands by hand, 1 cut |
| `registry` | pass | whatever is installed and in whatever order it loads: exactly the usable packs are found, a target is run for the pack its name resolves to, no third pack takes over | 3 entry points, 2 names, 2 claims (one of the core), 4 core versions, 5 ranges, 3 changes |

Why the bounds are enough. Every hazard here is a matter of at most two records (one that
moves, one that is stepped over or left behind), two pages or chunks (so that there is a
boundary), and two runs (the one that goes wrong and the one that would have to notice). Two
faults allow a fault while the consequences of another are dealt with. The clocks are long
enough for a change before, during and after a scan, on the instant of its pin and past it.
The mutants listed in `PROJECT.json` are the check of this: each is a plausible bug, and each
is found under the bounds of the run that is meant to notice it. Where a theorem covers the
same property, the bounds do not matter.

`MaxClock`, `MaxChanges`, `MaxLandings`, `MaxRecords`, `MaxFaults` and `MaxStops` are bounds
of the models, not of the code. Deadlock is checked everywhere. Symmetry, over entry points,
is used in `registry` only, which has no liveness property. `ingest_scan` has `Ordered =
FALSE`; the ordered shape of source is covered by the theorems, which hold for both.

### Fairness

- The timer starts a unit again and again, and a started process gets on (weak fairness of
  `Worker`, `Derive \/ Stop`, `Begin`, `Scan` and `Run`): the timers of `examples/systemd` are
  `OnCalendar=hourly` with `Persistent=true`, and a process that hangs is killed by its unit's
  `TimeoutStartSec`, which is a `Crash`, not a stop of the system.
- In `Transform` the fairness is of `Derive \/ Stop` as a whole: a run may be stopped after
  its first chunk every time, and `CaughtUp` still holds.
- A landing transaction is committed or aborted, a live ingest run gets on.
- A deployment converges again and again (`Sync`); a detected alert becomes queryable
  (`Index`), as `Delay` says.
- An abandoned row gets older (`Age`, `GrowOld`), a vendor's clock goes on (`Pass`; in
  `CortexScan` time only moves with `Modify`, and weak fairness of it lets the clock reach its
  bound; a modification of no record is an instant that passes).
- Nothing obliges faults, changes, new records or new ingest runs to happen. Faults are
  bounded in number, so liveness is of the form "when faults cease".

## Proofs

Proved by TLAPS for every value of the constants, from the named assumptions of each module
and the hypotheses given.

What the pipeline cannot rule out by itself (a second writer, a command beside another, a
clock ahead, a deletion under a scan) is a constant of the models, and the runs are made with
it off. The theorems do not ask for that. Their hypothesis is a property of the steps,
`[][...]_vars`, that names the one event which does the harm; the theorems that end in
`IsEnough` say that the event does not happen when the constant is off, so that the property
follows for the instances of the runs as well. Read the other way round: whenever such a
property is broken, that event has happened, whatever else overlaps, fails or dies. Each
finding without a run below names the hypothesis that delimits it.

**IngestRun** (`IngestRunProofs`). Assumptions: the records are a finite set;
`ClockAssumption`, i.e. an ordered source runs on a host that does not lead the vendor's
clock, and a full scan's host leads it by less than the skew setting. `NothingSkipped` is not
inductive: when the watermark moves, what makes that safe is what the run knows of every
record. `IInv` adds: what the run holds of a record is its present content unless it changed
after the scan began, and then its mark is past everything the run can persist (`CopyOK`); an
ordered source has left nothing behind below the highest mark it yielded (`OrderOK`); a run
that was neither stopped nor partial has left behind at most what was put off (`DoneOK`). The
last is where an ordered scan that ends in front of unread rows matters: such rows lie at or
above the highest mark the run yielded (`MarkOK`), so the watermark does not pass them, and
something departed (`SomeDeparted`). From it:
`TypeCorrect`, `NoSilentLoss` ([]NothingSkipped), `WatermarkOnlyAdvances`,
`CleanRunsAreComplete` (an ordered run with departures vouches for all that the new watermark
passed), `RawOnlyAdvances` (no landing of the one run a source has puts older
content over newer), and `RunKeepsPromise`: `IngestRun` implements `SourceFeed`. The last is a
step simulation: initial states map to initial ones, and under `IInv` and `PromiseInv` (the
horizon is not past the vendor's clock, and what a run still holds of a record is not older
than the version given up) every action maps to a step of `SourceFeed` or to a stutter.

**SourceFeed**. `PromiseKept`: a record that is neither due nor past is in the raw table as it
is at the vendor, or was given up as just that. Whatever implements the specification inherits
it.

**Transform** (`TransformProofs`). `TypeCorrect` for any number of writers. The rest holds for
any number of writers too, as long as no mark is taken above a landing that is still open
(`NoMarkAboveOpen`). `IInv` says that no landing, open or to come, stamps a row at or below
anything the run holds (`Past`), so that a row the run has dealt with either stays as it was
or leaves the range the run's claims are about; and it says for each phase of a chunk what it
has secured. From it: `NoRowPassedOver`, `RollupsStayTrue`, `WatermarkOnlyAdvances`.
`CoverageOfWholeBacklog`: a target that does not chunk, or whose chunk can hold the whole
table, does record coverage as proof; this is the exact complement of the run
`transform_coverage`. `OneWriterIsEnough`: with one writer an open landing is younger than
every row (`OrderInv`), so no mark is above it. `TargetKeepsPromise`: then `Transform`
implements `SourceFeed`; a chunk only ever carries content newer than the facts it replaces
(`CarryOK`).

**Both halves** (`TransformProofs`). `EndToEnd` takes a source and a target that implement
`SourceFeed` over one raw table, the target's content being what the source landed: every
record of the vendor is reported as it is, was refused as just that, is still to be asked for
or carried on, or lies before the horizon of the first run. The theorem is about the promises,
not about `IngestRun` and `Transform` side by side: a row has a version in the one and a stamp
in the other, and that the two change together is what the upsert does (it restamps a row
exactly when its payload differs).

**SnapshotHold** (`SnapshotHoldProofs`). `TypeCorrect` and `OnlyCompleteCopied` without any
hypothesis, runs by hand included: a row that says SUCCESS when the upsert looks never says
anything else later, because a run is closed once (`OpenOK`: a live run's row says RUNNING, or
FAILED when a later start took it for dead). `NoCompleteSnapshotLost`, runs by hand included,
as long as none completes after it was taken for dead (`InTime`). The argument: a mark that
`Hold` lets through has nobody below it who may still complete, and a run without a process
never turns from incomplete to complete. `CapIsEnough`: where every process is under its
unit's cap (`~ HandRuns`), `InTime` holds.

**PackLifecycle** (`PackLifecycleProofs`). `TypeCorrect` and `CoverageStaysBacked` without any
hypothesis: the advisory lock alone is enough. `EnabledPackHasTables`, whatever commands
overlap and whatever runs are in flight, as long as the operator records the state alone only
over a schema that is there (`SchemaFirst`), and what drop checked when it began is still
so when it drops the tables (`NoEnableUnderDrop`; `TablesOK`: what a command still has to do
is what its tables lack). `NoRecordLost`, whatever commands overlap, as long as drop commits
neither under an ingest run that works from a cursor it read nor over a watermark set between
its two commits (`NoRunUnderDrop`). `OneCommandIsEnough` (`~ Overlap`) and `AwaitingIsEnough`
(`AwaitIngest` and `~ Overlap`) give the two; `pack_in_flight` shows that waiting is needed.

**DojoScan** (`ConnectorProofs`). `DojoTypeCorrect` for any sizes, with deletions under a scan
too: cutting and growing keep a page between the floor and the page size. `DojoKeepsPromise`,
the step simulation of `SourceFeed`, whatever is created, changed or deleted under a scan, as
long as the scan keeps its place (`DojoUndisturbed`: of the findings the cap vouches for none
changes, and none that is unread steps over the offset). The invariant: of the findings the
cap vouches for, those ranked before the offset have landed (`DojoPagesOK`). It is inductive
because ids only grow: what is created or deleted between scans moves every other finding one
way. `DojoSkewIsEnough`: if nothing is deleted under a scan and the host's clock leads the
server's by no more than the skew setting, no scan is disturbed.

**CortexScan** (`ConnectorProofs`). `CortexTypeCorrect` for any lead of the host's clock.
`CortexKeepsPromise` for any lead too, as long as a record that changes under a scan is
stamped past its pin (`CortexStampedPast`) and none leaves the window where no two totals are
compared, that is behind a page that gave no total or in front of one
(`CortexNothingUnseen`). The invariant (`CortexRowsOK`): everything in the
window below the highest mark yielded has landed, and while the window counts what it counted
on the first page, its first `frm` rows have landed. The second is why comparing totals is
enough: if what changes leaves the window nothing enters it, so that an equal count is an
equal window. `CortexNoLeadIsEnough`: a host that does not lead gives the first hypothesis;
`CortexTotalsAreEnough`: a server that always gives its total, the second.

**LagScan** (`ConnectorProofs`). `LagTypeCorrect` for any lag; if it covers delay and run time,
`LagKeepsPromise`, by offset and by key, with and without bursts. The invariant (`LagRowsOK`):
what a run has left behind in its window is landed, or so young that it need not have been
visible when the run began; such an alert is above the ceiling less the lag.

What the promise says of each is spelt out in `DojoLandedBelowMark`, `CortexLandedBelowMark`
and `LagLandedBelowMark`: an invariant over the connector's own variables, inherited from
`PromiseKept` through the refinement, under the hypothesis of the refinement.

**PageWalk** (`ConnectorProofs`). `WalkTypeCorrect`; and `WalkCleanIsComplete`, whatever is
added, removed and moved, as long as nothing that stays steps from a page still to come onto
one already read (`NoStepBack`), for all three sources and all modes of the server.
`OnlyAddingIsEnough`: where records are added but none is removed or moved (`~ Shuffles`),
they only move away from the start. The invariant: on the pages before the current one,
whatever stays has
been read (`WalkPlace`); the campaigns walked before this one are read, or the run is partial
(`WalkAround`). A server stuck on its
first page is caught by its own argument: either it repeats what it said it has more of, or
the walk runs into the cap, and both leave a note.

**Registry** (`RegistryProofs`). For any number of distributions, packs, claims and
changes, loaded, judged and collected in any order: `TypeCorrect`, `RunsResolve`,
`NothingTakenOver`, and `FindsExactly`. The invariant tells each phase by what is installed
(`JudgedSoFar`, `ClaimsSoFar`: a claim that was made has an owner, and it collides when a
second pack makes it) and what a process left behind by what it found installed
(`LeftBehind`), so that no order of the loops can be seen in the result. `FindsExactly` takes
versions of at most three parts below ten (`SmallVersions`), because its statement compares
versions as numbers to be independent of the code's comparison of tuples; the other three do
not.

**HoldOut** (`SchemaProofs`). If deployers of one login manage different sources (what
`--managed` is for): `HoldTypeCorrect`, `HeldUntilReleases`, `LoginsKeptApart`, for any number
of deployers, logins and sources. The invariant: what a sync has dealt with while holding is
held or was lifted by somebody else, and what it has still to release it was not asked to hold
(`HoldPhases`).

**RunClock** (`IngestRunProofs`). `StopsBeforeTheCap` and `ReapsOnlyTheDead`, for all
settings. The first needs a cap of four seconds: below that the margin is zero. The second is
about a process under the settings of the run that reaps. With `Retries`, for at least one
attempt and any delays: `StopsAreHeeded` (a stop waits for one call or one slice of a backoff;
a request takes at most its attempts and the capped backoffs between them). The invariant
accounts every failed attempt with a whole call and a whole delay, of which the rest of a
backoff is still to be spent. `NoticedBeforeTheCap` puts the two together: if the longest call
fits in the spare time, a run that waits for a page when its deadline passes has noticed
before its cap. With the shipped cap of 1800 s that leaves 300 s; with a cap under 480 s a
call of 120 s (DefectDojo, XDR alerts) no longer fits.

**Partitions** (`SchemaProofs`). Without any hypothesis: `MonthsHaveOneHome`,
`CheckVouches` (when the timer's check passed, the month that follows has a partition when it
begins) and `HealthTellsAll` (an empty DEFAULT and `covered_until` past next month are enough
to know that both months are there). The invariant: every month from now to `reach` has a
partition or rows in DEFAULT, and no partition lies past `reach`; without the second a maximum
such as `covered_until` would say nothing of the months below it. `DefaultHoldsThePast`, if
every application reaches at least as far ahead as event times lie, and is in time: DEFAULT
never holds a row of the current month or a later one.

**Grants** (`SchemaProofs`). If the roles have names of their own: `NoneIsCutShort` (no
statement takes from a role what the configuration gives it). If besides no raw table is
created while the file is applied: `GrantsConverge` (after an application that ran to its end
every role has what the configuration gives it and nothing that it must not have, on the
tables created since too, whatever had been granted before). The argument: a statement fits
the configuration (`StatementsFit`), whatever is wanted or unwanted has a statement
(`GrantsAll`, `RevokesAll`), the two never meet (`Apart`), so that what is not yet as it
should be has its statement still in `todo`.

The proofs found three assumptions that the instances of TLC had taken for granted: `N` is at
least 1 in `DojoScan` and `MaxClock` in `LagScan` (else the first state has no type), and in
`PageWalk` no record is also a campaign. Each is now in the named assumption of its module.

Only model-checked: the liveness properties (`CaughtUp`, `AbandonedClosed`,
`EveryCompleteCopied`, `RunEnds`, `Converges`, `Settles`) and with them everything about
fairness, which the prover does not reach. Every invariant and every action property of a
passing run is stated by a theorem. No module here declares a recursive operator. Where a
proof needs a least element (the first hit left behind, `Smallest` in `ConnectorProofs`), it
takes a minimal counterexample from the well-foundedness of the naturals; an induction over
data as such is not used anywhere.

## Findings

Each is a run that TLC finds violated, with the line it contradicts quoted in `PROJECT.json`.

1. **Coverage with chunks** (`transform_coverage`). The first chunk that touches a month
   records the month as covered while its other rows wait in later chunks. A run that is
   stopped between them leaves a record on which raw expiry relies.
2. **Drop over an ingest run in flight** (`pack_in_flight`). drop locks out transforms, not
   ingest; a run that passed its check before the disable writes its watermark after drop
   deleted it, and the next enable resumes above rows that are gone.

Seen with other constants, without a run of their own:

- `RunClock`: a run started by hand without `SECOPS_INGEST_UNIT_CAP_SEC` reaps at 1800 s.
  Where the unit has a longer cap, the row it closes as FAILED may be that of the timer's run,
  still alive; hence the limit in `ReapsOnlyTheDead`. In the same way `REAP_AFTER_SEC` of the
  transforms (3600 s) is twice the shipped cap and does not follow one that is raised.
- `Transform`, two `Writers`: a landing transaction stamps its rows with the time it began.
  Ingest takes no lock, so a hand-run beside the timer can commit rows with a stamp below a
  mark the transform has taken in between; they are never transformed (`NothingPassedOver`).
  That mark is the only way to lose one (`NoMarkAboveOpen`), and one writer never makes it.
- `CortexScan`, `Lead = 2` (4 records, `Grain = 1`): the window's pin is the worker's clock.
  If it leads, a record modified under the scan stays in the window, the total does not fall,
  and the row that shifts over the page boundary is stepped over (`KeepsPromise`). Only a
  record stamped at or below the pin does this (`CortexStampedPast`).
- `CortexScan`, 3 records: when departures leave the next page empty the scan ends before
  totals are compared, and a run that left a row out is recorded as complete
  (`CleanScanIsComplete`). The watermark stays at what was read, so the row is read later.
  `IngestRun` has this ending too, and its `CleanRunIsComplete` makes the exception.
- `CortexScan`, `Silent = TRUE`: a page without a total switches the comparison off before and
  after itself, the row that shifts over the page boundary is stepped over, the run closes
  without a note and the watermark passes the row (`KeepsPromise`, `CaughtUp`). The code means
  to make no claim without two totals (`sources/_cortex.py:216-217`;
  "unknown: no claim", `tests/sources/test_cortex_common.py:368`); the price is that such a run
  looks like any other. Only a record that leaves the window in such a gap does this
  (`CortexNothingUnseen`).
- `LagScan`, `Burst = TRUE`: with more alerts inside one lag window than a run can read, every
  run goes back by the lag, is stopped inside the window, and persists a mark below its own
  cursor (`common/run.py:484` does not compare the two); the next one does the same
  (`CaughtUp`). `sources/xdr_alerts.py:96-100` describes this as what the ordered declaration
  cures.
- `LagScan`, `RunTime + Delay > Lag`: the lag has to cover the length of a run besides the
  delay of the index (`KeepsPromise`); `sources/xdr_alerts.py:93-95` speaks of the delay.
- `PageWalk`, `Shuffles = TRUE`: a record removed while a later page is awaited moves another
  to a page already read, and the total falls with it, or a duplicate makes up the count
  (`CleanRunIsComplete`; compare `sources/_ksat.py:242-248`). A removal that moves nothing
  that stays over the boundary is harmless (`NoStepBack`). Endpoints are the same, and
  there a page that is cut short by the server also ends the scan without a note, since the
  total of the answer is logged and not compared (`sources/xdr_endpoints.py:115-123`).
- `Partitions`: that a month is skipped "in practice only happens when the window is widened
  backwards" (`_partition_do_block`); it also happens when the window lapses. The rows of the
  current month are then in DEFAULT, that month is skipped by every later application with a
  warning, the next one is created, and the timer's check, which looks at the next one only,
  passes. `default_rows` does show it. A record dated further ahead than the window reaches
  does the same to its month.
- `Grants`, `Beside = TRUE`: a raw table created after the file granted on all tables and
  before it set the default privileges of its creator has neither until the next application
  (`Converged`).
- `Grants`, outside `RolesDiffer`: nothing checks that two options name different roles. A
  shared role that is also a remote writer is revoked from and granted to by one file, and
  what it ends with is a matter of the order.
- `Grants`: a role or remote writer that is dropped from the options keeps what it had, and
  nothing is ever revoked from the read and monitor roles; `Unwanted` says so.
- `HoldOut`, `RecordedByOthersStays`: a hold-out is taken over and then released by the login
  that took it over, while the first still lists it; the comment at
  `schema/__init__.py:335-337` has it that nobody lifts another's hold-out. It is recorded
  again when the first converges (`Converges` holds). Two logins that list one source restamp
  its row at every converge.
- `HoldOut`: the hold command knows no `--managed` (`holdout.py:262-267`), so a source that is
  held by hand with a login none of whose deployments manages it stays held until someone
  releases it by hand; it is the stuck row that `holdout.py:291-292` speaks of. `Converges`
  makes the exception (`Stranded`).
- `Registry`, `OthersKeepRunning`: `all_targets()` validates target names and lets the error
  out; `transform/__main__.py:42` catches only collisions. One pack with a target name that is
  no identifier ends every transform of the host at startup, the core's included, where
  `packs/registry.py:6-8` says "one broken pack must not take down every other pack's timers".
- `Transform`, `FullRefresh = TRUE`: a full-refresh target whose every run is stopped after
  its first chunk starts from the beginning each time and never reaches the end (`CaughtUp`).
- `SnapshotHold`, `HandRuns = TRUE`: a run without a cap can complete after its row counts as
  dead; its snapshot is passed over (`NoSnapshotLost`). Being taken for dead is harmless as
  long as the run does not complete (`InTime`).
- `SnapshotHold`: a run that lands and completes between the raw mark and the hold query, or
  spans a chunk boundary, is visible by half until the next chunk or run. It is transient and
  so not an invariant.
- `PackLifecycle`, `SchemaFirst = FALSE`: one `packs enable --state-only` over tables that are
  not there leaves the pack ENABLED without them (`EnabledHasTables`), with nothing else
  running. The option is documented as the operator's own responsibility
  (`packs/__main__.py:41-45`); that the order of the writes "can never leave a row claiming
  ENABLED with no tables behind it" (`packs/__main__.py:335-338`) is said of the other path.
- `PackLifecycle`, `Overlap = TRUE`: an enable that runs between drop's check and its end
  leaves the pack ENABLED without tables (`EnabledHasTables`); no other overlap does
  (`NoEnableUnderDrop`).
- `DojoScan`, `DeleteUnderScan = TRUE`: a deletion under the scan shifts a finding over the
  page boundary (`KeepsPromise`). One that moves nothing unread over the offset is harmless
  (`DojoUndisturbed`).
- `sources/defectdojo.py:134-136` says that errors other than timeouts go through with_retries
  "with its full budget"; the call passes `attempts=PAGE_ATTEMPTS`, which is 1.
- The DefectDojo section of the repository's README describes a scan that stops at the first
  record older than the cursor; the code reads the whole collection.

## Not modelled

- Reference connector: synthetic records for a smoke test.
- Schema: the text of the DDL, `control.source_freshness` (a view over the ledger) and the
  drift checks, which only read.
- Privileges on sequences and functions, and USAGE on the schema control, which every served
  role gets.
- Secret backends: request and response with external vaults, no shared state.
- Command line, configuration, observability, redaction, payload and pseudonym helpers: no
  state the pipeline depends on.
- Unit files: they appear as fairness and as crashes.
- The SQL of the targets: data; what the runner assumes of it is in `Transform`.

## Plan

In this order.

1. `Overlap`: two runs of one source (a hand-run beside the timer), pages that land late, a
   watermark that moves back.
2. `PackLifecycle`: the mirror into `control.source_state`, `list`, and the drift of the
   recorded version.
3. `control.source_freshness` over the ledgers of `SnapshotHold`: what `as_of` says of the
   rows a reader sees.
4. The drift checks of `common/schema_check.py`: what a migration heals.
5. Runs for `Retries`, `Partitions` and `Grants`, which are proved and not sampled.

Proofs to come: `LagScan` under a burst that a run can still read; `IngestRun` and `Transform`
as one specification, with a row's version and stamp as the relation between them; which
event breaks `CaughtUp` of a full refresh, for a prover that reaches liveness.
