----------------------------- MODULE IngestRun -----------------------------
(***************************************************************************)
(* One source and the ingest worker that its systemd unit starts, from     *)
(* common/run.py: reap the ledger, open a run, read the cursor, drain the  *)
(* connector's fetch() into batches, land them, advance the watermark,     *)
(* close the run.  The vendor goes on changing records while all of this   *)
(* happens, a stop may be asked for after any record, any step may raise,  *)
(* and the process may be killed between any two commits.                  *)
(*                                                                         *)
(* fetch() appears here as the contract the connectors keep towards the    *)
(* framework, in the two shapes the watermarked connectors have:           *)
(*   Ordered     xdr.py, xsoar.py: the window [cursor, pin] with the pin   *)
(*               read once before the first page, yielded in mark order;   *)
(*   ~ Ordered   defectdojo.py: a full scan by id that drops marks at or   *)
(*               below the cursor and caps the watermark at its start.     *)
(* CortexScan and DojoScan have the pages themselves, and what they need   *)
(* of the vendor for the contract to hold; what is taken from there is     *)
(* that an ordered scan ends on an empty page too, in front of rows it has *)
(* not read, when rows it has read left the window.                        *)
(*                                                                         *)
(* The refusal paths of execute() (pack disabled, ambiguous source, schema *)
(* drift) change nothing and so are stuttering steps of this module.       *)
(***************************************************************************)
EXTENDS Integers, FiniteSets

CONSTANTS
  Records,      \* the vendor's records, by identity
  Ordered,      \* the source yields in watermark order
  BatchSize,    \* rows per landing transaction
  MaxRejects,   \* SECOPS_INGEST_MAX_REJECTS
  ReapsAged,    \* the unit's cap or a deadline says which rows are too old
  Backfill,     \* horizon of an ordered source's first run
  Skew,         \* SECOPS_DEFECTDOJO_CLOCK_SKEW_SEC
  Lead,         \* how far this host's clock leads the vendor's
  MaxClock,     \* bound: the vendor's clock
  MaxChanges,   \* bound: creations and modifications at the vendor
  MaxFaults     \* bound: stops, partial reads, rejects, errors and crashes

ASSUME RecordsAssumption == IsFiniteSet(Records)
ASSUME SizeAssumption == /\ Ordered \in BOOLEAN
                         /\ BatchSize \in Nat \ {0}
                         /\ MaxRejects \in Nat /\ ReapsAged \in BOOLEAN
                         /\ Backfill \in Nat
ASSUME BoundAssumption == /\ MaxClock \in Nat
                          /\ MaxChanges \in Nat
                          /\ MaxFaults \in Nat
\* The pin of a window is only as good as the clock it is read on, so an
\* ordered source needs a host that does not lead the vendor.  The full scan
\* allows for a lead below its skew setting.
ASSUME ClockAssumption == /\ Skew \in Nat
                          /\ Lead \in Nat
                          /\ IF Ordered THEN Lead = 0 ELSE Lead < Skew

VARIABLES
  clock,      \* the vendor's clock, which stamps every change
  vmark,      \* per record: its modification mark at the vendor, or NoMark
  ver,        \* per record: the content it has at the vendor (0: none yet)
  raw,        \* per record: the content in the raw table (0: no row)
  wm,         \* control.ingest_watermark: the committed cursor, or NoMark
  row,        \* control.ingest_run: status of this worker's latest row
  noted,      \* that row carries a note (error_summary) beside SUCCESS
  young, old, \* RUNNING rows of dead processes, below and past the unit's cap
  pc,         \* where the worker is
  cursor,     \* the watermark this run read
  bound,      \* the pin of the window, or the scan's watermark ceiling
  at,         \* per record: how far this run has carried it
  copy,       \* per record: mark and content as the connector read them
  high,       \* highest mark taken from the connector
  nrej,       \* records rejected by this run
  stop,       \* this run was asked to stop
  partial,    \* the connector reported an incomplete read
  rej,        \* history: the content last rejected as malformed (0: none)
  base,       \* history: the horizon of the run that started from no cursor
  changes, faults   \* counters behind the bounds

vendor == <<clock, vmark, ver>>
ledger == <<row, noted, young, old>>
table  == <<raw, wm>>
run    == <<cursor, bound, at, copy, high, nrej, stop, partial>>
ghost  == <<rej, base>>
vars   == <<vendor, ledger, table, run, ghost, pc, changes, faults>>

NoMark == -1      \* None; below every mark, as newer() has it
Marks  == Nat

Newer(candidate, current) == candidate > current

Fault == faults < MaxFaults /\ faults' = faults + 1

----------------------------------------------------------------------------
(* What the connector asks the vendor for.                                 *)

\* Marks the run does not ask for: an ordered source filters modification
\* >= cursor and starts a first run at its horizon; the full scan drops marks
\* at or below the cursor and reads everything on a first run.
Filtered(m, c) ==
  IF c = NoMark THEN m < base
  ELSE IF Ordered THEN m < c ELSE m <= c

\* Mutation: an ordered source that ignores its cursor.
InWindowFromStart(m) == Ordered => m <= bound

InWindow(m) == ~ Filtered(m, cursor) /\ (Ordered => m <= bound)

\* Marks no change made after the scan began can carry.
Settled(m) == IF Ordered THEN m < bound ELSE m <= bound

Carried(stage) == {r \in Records : at[r] = stage}
Awaiting == {r \in Carried("vendor") : vmark[r] # NoMark /\ InWindow(vmark[r])}

\* Records that were changed once they had been served, and are past the window.
Departed == {r \in Records : at[r] # "vendor" /\ vmark[r] > bound}

----------------------------------------------------------------------------
Init ==
  /\ clock = Skew /\ changes = 0 /\ faults = 0
  /\ vmark = [r \in Records |-> NoMark]
  /\ ver = [r \in Records |-> 0]
  /\ raw = [r \in Records |-> 0]
  /\ rej = [r \in Records |-> 0]
  /\ wm = NoMark /\ base = 0
  /\ row = "none" /\ noted = FALSE /\ young = 0 /\ old = 0
  /\ pc = "idle" /\ cursor = NoMark /\ bound = 0
  /\ at = [r \in Records |-> "vendor"]
  /\ copy = [r \in Records |-> [mark |-> NoMark, ver |-> 0]]
  /\ high = NoMark /\ nrej = 0 /\ stop = FALSE /\ partial = FALSE

\* The vendor creates or modifies a record.
Change(r) ==
  /\ changes < MaxChanges
  /\ changes' = changes + 1
  /\ vmark' = [vmark EXCEPT ![r] = clock]
  /\ ver' = [ver EXCEPT ![r] = @ + 1]
  /\ UNCHANGED <<clock, ledger, table, run, ghost, pc, faults>>

Tick ==
  /\ clock < MaxClock
  /\ clock' = clock + 1
  /\ UNCHANGED <<vmark, ver, ledger, table, run, ghost, pc, changes, faults>>

\* An abandoned row passes the age beyond which reap_abandoned closes it.
Age ==
  /\ young > 0
  /\ young' = young - 1 /\ old' = old + 1
  /\ UNCHANGED <<vendor, row, noted, table, run, ghost, pc, changes, faults>>

----------------------------------------------------------------------------
(* The worker.                                                             *)

\* Mutation: abandoned rows are left alone.
ReapNothing ==
  /\ pc = "idle"
  /\ pc' = "ready"
  /\ UNCHANGED <<vendor, ledger, table, run, ghost, changes, faults>>

\* Closing abandoned rows is tidying up: its failure is logged and ignored.
Reap ==
  /\ pc = "idle"
  /\ pc' = "ready"
  /\ \/ old' = (IF ReapsAged THEN 0 ELSE old) /\ UNCHANGED faults
     \/ Fault /\ UNCHANGED old
  /\ UNCHANGED <<vendor, row, noted, young, table, run, ghost, changes>>

StartRun ==
  /\ pc = "ready"
  /\ pc' = "open"
  /\ row' = "RUNNING" /\ noted' = FALSE
  /\ at' = [r \in Records |-> "vendor"]
  /\ high' = NoMark /\ nrej' = 0 /\ stop' = FALSE /\ partial' = FALSE
  /\ UNCHANGED <<vendor, young, old, table, cursor, bound, copy, ghost,
                 changes, faults>>

\* Mutation: the first run's horizon subtracted from the pin.
VouchedHorizon == clock + Lead - Skew - Backfill

\* What the host's clock says of the vendor's, less what the source allows for
\* being wrong: the pin of a window, or the ceiling of a full scan.
Vouched == IF Ordered THEN clock + Lead ELSE clock + Lead - Skew

\* authenticate, get_watermark, and the head of fetch(): the host's clock is
\* read once, for the window's pin or for the cap.
ReadCursor ==
  /\ pc = "open"
  /\ pc' = "scan"
  /\ cursor' = wm
  /\ bound' = Vouched
  /\ base' = IF wm # NoMark THEN base
             ELSE IF Ordered /\ clock + Lead > Backfill
                  THEN clock + Lead - Backfill ELSE 0
  /\ UNCHANGED <<vendor, ledger, table, at, copy, high, nrej, stop, partial,
                 rej, changes, faults>>

\* The next page of fetch(): records of the window not yet served, as they are
\* now; in an ordered source none of them above one that is left behind.
FetchPage(page) ==
  /\ pc = "scan" /\ Carried("page") = {}
  /\ page # {}
  /\ Ordered => \A r \in page, s \in Awaiting \ page : vmark[r] <= vmark[s]
  /\ at' = [r \in Records |-> IF r \in page THEN "page" ELSE at[r]]
  /\ copy' = [r \in Records |-> IF r \in page
                                  THEN [mark |-> vmark[r], ver |-> ver[r]]
                                  ELSE copy[r]]
  /\ UNCHANGED <<vendor, ledger, table, cursor, bound, high, nrej, stop,
                 partial, ghost, pc, changes, faults>>

\* Mutation: a page is served in any order.
YieldsUnsorted(r) == pc = "scan" /\ at[r] = "page"

Yields(r) ==
  /\ pc = "scan" /\ at[r] = "page"
  /\ Ordered => \A s \in Carried("page") : copy[r].mark <= copy[s].mark

\* upsert_many of a set of records and its commit.
Land(rs) ==
  /\ raw' = [r \in Records |-> IF r \in rs THEN copy[r].ver ELSE raw[r]]
  /\ at'  = [r \in Records |-> IF r \in rs THEN "landed" ELSE at[r]]

\* One record through the loop: it joins the batch, a full batch lands, and
\* only then is the stop looked at.
Take(r) ==
  /\ Yields(r)
  /\ high' = IF Newer(copy[r].mark, high) THEN copy[r].mark ELSE high
  /\ LET batch == Carried("batch") \cup {r}
     IN  IF Cardinality(batch) >= BatchSize
           THEN Land(batch)
           ELSE at' = [at EXCEPT ![r] = "batch"] /\ UNCHANGED raw
  /\ \/ UNCHANGED <<stop, pc, faults>>
     \/ stop' = TRUE /\ pc' = "flush" /\ Fault
  /\ UNCHANGED <<vendor, ledger, wm, cursor, bound, copy, nrej, partial,
                 ghost, changes>>

\* A record to_row or watermark_of raises on is counted and skipped; past the
\* limit the run fails.
Reject(r) ==
  /\ Yields(r)
  /\ Fault
  /\ nrej' = nrej + 1
  /\ at' = [at EXCEPT ![r] = "rejected"]
  /\ rej' = [rej EXCEPT ![r] = copy[r].ver]
  /\ pc' = IF nrej' > MaxRejects THEN "failing" ELSE pc
  /\ UNCHANGED <<vendor, ledger, table, cursor, bound, copy, high, stop,
                 partial, base, changes>>

\* with_retries checks for a stop before every request it makes.
StopInFetch ==
  /\ pc = "scan" /\ Carried("page") = {}
  /\ Fault
  /\ stop' = TRUE /\ pc' = "flush"
  /\ UNCHANGED <<vendor, ledger, table, cursor, bound, at, copy, high, nrej,
                 partial, ghost, changes>>

\* The connector gives up part of the read and says so.
ReportPartial ==
  /\ pc = "scan" /\ Carried("page") = {}
  /\ Fault
  /\ partial' = TRUE /\ pc' = "flush"
  /\ UNCHANGED <<vendor, ledger, table, cursor, bound, at, copy, high, nrej,
                 stop, ghost, changes>>

\* Mutation: any page is taken for the last one.
ScanEndEarly ==
  /\ pc = "scan" /\ Carried("page") = {}
  /\ pc' = "flush"
  /\ UNCHANGED <<vendor, ledger, table, run, ghost, changes, faults>>

\* Nothing is left, or no more than what departed from in front of the offset,
\* so that the next page of an ordered source is empty.
ScanEnd ==
  /\ pc = "scan" /\ Carried("page") = {}
  /\ Awaiting = {} \/ (Ordered /\ Cardinality(Awaiting) <= Cardinality(Departed))
  /\ pc' = "flush"
  /\ UNCHANGED <<vendor, ledger, table, run, ghost, changes, faults>>

LandRest ==
  /\ pc = "flush"
  /\ Land(Carried("batch"))
  /\ pc' = "mark"
  /\ UNCHANGED <<vendor, ledger, wm, cursor, bound, copy, high, nrej, stop,
                 partial, ghost, changes, faults>>

\* Mutation: a stopped run advances whatever its order.
AlwaysAdvance == TRUE

MayAdvance == (~ stop /\ ~ partial) \/ Ordered

\* The mark the run persists: the highest one taken, under the ceiling of a
\* source that set one.
Capped == IF ~ Ordered /\ Newer(high, bound) THEN bound ELSE high

\* Mutation: a run that took nothing writes NULL.
SetMarkAlways ==
  /\ pc = "mark"
  /\ wm' = IF MayAdvance THEN Capped ELSE wm
  /\ pc' = "finish"
  /\ UNCHANGED <<vendor, ledger, raw, run, ghost, changes, faults>>

SetMark ==
  /\ pc = "mark"
  /\ wm' = IF high # NoMark /\ MayAdvance THEN Capped ELSE wm
  /\ pc' = "finish"
  /\ UNCHANGED <<vendor, ledger, raw, run, ghost, changes, faults>>

\* Mutation: an incomplete read leaves no note.
FinishUnnoted ==
  /\ pc = "finish"
  /\ row' = "SUCCESS"
  /\ noted' = (stop \/ nrej > 0)
  /\ pc' = "idle"
  /\ UNCHANGED <<vendor, young, old, table, run, ghost, changes, faults>>

Finish ==
  /\ pc = "finish"
  /\ row' = "SUCCESS"
  /\ noted' = (stop \/ partial \/ nrej > 0)
  /\ pc' = "idle"
  /\ UNCHANGED <<vendor, young, old, table, run, ghost, changes, faults>>

\* Any step may raise.  Before the run has a row there is nothing to close.
Fail ==
  /\ pc \in {"ready", "open", "scan", "flush", "mark", "finish"}
  /\ Fault
  /\ pc' = IF pc = "ready" THEN "idle" ELSE "failing"
  /\ UNCHANGED <<vendor, ledger, table, run, ghost, changes>>

\* The except handler closes the row, or cannot and leaves it RUNNING.
RecordFailure ==
  /\ pc = "failing"
  /\ pc' = "idle"
  /\ \/ row' = "FAILED" /\ UNCHANGED <<young, faults>>
     \/ row' = "none" /\ young' = young + 1 /\ Fault
  /\ UNCHANGED <<vendor, noted, old, table, run, ghost, changes>>

\* SIGKILL, the unit's cap, a lost host: whatever was not committed is gone.
Crash ==
  /\ pc # "idle"
  /\ Fault
  /\ pc' = "idle"
  /\ IF pc # "ready"
       THEN row' = "none" /\ young' = young + 1
       ELSE UNCHANGED <<row, young>>
  /\ UNCHANGED <<vendor, noted, old, table, run, ghost, changes>>

Fetch == \E page \in SUBSET Awaiting : FetchPage(page)
Consume == \E r \in Records : Take(r) \/ Reject(r)

Next ==
  \/ \E r \in Records : Change(r)
  \/ Tick
  \/ Age
  \/ Reap
  \/ StartRun
  \/ ReadCursor
  \/ Fetch
  \/ Consume
  \/ StopInFetch
  \/ ReportPartial
  \/ ScanEnd
  \/ LandRest
  \/ SetMark
  \/ Finish
  \/ Fail
  \/ RecordFailure
  \/ Crash

Spec == Init /\ [][Next]_vars

\* The timer starts the unit again and again, a started process is scheduled,
\* and time passes for an abandoned row.  Nothing obliges the vendor to change
\* anything or a fault to happen.
Worker == \/ Reap \/ StartRun \/ ReadCursor \/ Fetch \/ Consume \/ ScanEnd
          \/ LandRest \/ SetMark \/ Finish \/ RecordFailure

FairSpec == Spec /\ WF_vars(Worker) /\ WF_vars(Age)

----------------------------------------------------------------------------
(* Properties.                                                             *)

FlagsOK == noted \in BOOLEAN /\ stop \in BOOLEAN /\ partial \in BOOLEAN

\* Types of the variables.
TypeOK ==
  /\ clock \in Nat /\ changes \in Nat /\ faults \in Nat
  /\ vmark \in [Records -> Marks \cup {NoMark}]
  /\ ver \in [Records -> Nat] /\ raw \in [Records -> Nat]
  /\ rej \in [Records -> Nat]
  /\ wm \in Marks \cup {NoMark} /\ base \in Nat
  /\ row \in {"none", "RUNNING", "SUCCESS", "FAILED"}
  /\ young \in Nat /\ old \in Nat
  /\ pc \in {"idle", "ready", "open", "scan", "flush", "mark", "finish", "failing"}
  /\ cursor \in Marks \cup {NoMark} /\ bound \in Nat
  /\ at \in [Records -> {"vendor", "page", "batch", "landed", "rejected"}]
  /\ copy \in [Records -> [mark : Marks \cup {NoMark}, ver : Nat]]
  /\ high \in Marks \cup {NoMark} /\ nrej \in Nat
  /\ FlagsOK

\* The record is in the raw table as it is at the vendor, or was rejected as
\* malformed in exactly that content.
Accounted(r) == raw[r] = ver[r] \/ rej[r] = ver[r]

\* No silent loss.  A record the next run will not ask for, because the
\* committed watermark has passed its mark, is in the warehouse in the content
\* it has at the vendor: whatever was stopped, rejected, capped, changed under
\* the scan, left half done or killed on the way ("advance only after a
\* successful land", run.py; "writing it would skip every record the run
\* never reached").  Records below a first run's horizon were never asked for.
NothingSkipped ==
  \A r \in Records :
    /\ wm # NoMark /\ vmark[r] # NoMark /\ vmark[r] >= base
    /\ Filtered(vmark[r], wm)
    => Accounted(r)

\* What the next run asks for, and what the first run's horizon left out.
Due  == {r \in Records : /\ vmark[r] # NoMark /\ vmark[r] >= base
                         /\ ~ Filtered(vmark[r], wm)}
Past == {r \in Records : vmark[r] # NoMark /\ vmark[r] < base}

Promise == INSTANCE SourceFeed WITH
             content <- ver, landed <- raw, given <- rej,
             due <- Due, past <- Past, opened <- wm # NoMark

\* The run implements the promise of a source: through stops, rejects, caps,
\* errors and kills it stops asking only for what it has dealt with, a change
\* makes a record due again, the raw table never goes back to an older
\* content, and a watermark once written is never taken back.
KeepsPromise == Promise!Spec

\* The committed watermark never moves back, through stops, caps and retries
\* (set_watermark is unconditional, so nothing in the database says so).
WatermarkMonotone == [][wm' >= wm]_wm

\* An ordered scan may end in front of records, when others departed under it;
\* the next run asks for them.
PutOff(r) == Ordered /\ Departed # {} /\ ~ Filtered(vmark[r], wm)

\* A row that closes SUCCESS without a note read all it was asked to: every
\* record of the run's window that has not changed since the scan began is in
\* the raw table as it is at the vendor, or was put off by an ordered source.
\* Snapshot targets copy only such runs (transform/runner.py,
\* complete_runs_only).
CleanRunIsComplete ==
  [][Finish /\ ~ noted' =>
       \A r \in Records :
         vmark[r] # NoMark /\ ~ Filtered(vmark[r], cursor) /\ Settled(vmark[r])
           => raw[r] = ver[r] \/ PutOff(r)]_vars

\* The raw table never goes back to an older content of a record, although
\* pages are read long before they land.
RawNeverRegresses == [][\A r \in Records : raw'[r] >= raw[r]]_raw

\* Once the vendor is quiet and faults have ceased, every record it holds from
\* the horizon on is accounted for, for good: no combination of stops, kept
\* cursors and overlaps leaves one outside the windows of all later runs.
CaughtUp ==
  <>[](\A r \in Records :
         vmark[r] # NoMark /\ vmark[r] >= base => Accounted(r))

\* A RUNNING row left behind by a killed process does not stay RUNNING: later
\* runs of the source close it (db.reap_abandoned).
AbandonedClosed == (young + old > 0) ~> (young + old = 0)

=============================================================================
