----------------------------- MODULE Transform -----------------------------
(***************************************************************************)
(* One raw table, the ingest transactions that land in it, and the runs of *)
(* one target that derive reporting tables from it (transform/runner.py).  *)
(*                                                                         *)
(* A landing transaction stamps every row whose payload it changes with    *)
(* now(), the time the transaction began, and the rows become visible when *)
(* it commits (common/db.upsert_many).  The stamp doubles as the identity  *)
(* of the content: raw[r] is the stamp of the transaction that wrote the   *)
(* content row r has now, facts[r] the content last copied to the fact     *)
(* table and rollup[r] the content counted in the rollup of r's day.       *)
(*                                                                         *)
(* A chunk is one READ COMMITTED transaction of several statements, each   *)
(* with a snapshot of its own, so the raw table may change between them.   *)
(*                                                                         *)
(* The target lock admits one run at a time: a second run reports BUSY and *)
(* writes nothing, as does a run of a disabled pack or of a warehouse      *)
(* behind the package.  Those are stuttering steps here.                   *)
(***************************************************************************)
EXTENDS Integers, FiniteSets

CONSTANTS
  Rows,         \* rows of the raw table, by primary key
  Day, Month,   \* per row: the day and the month of its _event_time
  Writers,      \* ingest processes that land in the table
  ChunkRows,    \* SECOPS_TRANSFORM_CHUNK_ROWS
  Chunkable,    \* the target's upsert_sql has an upper bound
  FullRefresh,  \* the target re-derives every row on every run
  MaxLandings,  \* bound: landing transactions
  MaxFaults     \* bound: signals, errors and crashes

ASSUME RowsAssumption == /\ IsFiniteSet(Rows)
                         /\ \A r, s \in Rows : Day[r] = Day[s] => Month[r] = Month[s]
ASSUME TargetAssumption == /\ ChunkRows \in Nat \ {0}
                           /\ Chunkable \in BOOLEAN
                           /\ FullRefresh \in BOOLEAN
ASSUME LimitAssumption == MaxLandings \in Nat /\ MaxFaults \in Nat

VARIABLES
  now,       \* stamp of the latest landing transaction
  open,      \* per writer: its open landing transaction (stamp 0: none)
  raw, facts, rollup,  \* per row: content in the three tables (0: none)
  cover,     \* months with a row in control.transform_coverage
  tw,        \* control.transform_watermark (0: NULL)
  trow,      \* control.transform_run: status of the latest row
  dead,      \* RUNNING rows of runs that were killed
  tpc,       \* where the run is
  lo, hi,    \* the slice (lo, hi] the run is at
  mark,      \* the raw high-water mark this run captured
  slice,     \* the fact table as the chunk's open transaction has it
  days,      \* days the chunk found affected
  moved,     \* this run committed a chunk
  signalled, \* SIGTERM arrived
  faults     \* counter behind the bound

landing == <<now, open, raw>>
mart    == <<facts, rollup, cover>>
ledger  == <<trow, dead>>
chunk   == <<lo, hi, slice, days>>
run     == <<mark, moved, signalled>>
vars    == <<landing, mart, ledger, chunk, run, tw, tpc, faults>>

Fault == faults < MaxFaults /\ faults' = faults + 1

NoLanding == [stamp |-> 0, rows |-> {}]

\* What SELECT max(_ingested_at) returns, 0 (NULL) for an empty table.
IsRawMark(m) == /\ m = 0 \/ \E r \in Rows : raw[r] = m
                /\ \A r \in Rows : raw[r] <= m

Since == IF FullRefresh THEN 0 ELSE tw

ShouldSkip(since, m) == ~ FullRefresh /\ (m = 0 \/ (since # 0 /\ m <= since))

Between(l, h) == {r \in Rows : raw[r] > l /\ raw[r] <= h}

\* A chunk of ChunkRows rows above l ends at b: the stamp of its last row, rows
\* that share the stamp included, or h when fewer rows are left.
IsNextBound(l, h, b) ==
  IF Cardinality(Between(l, h)) < ChunkRows THEN b = h
  ELSE /\ b \in {raw[r] : r \in Between(l, h)}
       /\ Cardinality(Between(l, b)) >= ChunkRows
       /\ Cardinality({r \in Between(l, b) : raw[r] < b}) < ChunkRows

\* Mutation: the top of the slice is excluded.
SelectedOpen == {r \in Rows : raw[r] > lo /\ (Chunkable => raw[r] < hi)}

\* The raw rows a statement of the chunk selects.
Selected == IF Chunkable THEN Between(lo, hi) ELSE {r \in Rows : raw[r] > lo}

----------------------------------------------------------------------------
Init ==
  /\ now = 0 /\ open = [w \in Writers |-> NoLanding]
  /\ raw = [r \in Rows |-> 0]
  /\ facts = [r \in Rows |-> 0] /\ rollup = [r \in Rows |-> 0] /\ cover = {}
  /\ tw = 0 /\ trow = "none" /\ dead = 0 /\ tpc = "idle"
  /\ lo = 0 /\ hi = 0 /\ mark = 0
  /\ slice = [r \in Rows |-> 0] /\ days = {}
  /\ moved = FALSE /\ signalled = FALSE /\ faults = 0

----------------------------------------------------------------------------
(* Ingest.                                                                 *)

\* A landing transaction begins: its now() is fixed here.
BeginLanding(w, rs) ==
  /\ open[w] = NoLanding /\ now < MaxLandings /\ rs # {}
  /\ now' = now + 1
  /\ open' = [open EXCEPT ![w] = [stamp |-> now + 1, rows |-> rs]]
  /\ UNCHANGED <<raw, mart, ledger, chunk, run, tw, tpc, faults>>

CommitLanding(w) ==
  /\ open[w] # NoLanding
  /\ raw' = [r \in Rows |-> IF r \in open[w].rows THEN open[w].stamp ELSE raw[r]]
  /\ open' = [open EXCEPT ![w] = NoLanding]
  /\ UNCHANGED <<now, mart, ledger, chunk, run, tw, tpc, faults>>

AbortLanding(w) ==
  /\ open[w] # NoLanding
  /\ Fault
  /\ open' = [open EXCEPT ![w] = NoLanding]
  /\ UNCHANGED <<now, raw, mart, ledger, chunk, run, tw, tpc>>

----------------------------------------------------------------------------
(* A run of the target, under its lock.                                    *)

\* Abandoned rows past REAP_AFTER_SEC are closed, then the run gets its own.
Start ==
  /\ tpc = "idle"
  /\ tpc' = "read"
  /\ trow' = "RUNNING"
  /\ dead' \in 0 .. dead
  /\ moved' = FALSE /\ signalled' = FALSE
  /\ UNCHANGED <<landing, mart, chunk, mark, tw, faults>>

\* The watermark and the raw mark are read before any row is.
ReadMark ==
  /\ tpc = "read"
  /\ mark' \in 0 .. now /\ IsRawMark(mark')
  /\ lo' = Since
  /\ tpc' = IF ShouldSkip(tw, mark') \/ mark' = 0 THEN "finish" ELSE "next"
  /\ UNCHANGED <<landing, mart, ledger, hi, slice, days, moved, signalled, tw,
                 faults>>

BeginChunk ==
  /\ tpc = "next" /\ ~ signalled
  /\ hi' \in 0 .. now
  /\ IF Chunkable THEN IsNextBound(lo, mark, hi') ELSE hi' = mark
  /\ tpc' = "upsert"
  /\ UNCHANGED <<landing, mart, ledger, lo, slice, days, run, tw, faults>>

\* Between chunks the run stops for SIGTERM or its deadline.  A deadline that
\* passes before the first chunk is left out: it derives nothing, ever.
Stop ==
  /\ tpc = "next" /\ (signalled \/ moved)
  /\ trow' = "FAILED"
  /\ tpc' = "idle"
  /\ UNCHANGED <<landing, mart, dead, chunk, run, tw, faults>>

\* Mutation: rows that have a fact are left alone (ON CONFLICT DO NOTHING).
UpsertNew ==
  /\ tpc = "upsert"
  /\ slice' = [r \in Rows |-> IF r \in Selected /\ facts[r] = 0 THEN raw[r]
                              ELSE facts[r]]
  /\ tpc' = "days"
  /\ UNCHANGED <<landing, mart, ledger, lo, hi, days, run, tw, faults>>

Upsert ==
  /\ tpc = "upsert"
  /\ slice' = [r \in Rows |-> IF r \in Selected THEN raw[r] ELSE facts[r]]
  /\ tpc' = "days"
  /\ UNCHANGED <<landing, mart, ledger, lo, hi, days, run, tw, faults>>

\* Mutation: the days of the rows above the slice.
AffectedDaysAbove ==
  /\ tpc = "days"
  /\ days' = {Day[r] : r \in {s \in Rows : raw[s] > hi}}
  /\ tpc' = "commit"
  /\ UNCHANGED <<landing, mart, ledger, lo, hi, slice, run, tw, faults>>

AffectedDays ==
  /\ tpc = "days"
  /\ days' = {Day[r] : r \in Selected}
  /\ tpc' = "commit"
  /\ UNCHANGED <<landing, mart, ledger, lo, hi, slice, run, tw, faults>>

\* Mutation: coverage recorded by day.
CoveredDays == days

\* Months of the affected days that have facts to count.
Covered == {Month[r] : r \in {s \in Rows :
              /\ Day[s] \in days
              /\ \E f \in Rows : Month[f] = Month[s] /\ slice[f] # 0}}

\* Mutation: rollups rebuilt before the chunk's facts are there.
CommitRollupFirst ==
  /\ tpc = "commit"
  /\ facts' = slice
  /\ rollup' = [r \in Rows |-> IF Day[r] \in days THEN facts[r] ELSE rollup[r]]
  /\ cover' = cover \cup Covered
  /\ tpc' = "advance"
  /\ UNCHANGED <<landing, ledger, chunk, run, tw, faults>>

\* Rollups of the affected days rebuilt from the facts, coverage recorded, and
\* the commit that makes all of the chunk visible at once.
CommitChunk ==
  /\ tpc = "commit"
  /\ facts' = slice
  /\ rollup' = [r \in Rows |-> IF Day[r] \in days THEN slice[r] ELSE rollup[r]]
  /\ cover' = cover \cup Covered
  /\ tpc' = "advance"
  /\ UNCHANGED <<landing, ledger, chunk, run, tw, faults>>

\* Mutations: the mark taken after the rows were read; the watermark kept
\* until the backlog is done.
AdvanceToRaw ==
  /\ tpc = "advance"
  /\ tw' \in 0 .. now /\ IsRawMark(tw')
  /\ lo' = hi
  /\ moved' = TRUE
  /\ tpc' = IF hi >= mark THEN "finish" ELSE "next"
  /\ UNCHANGED <<landing, mart, ledger, hi, slice, days, mark, signalled, faults>>

AdvanceAtEnd ==
  /\ tpc = "advance"
  /\ tw' = IF hi >= mark THEN hi ELSE tw
  /\ lo' = hi
  /\ moved' = TRUE
  /\ tpc' = IF hi >= mark THEN "finish" ELSE "next"
  /\ UNCHANGED <<landing, mart, ledger, hi, slice, days, mark, signalled, faults>>

\* The watermark moves to the chunk's top, in a transaction of its own.
Advance ==
  /\ tpc = "advance"
  /\ tw' = hi
  /\ lo' = hi
  /\ moved' = TRUE
  /\ tpc' = IF hi >= mark THEN "finish" ELSE "next"
  /\ UNCHANGED <<landing, mart, ledger, hi, slice, days, mark, signalled, faults>>

Finish ==
  /\ tpc = "finish"
  /\ trow' = "SUCCESS"
  /\ tpc' = "idle"
  /\ UNCHANGED <<landing, mart, dead, chunk, run, tw, faults>>

\* The except handler rolls back and closes the row, or cannot close it.
Close ==
  /\ tpc' = "idle"
  /\ \/ trow' = "FAILED" /\ UNCHANGED dead
     \/ trow' = "none" /\ dead' = dead + 1
  /\ UNCHANGED <<landing, mart, chunk, mark, moved, tw>>

Fail == tpc # "idle" /\ Fault /\ Close /\ UNCHANGED signalled

\* SIGTERM.  While a chunk's statements run (armed) the statement in flight is
\* cancelled and the run ends there, unless the cancel comes to nothing.
Armed == tpc \in {"upsert", "days", "commit"}

Sigterm ==
  /\ tpc # "idle" /\ ~ signalled
  /\ Fault
  /\ signalled' = TRUE
  /\ \/ Armed /\ Close
     \/ UNCHANGED <<landing, mart, ledger, chunk, mark, moved, tw, tpc>>

\* The process is killed: its transaction and its lock go with it.
Crash ==
  /\ tpc # "idle" /\ Fault
  /\ tpc' = "idle" /\ trow' = "none" /\ dead' = dead + 1
  /\ UNCHANGED <<landing, mart, chunk, run, tw>>

Ingest == \E w \in Writers :
            \/ \E rs \in SUBSET Rows : BeginLanding(w, rs)
            \/ CommitLanding(w)
            \/ AbortLanding(w)

Derive == \/ Start \/ ReadMark \/ BeginChunk \/ Upsert \/ AffectedDays
          \/ CommitChunk \/ Advance \/ Finish

Next ==
  \/ Ingest
  \/ Derive
  \/ Stop
  \/ Fail
  \/ Sigterm
  \/ Crash

Spec == Init /\ [][Next]_vars

\* The timer starts a run again and again and a started run makes progress,
\* though a deadline may end each one after its first chunk.  A landing
\* transaction is committed or aborted.
FairSpec == /\ Spec
            /\ WF_vars(Derive \/ Stop)
            /\ \A w \in Writers : WF_vars(CommitLanding(w))

----------------------------------------------------------------------------
(* Properties.                                                             *)

FlagsOK == moved \in BOOLEAN /\ signalled \in BOOLEAN

\* Types of the variables.
TypeOK ==
  /\ now \in Nat /\ tw \in Nat /\ mark \in Nat /\ lo \in Nat /\ hi \in Nat
  /\ dead \in Nat /\ faults \in Nat
  /\ open \in [Writers -> [stamp : Nat, rows : SUBSET Rows]]
  /\ raw \in [Rows -> Nat] /\ facts \in [Rows -> Nat]
  /\ rollup \in [Rows -> Nat] /\ slice \in [Rows -> Nat]
  /\ cover \subseteq {Month[r] : r \in Rows}
  /\ days \subseteq {Day[r] : r \in Rows}
  /\ trow \in {"none", "RUNNING", "SUCCESS", "FAILED"}
  /\ tpc \in {"idle", "read", "next", "upsert", "days", "commit", "advance", "finish"}
  /\ FlagsOK

\* No row is passed over.  A raw row at or below the watermark is never looked
\* at again, so its present content has to be in the fact table already:
\* through landings in the middle of a chunk, stops, cancelled statements and
\* crashes between a chunk's commit and its watermark's.
NothingPassedOver == \A r \in Rows : raw[r] # 0 /\ raw[r] <= tw => facts[r] = raw[r]

\* A rollup disagrees with the facts of its day only over a row the next run
\* will look at again: a record re-landed between the statement that copies a
\* chunk and the one that finds the affected days drops out of the second, and
\* its day is not rebuilt.
RollupsAgree == \A r \in Rows : rollup[r] # facts[r] => raw[r] > tw

\* An incremental target's watermark never moves back.
WatermarkMonotone == [][~ FullRefresh => tw' >= tw]_tw

\* "Coverage is recorded only after facts exist": when a run records a month,
\* the rows the month had when the run took its mark are in the fact table.
\* Raw expiry is gated on the record (schema/__init__.py, "THE COVERAGE LEDGER
\* IS WHAT MAKES RAW EXPIRY SAFE"; "rather than marking a period covered that
\* is not", runner.py).
CoverageIsProof ==
  [][CommitChunk =>
       \A r \in Rows : /\ Month[r] \in Covered
                       /\ raw[r] # 0 /\ raw[r] <= mark
                       => facts'[r] = raw[r]]_vars

\* When landings and faults cease, the reporting tables catch up with raw and
\* stay there, even if every run is stopped after its first chunk ("The next
\* run continues from the watermark", runner.py).
CaughtUp == <>[](facts = raw /\ rollup = raw)

=============================================================================
