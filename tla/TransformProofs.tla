-------------------------- MODULE TransformProofs --------------------------
(***************************************************************************)
(* Theorems about Transform, for every table, chunk size and kind of       *)
(* target.  What they need of the ingest writers is that a run takes no    *)
(* mark above a landing that is still open (NoMarkAboveOpen): one writer   *)
(* at a time is enough for it, whatever else the writers do it is what     *)
(* goes wrong when it is broken.                                           *)
(*                                                                         *)
(* The invariant says what each phase of a chunk has already secured.      *)
(* Landing transactions only ever stamp rows above everything the run      *)
(* holds (Past), so a row the run has dealt with either stays as it was or *)
(* leaves for good the range the run's claims are about.                   *)
(***************************************************************************)
EXTENDS Transform, FiniteSetTheorems, TLAPS

\* What upsert_many's stamps are trusted with (common/db.py: _ingested_at is the
\* time the transaction began): all that lies below a mark is there to be read.
MarkBelowOpen == ReadMark => \A w \in Writers : open[w] # NoLanding => mark' < open[w].stamp
NoMarkAboveOpen == [][MarkBelowOpen]_vars

OneWriter == \A v, w \in Writers : v = w

\* No landing transaction, open or yet to begin, stamps a row at or below x.
Past(x) == x <= now /\ \A w \in Writers : open[w] # NoLanding => x < open[w].stamp

StampsOK ==
  /\ \A w \in Writers : open[w] # NoLanding => 0 < open[w].stamp /\ open[w].stamp <= now
  /\ \A r \in Rows : raw[r] <= now
  /\ Past(tw) /\ Past(mark) /\ Past(lo) /\ Past(hi)

InChunk == tpc \in {"upsert", "days", "commit", "advance"}

\* The run starts where the watermark is, or at the beginning.
SliceOK ==
  /\ tpc = "next" \/ InChunk => lo <= tw /\ (lo = tw \/ (FullRefresh /\ lo = 0))
  /\ tpc = "next" => lo <= mark
  /\ InChunk => lo <= hi /\ hi <= mark
  /\ InChunk /\ ~ Chunkable => hi = mark

\* Rows below the chunk's top, or below the watermark, are in table f.
Copied(f) == \A r \in Rows : raw[r] # 0 /\ (raw[r] <= hi \/ raw[r] <= tw) => f[r] = raw[r]

CopyOK ==
  /\ tpc \in {"days", "commit"} => Copied(slice)
  /\ tpc = "advance" => Copied(facts)

\* A rollup that will be wrong belongs to a row above the chunk.
RollupOK ==
  /\ tpc = "commit" =>
       \A r \in Rows : Day[r] \notin days /\ rollup[r] # slice[r]
                         => raw[r] > hi /\ raw[r] > tw
  /\ tpc = "advance" =>
       \A r \in Rows : rollup[r] # facts[r] => raw[r] > hi /\ raw[r] > tw

\* A row that never landed is in no table.
AbsentOK ==
  \A r \in Rows : raw[r] = 0 =>
    /\ facts[r] = 0 /\ rollup[r] = 0
    /\ tpc \in {"days", "commit"} => slice[r] = 0

IInv == /\ TypeOK /\ StampsOK /\ SliceOK /\ CopyOK /\ RollupOK /\ AbsentOK
        /\ NothingPassedOver /\ RollupsAgree

----------------------------------------------------------------------------
(* Types.                                                                  *)

LEMMA FlagsStep == FlagsOK /\ [Next]_vars => FlagsOK'
<1> SUFFICES ASSUME FlagsOK, [Next]_vars PROVE FlagsOK'
  OBVIOUS
<1> USE DEF FlagsOK
<1>1. CASE Start
  BY <1>1, Zenon DEF Start
<1>2. CASE Advance
  BY <1>2, Zenon DEF Advance
<1>3. CASE Sigterm
  BY <1>3, Zenon DEF Sigterm, Close
<1>4. CASE UNCHANGED <<moved, signalled>>
  BY <1>4, Zenon
<1> QED
  BY <1>1, <1>2, <1>3, <1>4
     DEF Next, Derive, Ingest, vars, run, BeginLanding, CommitLanding, AbortLanding,
         ReadMark, BeginChunk, Stop, Upsert, AffectedDays, CommitChunk, Finish,
         Fail, Close, Crash

LEMMA TypeInit == Init => TypeOK
<1> SUFFICES ASSUME Init PROVE TypeOK
  OBVIOUS
<1>1. FlagsOK
  BY DEF Init, FlagsOK
<1>2. QED
  BY <1>1 DEF Init, TypeOK, NoLanding

LEMMA TypeStep == TypeOK /\ [Next]_vars => TypeOK'
<1> SUFFICES ASSUME TypeOK, [Next]_vars PROVE TypeOK'
  OBVIOUS
<1> FlagsOK'
  BY FlagsStep DEF TypeOK
<1> USE DEF TypeOK, Fault
<1>1. ASSUME NEW w \in Writers, NEW rs \in SUBSET Rows, BeginLanding(w, rs)
      PROVE  TypeOK'
  BY <1>1 DEF BeginLanding, mart, ledger, chunk, run
<1>2. ASSUME NEW w \in Writers, CommitLanding(w) PROVE TypeOK'
  <2>1. raw' \in [Rows -> Nat] /\ open' \in [Writers -> [stamp : Nat, rows : SUBSET Rows]]
    BY <1>2 DEF CommitLanding, NoLanding
  <2> QED
    BY <2>1, <1>2 DEF CommitLanding, mart, ledger, chunk, run
<1>3. ASSUME NEW w \in Writers, AbortLanding(w) PROVE TypeOK'
  <2>1. open' \in [Writers -> [stamp : Nat, rows : SUBSET Rows]]
    BY <1>3 DEF AbortLanding, NoLanding
  <2> QED
    BY <2>1, <1>3 DEF AbortLanding, mart, ledger, chunk, run
<1>4. CASE Start
  BY <1>4 DEF Start, landing, mart, chunk
<1>5. CASE ReadMark
  BY <1>5 DEF ReadMark, Since, landing, mart, ledger
<1>6. CASE BeginChunk
  BY <1>6 DEF BeginChunk, landing, mart, ledger, run
<1>7. CASE Stop \/ Finish
  BY <1>7 DEF Stop, Finish, landing, mart, chunk, run
<1>8. CASE Upsert
  BY <1>8 DEF Upsert, landing, mart, ledger, run
<1>9. CASE AffectedDays
  BY <1>9 DEF AffectedDays, Selected, Between, landing, mart, ledger, run
<1>10. CASE CommitChunk
  BY <1>10 DEF CommitChunk, Covered, landing, ledger, chunk, run
<1>11. CASE Advance
  BY <1>11 DEF Advance, landing, mart, ledger
<1>12. CASE Fail \/ Crash
  BY <1>12 DEF Fail, Crash, Close, landing, mart, chunk, run
<1>13. CASE Sigterm
  BY <1>13 DEF Sigterm, Close, landing, mart, ledger, chunk
<1>14. CASE UNCHANGED vars
  BY <1>14 DEF vars, landing, mart, ledger, chunk, run
<1> QED
  BY <1>1, <1>2, <1>3, <1>4, <1>5, <1>6, <1>7, <1>8, <1>9, <1>10, <1>11,
     <1>12, <1>13, <1>14 DEF Next, Ingest, Derive

----------------------------------------------------------------------------
(* The invariant is kept by every action.                                  *)

LEMMA InvInit == Init => IInv
<1> SUFFICES ASSUME Init PROVE IInv
  OBVIOUS
<1>1. TypeOK
  BY TypeInit
<1>2. StampsOK
  BY DEF Init, StampsOK, Past
<1>3. SliceOK /\ CopyOK /\ RollupOK /\ AbsentOK
  BY DEF Init, SliceOK, CopyOK, RollupOK, AbsentOK, InChunk
<1>4. NothingPassedOver /\ RollupsAgree
  BY DEF Init, NothingPassedOver, RollupsAgree
<1> QED
  BY <1>1, <1>2, <1>3, <1>4 DEF IInv

\* A landing transaction begins above everything, so nothing else changes.
LEMMA BeginLandingStep ==
  ASSUME IInv, TypeOK', NEW w \in Writers, NEW rs \in SUBSET Rows,
         BeginLanding(w, rs)
  PROVE  IInv'
<1>1. /\ UNCHANGED <<raw, facts, rollup, tw, tpc, lo, hi, mark, slice, days>>
      /\ now' = now + 1
      /\ \A v \in Writers : open'[v] = IF v = w THEN [stamp |-> now + 1, rows |-> rs] ELSE open[v]
  BY DEF BeginLanding, mart, chunk, run, IInv, TypeOK
<1>2. StampsOK'
  <2>1. now \in Nat /\ now' > 0
    BY <1>1 DEF IInv, TypeOK
  <2>2. ASSUME NEW x \in Nat, Past(x)
        PROVE  x <= now' /\ \A v \in Writers : open'[v] # NoLanding => x < open'[v].stamp
    BY <2>1, <2>2, <1>1 DEF Past
  <2>3. \A v \in Writers : open'[v] # NoLanding => 0 < open'[v].stamp /\ open'[v].stamp <= now'
    BY <2>1, <1>1 DEF IInv, StampsOK, TypeOK
  <2> QED
    BY <2>1, <2>2, <2>3, <1>1 DEF IInv, StampsOK, Past, TypeOK
<1>3. SliceOK' /\ CopyOK' /\ RollupOK' /\ AbsentOK'
  BY <1>1 DEF IInv, SliceOK, CopyOK, RollupOK, AbsentOK, InChunk, Copied
<1>4. NothingPassedOver' /\ RollupsAgree'
  BY <1>1 DEF IInv, NothingPassedOver, RollupsAgree
<1> QED
  BY <1>2, <1>3, <1>4 DEF IInv

\* The rows it lands leave every range the run has made a claim about.
LEMMA CommitLandingStep ==
  ASSUME IInv, TypeOK', NEW w \in Writers, CommitLanding(w)
  PROVE  IInv'
<1> DEFINE t == open[w].stamp
           landed == open[w].rows
<1>1. /\ UNCHANGED <<now, facts, rollup, tw, tpc, lo, hi, mark, slice, days>>
      /\ \A v \in Writers : open'[v] # NoLanding => open'[v] = open[v]
      /\ \A r \in Rows : raw'[r] = IF r \in landed THEN t ELSE raw[r]
  BY DEF CommitLanding, mart, chunk, run, IInv, TypeOK
<1>2. /\ t \in Nat /\ t <= now /\ t > 0
      /\ tw < t /\ hi < t /\ lo < t
  BY DEF CommitLanding, IInv, StampsOK, Past, TypeOK
<1>3. StampsOK'
  <2>1. \A r \in Rows : raw'[r] <= now'
    BY <1>1, <1>2 DEF IInv, StampsOK
  <2>2. Past(tw)' /\ Past(mark)' /\ Past(lo)' /\ Past(hi)'
    BY <1>1 DEF IInv, StampsOK, Past
  <2> QED
    BY <1>1, <2>1, <2>2 DEF IInv, StampsOK
<1>4. SliceOK'
  BY <1>1 DEF IInv, SliceOK, InChunk
<1>5. CopyOK'
  BY <1>1, <1>2 DEF IInv, CopyOK, Copied, TypeOK
<1>6. RollupOK'
  BY <1>1, <1>2 DEF IInv, RollupOK, TypeOK
<1>7. AbsentOK'
  BY <1>1, <1>2 DEF IInv, AbsentOK, TypeOK
<1>8. NothingPassedOver' /\ RollupsAgree'
  BY <1>1, <1>2 DEF IInv, NothingPassedOver, RollupsAgree, TypeOK
<1> QED
  BY <1>3, <1>4, <1>5, <1>6, <1>7, <1>8 DEF IInv

LEMMA AbortLandingStep ==
  ASSUME IInv, TypeOK', NEW w \in Writers, AbortLanding(w)
  PROVE  IInv'
<1>1. /\ UNCHANGED <<now, raw, facts, rollup, tw, tpc, lo, hi, mark, slice, days>>
      /\ \A v \in Writers : open'[v] # NoLanding => open'[v] = open[v]
  BY DEF AbortLanding, mart, chunk, run, IInv, TypeOK
<1>2. StampsOK'
  <2>1. ASSUME NEW x, Past(x)
        PROVE  x <= now' /\ \A v \in Writers : open'[v] # NoLanding => x < open'[v].stamp
    BY <2>1, <1>1 DEF Past
  <2> QED
    BY <2>1, <1>1 DEF IInv, StampsOK, Past
<1>3. SliceOK' /\ CopyOK' /\ RollupOK' /\ AbsentOK'
  BY <1>1 DEF IInv, SliceOK, CopyOK, RollupOK, AbsentOK, InChunk, Copied
<1>4. NothingPassedOver' /\ RollupsAgree'
  BY <1>1 DEF IInv, NothingPassedOver, RollupsAgree
<1> QED
  BY <1>2, <1>3, <1>4 DEF IInv

\* Steps that only open or close a run.
LEMMA QuietStep ==
  ASSUME IInv, TypeOK',
         UNCHANGED <<now, open, raw, facts, rollup, tw, lo, hi, mark, slice, days>>,
         tpc' \in {"idle", "read"} \/ UNCHANGED tpc
  PROVE  IInv'
<1>1. StampsOK'
  BY DEF IInv, StampsOK, Past
<1>2. SliceOK' /\ CopyOK' /\ RollupOK' /\ AbsentOK'
  BY DEF IInv, SliceOK, CopyOK, RollupOK, AbsentOK, InChunk, Copied
<1>3. NothingPassedOver' /\ RollupsAgree'
  BY DEF IInv, NothingPassedOver, RollupsAgree
<1> QED
  BY <1>1, <1>2, <1>3 DEF IInv

\* The run claims nothing yet; no landing that is open will be below its mark.
LEMMA ReadMarkStep ==
  ASSUME IInv, TypeOK', MarkBelowOpen, ReadMark
  PROVE  IInv'
<1>1. /\ UNCHANGED <<now, open, raw, facts, rollup, tw, hi, slice, days>>
      /\ tpc' \in {"next", "finish"} /\ lo' = Since
      /\ tpc' = "next" => ~ ShouldSkip(tw, mark')
      /\ mark' \in 0 .. now /\ IsRawMark(mark')
  BY DEF ReadMark, landing, mart
<1>2. StampsOK'
  <2>1. Past(0)
    BY DEF IInv, StampsOK, Past, TypeOK
  <2>2. Past(mark') /\ Past(lo')
    BY <1>1, <2>1 DEF IInv, StampsOK, MarkBelowOpen, Past, Since, TypeOK
  <2> QED
    BY <1>1, <2>2 DEF IInv, StampsOK, Past
<1>3. SliceOK'
  BY <1>1 DEF SliceOK, InChunk, Since, ShouldSkip, IInv, TypeOK
<1>4. CopyOK' /\ RollupOK' /\ AbsentOK'
  BY <1>1 DEF IInv, CopyOK, RollupOK, AbsentOK
<1>5. NothingPassedOver' /\ RollupsAgree'
  BY <1>1 DEF IInv, NothingPassedOver, RollupsAgree
<1> QED
  BY <1>2, <1>3, <1>4, <1>5 DEF IInv

LEMMA BeginChunkStep ==
  ASSUME IInv, TypeOK', BeginChunk
  PROVE  IInv'
<1>1. /\ UNCHANGED <<now, open, raw, facts, rollup, tw, lo, mark, slice, days>>
      /\ tpc = "next" /\ tpc' = "upsert"
      /\ IF Chunkable THEN IsNextBound(lo, mark, hi') ELSE hi' = mark
  BY DEF BeginChunk, landing, mart, run
<1>2. hi' = mark \/ \E r \in Between(lo, mark) : hi' = raw[r]
  BY <1>1 DEF IsNextBound
<1>3. StampsOK'
  <2>1. Past(hi')
    BY <1>2 DEF IInv, StampsOK, Past, Between, TypeOK
  <2> QED
    BY <1>1, <2>1 DEF IInv, StampsOK, Past
<1>4. SliceOK'
  BY <1>1, <1>2 DEF IInv, SliceOK, InChunk, Between, TypeOK
<1>5. CopyOK' /\ RollupOK' /\ AbsentOK'
  BY <1>1 DEF IInv, CopyOK, RollupOK, AbsentOK
<1>6. NothingPassedOver' /\ RollupsAgree'
  BY <1>1 DEF IInv, NothingPassedOver, RollupsAgree
<1> QED
  BY <1>3, <1>4, <1>5, <1>6 DEF IInv

\* A row of the slice is copied; one below it was copied before.
LEMMA UpsertStep ==
  ASSUME IInv, TypeOK', Upsert
  PROVE  IInv'
<1>1. /\ UNCHANGED <<now, open, raw, facts, rollup, tw, lo, hi, mark, days>>
      /\ tpc = "upsert" /\ tpc' = "days"
      /\ \A r \in Rows : slice'[r] = IF r \in Selected THEN raw[r] ELSE facts[r]
  BY DEF Upsert, landing, mart, run
<1>2. StampsOK'
  BY <1>1 DEF IInv, StampsOK, Past
<1>3. SliceOK'
  BY <1>1 DEF IInv, SliceOK, InChunk
<1>4. Copied(slice)'
  <2> SUFFICES ASSUME NEW r \in Rows, raw[r] # 0, raw[r] <= hi \/ raw[r] <= tw,
                      r \notin Selected
               PROVE  facts[r] = raw[r]
    BY <1>1 DEF Copied
  <2>1. raw[r] <= tw
    BY <1>1 DEF IInv, TypeOK, SliceOK, InChunk, Selected, Between
  <2> QED
    BY <2>1 DEF IInv, NothingPassedOver
<1>5. CopyOK' /\ RollupOK'
  BY <1>1, <1>4 DEF CopyOK, RollupOK
<1>6. AbsentOK'
  BY <1>1 DEF IInv, AbsentOK
<1>7. NothingPassedOver' /\ RollupsAgree'
  BY <1>1 DEF IInv, NothingPassedOver, RollupsAgree
<1> QED
  BY <1>2, <1>3, <1>5, <1>6, <1>7 DEF IInv

\* A rollup that differs from the facts of the chunk and whose day is not
\* found affected belongs to a row that has left the slice upwards.
LEMMA AffectedDaysStep ==
  ASSUME IInv, TypeOK', AffectedDays
  PROVE  IInv'
<1>1. /\ UNCHANGED <<now, open, raw, facts, rollup, tw, lo, hi, mark, slice>>
      /\ tpc = "days" /\ tpc' = "commit"
      /\ days' = {Day[r] : r \in Selected}
  BY DEF AffectedDays, landing, mart, run
<1>2. StampsOK'
  BY <1>1 DEF IInv, StampsOK, Past
<1>3. SliceOK' /\ CopyOK'
  BY <1>1 DEF IInv, SliceOK, InChunk, CopyOK, Copied
<1>4. RollupOK'
  <2> SUFFICES ASSUME NEW r \in Rows, Day[r] \notin days', rollup[r] # slice[r]
               PROVE  raw[r] > hi /\ raw[r] > tw
    BY <1>1 DEF RollupOK
  <2>1. r \notin Selected
    BY <1>1
  <2>2. raw[r] # 0
    BY <1>1 DEF IInv, AbsentOK
  <2>3. /\ raw[r] \in Nat /\ tw \in Nat /\ hi \in Nat /\ lo \in Nat
        /\ lo <= hi /\ lo <= tw
    BY <1>1 DEF IInv, TypeOK, SliceOK, InChunk
  <2>4. ASSUME raw[r] <= tw PROVE FALSE
    <3>1. slice[r] = raw[r]
      BY <1>1, <2>2, <2>4 DEF IInv, CopyOK, Copied
    <3>2. facts[r] = raw[r]
      BY <2>2, <2>4 DEF IInv, NothingPassedOver
    <3> QED
      BY <3>1, <3>2, <2>3, <2>4 DEF IInv, RollupsAgree
  <2>5. raw[r] > hi
    BY <2>1, <2>3, <2>4 DEF Selected, Between
  <2> QED
    BY <2>3, <2>4, <2>5
<1>5. AbsentOK' /\ NothingPassedOver' /\ RollupsAgree'
  BY <1>1 DEF IInv, AbsentOK, NothingPassedOver, RollupsAgree
<1> QED
  BY <1>2, <1>3, <1>4, <1>5 DEF IInv

LEMMA CommitChunkStep ==
  ASSUME IInv, TypeOK', CommitChunk
  PROVE  IInv'
<1>1. /\ UNCHANGED <<now, open, raw, tw, lo, hi, mark, slice, days>>
      /\ tpc = "commit" /\ tpc' = "advance"
      /\ facts' = slice
      /\ \A r \in Rows : rollup'[r] = IF Day[r] \in days THEN slice[r] ELSE rollup[r]
  BY DEF CommitChunk, landing, chunk, run
<1>2. StampsOK'
  BY <1>1 DEF IInv, StampsOK, Past
<1>3. SliceOK' /\ CopyOK'
  BY <1>1 DEF IInv, SliceOK, InChunk, CopyOK, Copied
<1>4. RollupOK' /\ RollupsAgree'
  BY <1>1 DEF IInv, RollupOK, RollupsAgree
<1>5. AbsentOK'
  BY <1>1 DEF IInv, AbsentOK
<1>6. NothingPassedOver'
  BY <1>1 DEF IInv, CopyOK, Copied, NothingPassedOver
<1> QED
  BY <1>2, <1>3, <1>4, <1>5, <1>6 DEF IInv

LEMMA AdvanceStep ==
  ASSUME IInv, TypeOK', Advance
  PROVE  IInv'
<1>1. /\ UNCHANGED <<now, open, raw, facts, rollup, hi, mark, slice, days>>
      /\ tpc = "advance" /\ tpc' \in {"finish", "next"}
      /\ tw' = hi /\ lo' = hi
  BY DEF Advance, landing, mart
<1>2. StampsOK'
  BY <1>1 DEF IInv, StampsOK, Past
<1>3. SliceOK'
  BY <1>1 DEF IInv, SliceOK, InChunk, TypeOK
<1>4. CopyOK' /\ RollupOK' /\ AbsentOK'
  BY <1>1 DEF IInv, CopyOK, RollupOK, AbsentOK
<1>5. NothingPassedOver' /\ RollupsAgree'
  BY <1>1 DEF IInv, CopyOK, Copied, RollupOK, NothingPassedOver, RollupsAgree
<1> QED
  BY <1>2, <1>3, <1>4, <1>5 DEF IInv

LEMMA InvStep == IInv /\ [Next]_vars /\ [MarkBelowOpen]_vars => IInv'
<1> SUFFICES ASSUME IInv, [Next]_vars, [MarkBelowOpen]_vars PROVE IInv'
  OBVIOUS
<1>0. TypeOK'
  BY TypeStep DEF IInv
<1>1. CASE Ingest
  BY <1>0, <1>1, BeginLandingStep, CommitLandingStep, AbortLandingStep DEF Ingest
<1>2. CASE Start \/ Stop \/ Finish
  BY <1>0, <1>2, QuietStep DEF Start, Stop, Finish, landing, mart, chunk, run
<1>3. CASE Fail \/ Crash \/ Sigterm
  BY <1>0, <1>3, QuietStep DEF Fail, Crash, Sigterm, Close, landing, mart, chunk, run
<1>4. CASE UNCHANGED vars
  BY <1>0, <1>4, QuietStep DEF vars, landing, mart, chunk, run
<1>5. CASE ReadMark \/ BeginChunk \/ Upsert
  <2>1. tpc' # tpc
    BY <1>5 DEF ReadMark, BeginChunk, Upsert
  <2>2. MarkBelowOpen
    BY <2>1 DEF vars
  <2> QED
    BY <1>0, <1>5, <2>2, ReadMarkStep, BeginChunkStep, UpsertStep
<1>6. CASE AffectedDays \/ CommitChunk \/ Advance
  BY <1>0, <1>6, AffectedDaysStep, CommitChunkStep, AdvanceStep
<1> QED
  BY <1>1, <1>2, <1>3, <1>4, <1>5, <1>6 DEF Next, Derive

----------------------------------------------------------------------------
(* Theorems.                                                               *)

\* Every variable of a run keeps its type, however many writers there are
\* (transform/runner.py, _run).
THEOREM TypeCorrect == Spec => []TypeOK
<1> QED
  BY TypeInit, TypeStep, PTL DEF Spec

\* What each phase of a chunk has secured, in every reachable state
\* (transform/runner.py, _run and _apply_chunk).
THEOREM Invariance == Spec /\ NoMarkAboveOpen => []IInv
<1> QED
  BY InvInit, InvStep, PTL DEF Spec, NoMarkAboveOpen

\* However many processes land and overlap, if no mark is taken above a landing
\* that is open, no raw row the watermark has passed is missing from the fact
\* table, in chunks of any size, for chunkable, unbounded and full-refresh targets
\* alike (transform/runner.py, _run).
THEOREM NoRowPassedOver == Spec /\ NoMarkAboveOpen => []NothingPassedOver
<1>1. Spec /\ NoMarkAboveOpen => []IInv
  BY Invariance
<1>2. IInv => NothingPassedOver
  BY DEF IInv
<1> QED
  BY <1>1, <1>2, PTL

\* Under the same condition a rollup is wrong only over a row still to be
\* transformed (transform/runner.py, _affected_days and _rebuild_rollups).
THEOREM RollupsStayTrue == Spec /\ NoMarkAboveOpen => []RollupsAgree
<1>1. Spec /\ NoMarkAboveOpen => []IInv
  BY Invariance
<1>2. IInv => RollupsAgree
  BY DEF IInv
<1> QED
  BY <1>1, <1>2, PTL

\* An incremental target's watermark only advances (transform/runner.py,
\* _advance, which writes whatever it is given).
THEOREM WatermarkOnlyAdvances == Spec /\ NoMarkAboveOpen => WatermarkMonotone
<1>1. IInv /\ [Next]_vars => [~ FullRefresh => tw' >= tw]_tw
  <2> SUFFICES ASSUME IInv, [Next]_vars, tw' # tw, ~ FullRefresh PROVE tw' >= tw
    OBVIOUS
  <2>1. Advance
    BY DEF Next, Derive, Ingest, vars, run, BeginLanding, CommitLanding,
           AbortLanding, Start, ReadMark, BeginChunk, Stop, Upsert, AffectedDays,
           CommitChunk, Finish, Fail, Sigterm, Close, Crash
  <2> QED
    BY <2>1 DEF Advance, IInv, SliceOK, InChunk, TypeOK
<1> QED
  BY <1>1, Invariance, PTL DEF Spec, WatermarkMonotone

\* A chunk that can hold the whole table makes coverage the proof it is taken
\* for (transform/runner.py, _record_coverage).
THEOREM CoverageOfWholeBacklog ==
  ASSUME Chunkable, Cardinality(Rows) < ChunkRows
  PROVE  Spec /\ NoMarkAboveOpen => CoverageIsProof
<1> DEFINE Whole == InChunk => hi = mark
<1>1. Init => Whole
  BY DEF Init, InChunk
<1>2. TypeOK /\ Whole /\ [Next]_vars => Whole'
  <2> SUFFICES ASSUME TypeOK, Whole, [Next]_vars PROVE Whole'
    OBVIOUS
  <2>1. CASE BeginChunk
    <3>1. Between(lo, mark) \subseteq Rows
      BY DEF Between
    <3>2. Cardinality(Between(lo, mark)) <= Cardinality(Rows)
      BY <3>1, RowsAssumption, FS_Subset
    <3>3. Cardinality(Between(lo, mark)) \in Nat /\ Cardinality(Rows) \in Nat
      BY <3>1, RowsAssumption, FS_Subset, FS_CardinalityType
    <3>4. Cardinality(Between(lo, mark)) < ChunkRows
      BY <3>2, <3>3, TargetAssumption
    <3> QED
      BY <2>1, <3>4 DEF BeginChunk, IsNextBound, run
  <2>2. CASE ~ BeginChunk
    BY <2>2 DEF Next, Derive, Ingest, vars, run, chunk, InChunk, BeginLanding,
                CommitLanding, AbortLanding, Start, ReadMark, Stop, Upsert,
                AffectedDays, CommitChunk, Advance, Finish, Fail, Sigterm, Close, Crash
  <2> QED
    BY <2>1, <2>2
<1>3. /\ IInv /\ Whole /\ [Next]_vars
      => [CommitChunk => \A r \in Rows : /\ Month[r] \in Covered
                                         /\ raw[r] # 0 /\ raw[r] <= mark
                                         => facts'[r] = raw[r]]_vars
  BY DEF CommitChunk, InChunk, IInv, CopyOK, Copied
<1>4. IInv => TypeOK
  BY DEF IInv
<1> HIDE DEF Whole
<1> QED
  BY <1>1, <1>2, <1>3, <1>4, Invariance, PTL DEF Spec, CoverageIsProof

----------------------------------------------------------------------------
(* One writer at a time.                                                   *)

\* Its landing is younger than everything that has landed.
InOrder == TypeOK /\ \A w \in Writers : open[w] # NoLanding =>
             open[w].stamp = now /\ now > 0 /\ \A r \in Rows : raw[r] < now
StampedOK == \A r \in Rows : raw[r] <= now
OrderInv == InOrder /\ StampedOK

LEMMA OrderStep == ASSUME OneWriter PROVE OrderInv /\ [Next]_vars => OrderInv'
<1> SUFFICES ASSUME OrderInv, [Next]_vars PROVE OrderInv'
  OBVIOUS
<1>0. TypeOK'
  BY TypeStep DEF OrderInv, InOrder
<1> USE DEF OrderInv, InOrder, StampedOK, TypeOK
<1>1. ASSUME NEW w \in Writers, NEW rs \in SUBSET Rows, BeginLanding(w, rs) PROVE OrderInv'
  BY <1>0, <1>1 DEF BeginLanding, OneWriter
<1>2. ASSUME NEW w \in Writers, CommitLanding(w) PROVE OrderInv'
  <2>1. /\ now' = now /\ \A v \in Writers : open'[v] = NoLanding
        /\ open[w].stamp = now
        /\ \A r \in Rows : raw'[r] = IF r \in open[w].rows THEN open[w].stamp ELSE raw[r]
    BY <1>2 DEF CommitLanding, OneWriter
  <2> QED
    BY <1>0, <2>1
<1>3. ASSUME NEW w \in Writers, AbortLanding(w) PROVE OrderInv'
  BY <1>0, <1>3 DEF AbortLanding, OneWriter
<1>4. CASE UNCHANGED landing
  BY <1>0, <1>4 DEF landing
<1> QED
  BY <1>1, <1>2, <1>3, <1>4
     DEF Next, Ingest, Derive, vars, Start, ReadMark, BeginChunk, Stop, Upsert, AffectedDays,
         CommitChunk, Advance, Finish, Fail, Sigterm, Close, Crash

\* One ingest writer at a time never leaves a landing open below a mark: the
\* source's timer alone, under systemd (common/db.py, upsert_many).
THEOREM OneWriterIsEnough == ASSUME OneWriter PROVE Spec => NoMarkAboveOpen
<1>1. Init => OrderInv
  BY TypeInit DEF Init, OrderInv, InOrder, StampedOK
<1>2. OrderInv => [MarkBelowOpen]_vars
  <2> SUFFICES ASSUME OrderInv, ReadMark, NEW w \in Writers, open[w] # NoLanding
               PROVE  mark' < open[w].stamp
    BY DEF MarkBelowOpen
  <2>1. mark' = 0 \/ \E r \in Rows : mark' = raw[r]
    BY DEF ReadMark, IsRawMark
  <2> QED
    BY <2>1 DEF OrderInv, InOrder
<1> QED
  BY <1>1, <1>2, OrderStep, PTL DEF Spec, NoMarkAboveOpen

----------------------------------------------------------------------------
(* The second half of the pipeline makes the promise of the first: a row   *)
(* of the raw table is to its target what a record at the vendor is to the *)
(* raw table, and it is due while the next run would select it.            *)

Awaited == {r \in Rows : raw[r] > Since}
NoneGiven == [r \in Rows |-> 0]

Promise == INSTANCE SourceFeed WITH
  Records <- Rows, content <- raw, landed <- facts, given <- NoneGiven,
  due <- Awaited, past <- {}, opened <- TRUE

\* What a chunk carries is newer than the facts it replaces.
CarryOK ==
  /\ \A r \in Rows : facts[r] <= raw[r]
  /\ tpc \in {"days", "commit"} =>
       \A r \in Rows : slice[r] = facts[r] \/ (facts[r] < slice[r] /\ slice[r] <= raw[r])

\* With one writer a row only becomes newer.
LEMMA RawGrows ==
  ASSUME OneWriter, OrderInv, NEW w \in Writers, CommitLanding(w)
  PROVE  /\ UNCHANGED <<facts, slice, tw, tpc>>
         /\ \A r \in open[w].rows : raw[r] < raw'[r] /\ raw'[r] = now
         /\ \A r \in Rows \ open[w].rows : raw'[r] = raw[r]
         /\ open[w].rows \subseteq Rows
  BY DEF CommitLanding, OrderInv, InOrder, TypeOK, mart, chunk

LEMMA CarryStep ==
  ASSUME OneWriter, OrderInv, CarryOK, [Next]_vars
  PROVE  CarryOK'
<1> USE DEF CarryOK
<1>0. TypeOK
  BY DEF OrderInv, InOrder
<1>1. ASSUME NEW w \in Writers, CommitLanding(w) PROVE CarryOK'
  BY <1>0, <1>1, RawGrows DEF TypeOK
<1>2. CASE Upsert
  <2>1. /\ UNCHANGED <<raw, facts>>
        /\ \A r \in Rows : slice'[r] = raw[r] \/ slice'[r] = facts[r]
    BY <1>2 DEF Upsert, landing, mart
  <2>2. \A r \in Rows : raw[r] \in Nat /\ facts[r] \in Nat
    BY <1>0 DEF TypeOK
  <2> QED
    BY <2>1, <2>2
<1>3. CASE CommitChunk
  BY <1>0, <1>3 DEF CommitChunk, TypeOK, landing
<1>4. CASE /\ UNCHANGED <<raw, facts>>
           /\ tpc' \in {"days", "commit"} => tpc \in {"days", "commit"} /\ UNCHANGED slice
  BY <1>4
<1> QED
  BY <1>1, <1>2, <1>3, <1>4
     DEF Next, Ingest, Derive, vars, landing, mart, chunk, BeginLanding, AbortLanding, Start,
         ReadMark, BeginChunk, Stop, AffectedDays, Advance, Finish, Fail, Sigterm, Close, Crash

LEMMA PromiseStep ==
  ASSUME OneWriter, IInv, OrderInv, CarryOK, [Next]_vars
  PROVE  [Promise!Next]_(Promise!vars)
<1> USE DEF Promise!Next, Promise!vars, Promise!table
<1>0. TypeOK
  BY DEF IInv
<1>n. NoneGiven \in [Rows -> Nat] /\ NoneGiven' = NoneGiven
  BY DEF NoneGiven
<1>1. ASSUME NEW w \in Writers, CommitLanding(w) PROVE Promise!Change
  <2> DEFINE R == open[w].rows
  <2>1. R \in SUBSET Rows /\ UNCHANGED facts
    BY <1>1, RawGrows
  <2>2. raw' \in [Rows -> Nat]
    BY <1>0, <1>1, TypeStep DEF TypeOK
  <2>3. Awaited' = Awaited \cup R
    <3>1. \A r \in R : raw'[r] > Since /\ Since' = Since
      BY <1>0, <1>1, RawGrows DEF Since, TypeOK, IInv, StampsOK, Past, CommitLanding
    <3> QED
      BY <2>1, <3>1, <1>1, RawGrows DEF Awaited, Since
  <2> HIDE DEF R
  <2>4. /\ \A r \in R : raw'[r] > raw[r]
        /\ \A r \in Rows \ R : raw'[r] = raw[r]
    BY <1>0, <1>1, <2>1, RawGrows DEF TypeOK, R
  <2> QED
    BY <1>n, <2>1, <2>2, <2>3, <2>4 DEF Promise!Change
<1>2. CASE CommitChunk
  <2>1. /\ UNCHANGED <<raw, tw>> /\ facts' = slice /\ tpc = "commit"
    BY <1>2 DEF CommitChunk, landing
  <2>2. Awaited' = Awaited
    BY <2>1 DEF Awaited, Since
  <2>3. Promise!Forward(facts, facts', raw)
    BY <1>0, <2>1 DEF Promise!Forward, CarryOK, TypeOK
  <2> QED
    BY <1>n, <2>1, <2>2, <2>3 DEF Promise!Ingest, Promise!Forward, Awaited
<1>3. CASE Advance
  <2>1. /\ UNCHANGED <<raw, facts>> /\ tw' = hi /\ tpc = "advance"
    BY <1>3 DEF Advance, landing, mart
  <2>2. ASSUME NEW r \in Awaited \ Awaited' PROVE facts[r] = raw[r]
    <3>1. r \in Rows /\ raw[r] # 0 /\ raw[r] <= hi
      BY <1>0, <2>1, <2>2 DEF Awaited, Since, TypeOK
    <3> QED
      BY <2>1, <3>1 DEF IInv, CopyOK, Copied
  <2> QED
    BY <1>0, <1>n, <2>1, <2>2 DEF Promise!Ingest, Promise!Forward, Promise!Settled, Awaited, TypeOK
<1>4. CASE UNCHANGED <<raw, facts, tw>>
  BY <1>n, <1>4 DEF Awaited, Since
<1> QED
  BY <1>1, <1>2, <1>3, <1>4
     DEF Next, Ingest, Derive, vars, landing, mart, run, BeginLanding, AbortLanding, Start,
         ReadMark, BeginChunk, Stop, Upsert, AffectedDays, Finish, Fail, Sigterm, Close, Crash

\* With one ingest writer a target implements the promise of a source: what its
\* next run will not select is in the fact table as it is in the raw table, and no
\* fact goes back to older content (transform/runner.py, _run).
THEOREM TargetKeepsPromise == ASSUME OneWriter PROVE Spec => Promise!Spec
<1>1. Init => OrderInv /\ CarryOK /\ Promise!Init
  <2> SUFFICES ASSUME Init PROVE OrderInv /\ CarryOK /\ Promise!Init
    OBVIOUS
  <2>1. OrderInv /\ CarryOK
    BY TypeInit DEF Init, OrderInv, InOrder, StampedOK, CarryOK
  <2>2. Promise!Init
    BY <2>1 DEF Init, Promise!Init, NoneGiven, Awaited, Since, OrderInv, InOrder, TypeOK
  <2> QED
    BY <2>1, <2>2
<1>2. OrderInv /\ CarryOK /\ [Next]_vars => OrderInv' /\ CarryOK'
  BY OrderStep, CarryStep
<1>3. IInv /\ OrderInv /\ CarryOK /\ [Next]_vars => [Promise!Next]_(Promise!vars)
  BY PromiseStep
<1>4. Spec => []IInv
  BY Invariance, OneWriterIsEnough, PTL
<1> QED
  BY <1>1, <1>2, <1>3, <1>4, PTL DEF Spec, Promise!Spec

----------------------------------------------------------------------------
(* Both halves together: a source and a target that keep the promise over  *)
(* one raw table.                                                          *)

CONSTANT Records
VARIABLES vendor, received, refused, asked, older, known,  \* source
          reported, waiting                                \* target

Source == INSTANCE SourceFeed WITH
  content <- vendor, landed <- received, given <- refused,
  due <- asked, past <- older, opened <- known

Target == INSTANCE SourceFeed WITH
  content <- received, landed <- reported, given <- [r \in Records |-> 0],
  due <- waiting, past <- {}, opened <- TRUE

\* What the vendor holds is reported as it is, or some run will still carry it
\* on, or it was refused in just that content.
Accounted ==
  \A r \in Records : vendor[r] # 0 =>
    \/ reported[r] = vendor[r] \/ refused[r] = vendor[r]
    \/ r \in asked \/ r \in older \/ r \in waiting

\* The promise composes: what neither half asks for any more has reached the
\* reporting tables, or was counted as malformed.  Both move a watermark only
\* after what it passes is committed (_advance of common/run.py and of
\* transform/runner.py).
THEOREM EndToEnd == Source!Spec /\ Target!Spec => []Accounted
<1>1. Source!Spec => []Source!Kept
  BY Source!PromiseKept
<1>2. Target!Spec => []Target!Kept
  BY Target!PromiseKept
<1>3. Source!Kept /\ Target!Kept => Accounted
  BY DEF Source!Kept, Source!Settled, Target!Kept, Target!Settled, Accounted
<1> QED
  BY <1>1, <1>2, <1>3, PTL

=============================================================================
