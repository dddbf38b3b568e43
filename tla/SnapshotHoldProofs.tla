------------------------- MODULE SnapshotHoldProofs -------------------------
(***************************************************************************)
(* Theorems about SnapshotHold, for any number of runs and landings.  The  *)
(* argument: a mark that Hold lets through has no process below it that    *)
(* could still complete, and a run that cannot complete never changes from *)
(* incomplete to complete.  What has to be known of processes is that one  *)
(* which was taken for dead does not complete (InTime); the unit's cap is  *)
(* enough for that.                                                        *)
(***************************************************************************)
EXTENDS SnapshotHold, TLAPS

\* The row was closed by a later start, or is too old to be waited for.
TakenForDead(k) == st[k] # "RUNNING" \/ age[k] = "dead"

\* Who is taken for dead does not complete.
ClosesInTime == \A k \in Runs : Complete(k) => ~ TakenForDead(k)
InTime == [][ClosesInTime]_vars

ProcsOK ==
  /\ \A k \in procs : st[k] \in {"RUNNING", "FAILED"}
  /\ \A s \in Stamps : st[owner[s]] # "none"

\* No process is left that may complete a row up to h.
Over(h) == \A s \in Stamps : s <= h /\ owner[s] \in procs => TakenForDead(owner[s])

CopiedTo(h) == \A s \in Stamps : s <= h /\ IsComplete(s) => s \in facts

RunOK ==
  /\ tw <= now /\ mark <= now
  /\ tpc # "idle" => lo = tw
  /\ tpc \in {"next", "upsert", "advance"} => Over(mark)
  /\ tpc \in {"upsert", "advance"} => lo <= hi /\ hi <= mark
  /\ tpc = "advance" => CopiedTo(hi)

IInv == /\ TypeOK /\ ProcsOK /\ RunOK /\ Over(tw) /\ CopiedTo(tw)
        /\ facts \subseteq Stamps

LEMMA TypeStep == TypeOK /\ [Next]_vars => TypeOK'
<1> SUFFICES ASSUME TypeOK, [Next]_vars PROVE TypeOK'
  OBVIOUS
<1> USE DEF TypeOK, Fault, ingest
<1>1. ASSUME NEW k \in Runs, StartIngest(k) PROVE TypeOK'
  BY <1>1 DEF StartIngest
<1>2. ASSUME NEW k \in Runs, Land(k) PROVE TypeOK'
  <2>1. /\ now' = now + 1 /\ now' \in Nat
        /\ UNCHANGED <<st, age, procs, facts, tw, tpc, lo, hi, mark, faults>>
    BY <1>2 DEF Land
  <2>2. owner' \in [1 .. now' -> Runs]
    <3>1. owner' = [s \in 1 .. now + 1 |-> IF s = now + 1 THEN k ELSE owner[s]]
      BY <1>2 DEF Land
    <3>2. \A s \in 1 .. now + 1 : s = now + 1 \/ owner[s] \in Runs
      OBVIOUS
    <3> QED
      BY <2>1, <3>1, <3>2
  <2> QED
    BY <2>1, <2>2
<1>3. ASSUME NEW k \in Runs, Complete(k) \/ StopEarly(k) \/ FailIngest(k) PROVE TypeOK'
  <2>1. PICK outcome \in {"SUCCESS", "NOTED", "FAILED"} : Close(k, outcome)
    BY <1>3 DEF Complete, StopEarly, FailIngest
  <2>2. faults' \in Nat
    BY <1>3 DEF Complete, StopEarly, FailIngest
  <2>3. /\ UNCHANGED <<now, owner, age, facts, tw, tpc, lo, hi, mark>>
        /\ procs' = procs \ {k} /\ st' = [st EXCEPT ![k] = outcome]
    BY <2>1 DEF Close
  <2> QED
    BY <2>2, <2>3
<1>4. ASSUME NEW k \in Runs, Kill(k) \/ GrowOld(k) PROVE TypeOK'
  <2>1. CASE Kill(k)
    BY <2>1 DEF Kill
  <2>2. CASE GrowOld(k)
    BY <2>2 DEF GrowOld
  <2> QED
    BY <1>4, <2>1, <2>2
<1>8. CASE Capture \/ Advance
  BY <1>8 DEF Capture, Advance
<1>9. CASE Hold \/ NextChunk
  <2>1. /\ UNCHANGED <<now, owner, st, age, procs, facts, tw, lo, faults>>
        /\ tpc' \in {"idle", "next", "upsert"}
    BY <1>9 DEF Hold, NextChunk
  <2>2. mark' \in Nat
    <3>1. mark' \in 0 .. mark \/ mark' = mark
      BY <1>9 DEF Hold, NextChunk
    <3> QED
      BY <3>1
  <2>3. hi' \in Nat
    <3>1. hi' \in lo + 1 .. mark \/ hi' = hi
      BY <1>9 DEF Hold, NextChunk
    <3> QED
      BY <3>1
  <2> QED
    BY <2>1, <2>2, <2>3
<1>5. CASE Upsert
  <2>1. /\ UNCHANGED <<now, owner, st, age, procs, tw, lo, hi, mark, faults>>
        /\ tpc' = "advance"
    BY <1>5 DEF Upsert
  <2>2. facts' \subseteq Nat
    <3>1. facts' = facts \cup {s \in Stamps : s > lo /\ s <= hi /\ IsComplete(s)}
      BY <1>5 DEF Upsert
    <3>2. Stamps \subseteq Nat
      BY DEF Stamps
    <3> QED
      BY <3>1, <3>2
  <2> QED
    BY <2>1, <2>2
<1>6. CASE EndTransform
  BY <1>6 DEF EndTransform
<1>7. CASE UNCHANGED vars
  BY <1>7 DEF vars
<1> QED
  BY <1>1, <1>2, <1>3, <1>4, <1>5, <1>6, <1>7, <1>8, <1>9 DEF Next, Transform, Ingest

LEMMA TypeInit == Init => TypeOK
  BY DEF Init, TypeOK

\* The variables have their types: the ledger of ingest runs, the stamps of
\* their landings and the transform run (common/db.py, transform/runner.py).
THEOREM TypeCorrect == Spec => []TypeOK
  BY TypeInit, TypeStep, PTL DEF Spec

----------------------------------------------------------------------------
\* Nothing of a run that did not read the whole estate is copied.  Its row
\* would have to say SUCCESS when the upsert looks and something else later,
\* so the argument is that a run is closed once: a live one has a row that
\* still says RUNNING, or FAILED when a later start took it for dead.
OpenOK ==
  /\ \A k \in procs : st[k] \in {"RUNNING", "FAILED"}
  /\ facts \subseteq Stamps
  /\ \A s \in Stamps : st[owner[s]] # "none"

LEMMA OpenStep == TypeOK /\ TypeOK' /\ OpenOK /\ OnlyComplete /\ [Next]_vars
                  => OpenOK' /\ OnlyComplete'
<1> SUFFICES ASSUME TypeOK, TypeOK', OpenOK, OnlyComplete, [Next]_vars
             PROVE  OpenOK' /\ OnlyComplete'
  OBVIOUS
<1> USE DEF OpenOK, OnlyComplete, Stamps
<1>1. ASSUME NEW k \in Runs, StartIngest(k) PROVE OpenOK' /\ OnlyComplete'
  <2>1. /\ UNCHANGED <<now, owner, facts>> /\ procs' = procs \cup {k} /\ st[k] = "none"
        /\ \A j \in Runs : st'[j] = IF j = k THEN "RUNNING"
                           ELSE IF st[j] = "RUNNING" /\ age[j] # "young" THEN "FAILED"
                           ELSE st[j]
    BY <1>1 DEF StartIngest, TypeOK
  <2>2. \A s \in Stamps : owner[s] \in Runs
    BY DEF TypeOK
  <2>3. \A s \in facts : s \in Stamps /\ owner[s] # k
    BY <2>1, <2>2
  <2>4. procs \subseteq Runs
    BY DEF TypeOK
  <2> QED
    BY <2>1, <2>2, <2>3, <2>4
<1>2. ASSUME NEW k \in Runs, Land(k) PROVE OpenOK' /\ OnlyComplete'
  <2>1. /\ now' = now + 1 /\ now \in Nat /\ k \in procs
        /\ \A s \in 1 .. now : owner'[s] = owner[s]
        /\ owner'[now + 1] = k /\ UNCHANGED <<st, procs, facts>>
    BY <1>2 DEF Land, TypeOK
  <2>2. 1 .. now' = 1 .. now \cup {now + 1}
    BY <2>1
  <2> QED
    BY <2>1, <2>2
<1>3. ASSUME NEW k \in Runs, Complete(k) \/ StopEarly(k) \/ FailIngest(k)
      PROVE  OpenOK' /\ OnlyComplete'
  <2>1. PICK outcome \in {"SUCCESS", "NOTED", "FAILED"} : Close(k, outcome)
    BY <1>3 DEF Complete, StopEarly, FailIngest
  <2>2. /\ UNCHANGED <<now, owner, facts>> /\ k \in procs /\ procs' = procs \ {k}
        /\ st' = [st EXCEPT ![k] = outcome]
    BY <2>1 DEF Close
  <2>3. \A s \in facts : s \in 1 .. now /\ owner[s] # k
    BY <2>2
  <2> QED
    BY <2>2, <2>3 DEF TypeOK
<1>4. ASSUME NEW k \in Runs, Kill(k) \/ GrowOld(k) PROVE OpenOK' /\ OnlyComplete'
  BY <1>4 DEF Kill, GrowOld
<1>5. CASE Capture \/ Hold \/ NextChunk \/ Advance \/ EndTransform \/ UNCHANGED vars
  BY <1>5 DEF Capture, Hold, NextChunk, Advance, EndTransform, ingest, vars
<1>6. CASE Upsert
  BY <1>6 DEF Upsert, ingest, IsComplete
<1> QED
  BY <1>1, <1>2, <1>3, <1>4, <1>5, <1>6 DEF Next, Transform, Ingest

\* Whatever is started by hand, killed or taken for dead, the fact table holds
\* rows of complete runs only (the upsert's EXISTS on control.ingest_run,
\* transform/targets.py).
THEOREM OnlyCompleteCopied == Spec => []OnlyComplete
<1>1. Init => TypeOK /\ OpenOK /\ OnlyComplete
  BY TypeInit DEF Init, OpenOK, OnlyComplete, Stamps
<1>2. TypeOK /\ OpenOK /\ OnlyComplete /\ [Next]_vars
      => TypeOK' /\ OpenOK' /\ OnlyComplete'
  BY TypeStep, OpenStep
<1> QED
  BY <1>1, <1>2, PTL DEF Spec

----------------------------------------------------------------------------
\* Steps of an ingest process other than landing: its rows stay where they
\* are, and a row it makes complete is above everything decided so far.
LEMMA IngestStep ==
  ASSUME IInv, TypeOK', NEW k \in Runs,
         UNCHANGED <<now, owner, facts, tw, tpc, lo, hi, mark>>,
         procs' \subseteq procs \cup {k},
         \A j \in Runs : st'[j] = "SUCCESS"
                           => st[j] = "SUCCESS" \/ (j \in procs /\ ~ TakenForDead(j)),
         \A j \in procs \cap procs' : TakenForDead(j) => TakenForDead(j)',
         k \in procs' => k \in procs \/ st[k] = "none",
         ProcsOK'
  PROVE  IInv'
<1>1. ASSUME NEW h \in Nat, Over(h) PROVE Over(h)'
  <2> SUFFICES ASSUME NEW s \in Stamps, s <= h, owner[s] \in procs'
               PROVE  TakenForDead(owner[s])'
    BY DEF Over, Stamps
  <2>1. owner[s] \in procs
    BY DEF IInv, ProcsOK
  <2> QED
    BY <1>1, <2>1 DEF Over
<1>2. ASSUME NEW h \in Nat, Over(h), CopiedTo(h) PROVE CopiedTo(h)'
  BY <1>2 DEF IInv, Over, CopiedTo, Stamps, IsComplete, TypeOK
<1>3. RunOK'
  <2>1. ASSUME Over(mark) PROVE Over(mark)'
    BY <2>1, <1>1 DEF IInv, TypeOK, Over, Stamps
  <2>2. ASSUME Over(mark), CopiedTo(hi), hi <= mark PROVE CopiedTo(hi)'
    <3>1. Over(hi)
      BY <2>2 DEF Over, IInv, TypeOK, Stamps
    <3> QED
      BY <3>1, <2>2, <1>2 DEF IInv, TypeOK, CopiedTo, Stamps
  <2> QED
    BY <2>1, <2>2 DEF IInv, RunOK
<1>4. Over(tw)' /\ CopiedTo(tw)'
  <2>1. tw \in Nat /\ Over(tw) /\ CopiedTo(tw)
    BY DEF IInv, TypeOK
  <2> QED
    BY <2>1, <1>1, <1>2 DEF Over, CopiedTo, Stamps
<1> QED
  BY <1>3, <1>4 DEF IInv, Stamps

\* A landing has the highest stamp.
LEMMA LandStep ==
  ASSUME IInv, TypeOK', NEW k \in Runs, Land(k)
  PROVE  IInv'
<1>1. /\ now' = now + 1 /\ now \in Nat
      /\ \A s \in Stamps : owner'[s] = owner[s]
      /\ owner'[now + 1] = k
      /\ k \in procs
      /\ UNCHANGED <<st, age, procs, facts, tw, tpc, lo, hi, mark>>
  BY DEF Land, Stamps, IInv, TypeOK
<1>2. \A s \in Stamps' : s \in Stamps \/ s = now + 1
  BY <1>1 DEF Stamps
<1>3. ASSUME NEW h \in Nat, h <= now, Over(h)
      PROVE  \A s \in Stamps' : s <= h /\ owner'[s] \in procs' => TakenForDead(owner[s])'
  BY <1>1, <1>2, <1>3 DEF Over, TakenForDead
<1>4. ASSUME NEW h \in Nat, h <= now, CopiedTo(h)
      PROVE  \A s \in Stamps' : s <= h /\ st'[owner'[s]] = "SUCCESS" => s \in facts'
  BY <1>1, <1>2, <1>4 DEF CopiedTo, IsComplete
<1>5. ProcsOK'
  BY <1>1, <1>2 DEF IInv, ProcsOK
<1>6. RunOK'
  <2> tw \in Nat /\ mark \in Nat /\ hi \in Nat /\ lo \in Nat /\ tw <= now /\ mark <= now
    BY DEF IInv, TypeOK, RunOK
  <2>1. tpc \in {"next", "upsert", "advance"} => Over(mark)'
    BY <1>1, <1>3 DEF IInv, RunOK, Over
  <2>2. tpc = "advance" => CopiedTo(hi)'
    BY <1>1, <1>4 DEF IInv, RunOK, CopiedTo, IsComplete
  <2> QED
    BY <1>1, <2>1, <2>2 DEF IInv, RunOK
<1>7. Over(tw)' /\ CopiedTo(tw)'
  BY <1>1, <1>3, <1>4 DEF IInv, RunOK, TypeOK, Over, CopiedTo, IsComplete
<1>8. facts' \subseteq Stamps'
  BY <1>1 DEF IInv, Stamps
<1> QED
  BY <1>5, <1>6, <1>7, <1>8 DEF IInv

\* What Hold lets through has no live process below it.
LEMMA HoldStep ==
  ASSUME IInv, TypeOK', Hold
  PROVE  IInv'
<1>1. /\ UNCHANGED <<now, owner, st, age, procs, facts, tw, lo, hi>>
      /\ tpc = "hold" /\ tpc' \in {"idle", "next"}
      /\ mark' \in 0 .. mark /\ mark \in Nat /\ lo = tw /\ mark <= now
      /\ IF Live = {} THEN mark' = mark
         ELSE mark' + 1 \in Live /\ \A s \in Live : mark' < s
  BY DEF Hold, ingest, IInv, RunOK, TypeOK
<1>2. Over(mark')
  <2> SUFFICES ASSUME NEW s \in Stamps, s <= mark', owner[s] \in procs,
                      ~ TakenForDead(owner[s])
               PROVE  FALSE
    BY DEF Over
  <2>1. s > lo
    BY <1>1 DEF IInv, Over, Stamps, TypeOK
  <2>2. s \in Live
    BY <1>1, <2>1 DEF Live, Stamps, TakenForDead
  <2> QED
    BY <1>1, <2>2 DEF Stamps
<1>3. RunOK'
  BY <1>1, <1>2 DEF IInv, RunOK, Over, TakenForDead, Stamps, TypeOK
<1>4. ProcsOK' /\ Over(tw)' /\ CopiedTo(tw)' /\ (facts \subseteq Stamps)'
  BY <1>1 DEF IInv, ProcsOK, Over, TakenForDead, CopiedTo, Stamps, IsComplete
<1> QED
  BY <1>3, <1>4 DEF IInv

LEMMA UpsertStep ==
  ASSUME IInv, TypeOK', Upsert
  PROVE  IInv'
<1>1. /\ UNCHANGED <<now, owner, st, age, procs, tw, lo, hi, mark>>
      /\ tpc = "upsert" /\ tpc' = "advance" /\ lo = tw
      /\ facts' = facts \cup {s \in Stamps : s > lo /\ s <= hi /\ IsComplete(s)}
  BY DEF Upsert, ingest, IInv, RunOK
<1>2. CopiedTo(hi)' /\ CopiedTo(tw)'
  BY <1>1 DEF IInv, CopiedTo, Stamps, IsComplete, TypeOK
<1>3. ProcsOK' /\ Over(tw)' /\ Over(mark)'
  BY <1>1 DEF IInv, RunOK, ProcsOK, Over, TakenForDead, Stamps
<1>4. (facts \subseteq Stamps)'
  BY <1>1 DEF IInv, Stamps
<1> QED
  BY <1>1, <1>2, <1>3, <1>4 DEF IInv, RunOK

LEMMA AdvanceStep ==
  ASSUME IInv, TypeOK', Advance
  PROVE  IInv'
<1>1. /\ UNCHANGED <<now, owner, st, age, procs, facts, hi, mark>>
      /\ tpc = "advance" /\ tpc' \in {"idle", "next"}
      /\ tw' = hi /\ lo' = hi
      /\ hi <= mark /\ mark <= now /\ hi \in Nat /\ mark \in Nat /\ now \in Nat
  BY DEF Advance, ingest, IInv, RunOK, TypeOK
<1>2. Over(hi) /\ CopiedTo(hi) /\ Over(mark)
  BY <1>1 DEF IInv, RunOK, Over, Stamps
<1>3. ProcsOK' /\ Over(tw)' /\ CopiedTo(tw)' /\ Over(mark)' /\ (facts \subseteq Stamps)'
  BY <1>1, <1>2 DEF IInv, ProcsOK, Over, TakenForDead, CopiedTo, Stamps, IsComplete
<1> QED
  BY <1>1, <1>3 DEF IInv, RunOK

LEMMA InvStep == IInv /\ [Next]_vars /\ [ClosesInTime]_vars => IInv'
<1> SUFFICES ASSUME IInv, [Next]_vars, [ClosesInTime]_vars PROVE IInv'
  OBVIOUS
<1>0. TypeOK'
  BY TypeStep DEF IInv
<1>1. ASSUME NEW k \in Runs, StartIngest(k) PROVE IInv'
  <2>1. /\ UNCHANGED <<now, owner, age, facts, tw, tpc, lo, hi, mark>>
        /\ procs' = procs \cup {k} /\ st[k] = "none"
        /\ \A j \in Runs : st'[j] = IF j = k THEN "RUNNING"
                           ELSE IF st[j] = "RUNNING" /\ age[j] # "young" THEN "FAILED"
                           ELSE st[j]
    BY <1>1 DEF StartIngest, IInv, TypeOK
  <2>2. ProcsOK'
    BY <2>1 DEF IInv, ProcsOK, TypeOK, Stamps
  <2>3. \A j \in procs : j \in Runs /\ j # k
    BY <2>1 DEF IInv, ProcsOK, TypeOK
  <2>4. \A j \in procs : TakenForDead(j) => TakenForDead(j)'
    BY <2>1, <2>3 DEF TakenForDead
  <2>5. \A j \in Runs : st'[j] = "SUCCESS" => st[j] = "SUCCESS"
    BY <2>1
  <2> QED
    BY <1>0, <2>1, <2>2, <2>4, <2>5, IngestStep
<1>2. ASSUME NEW k \in Runs, Land(k) PROVE IInv'
  BY <1>0, <1>2, LandStep
<1>3. ASSUME NEW k \in Runs, Complete(k) \/ StopEarly(k) \/ FailIngest(k) PROVE IInv'
  <2>1. PICK outcome \in {"SUCCESS", "NOTED", "FAILED"} :
          Close(k, outcome) /\ (outcome = "SUCCESS" => Complete(k))
    BY <1>3 DEF Complete, StopEarly, FailIngest
  <2>2. /\ UNCHANGED <<now, owner, age, facts, tw, tpc, lo, hi, mark>>
        /\ k \in procs /\ procs' = procs \ {k}
        /\ \A j \in Runs : st'[j] = IF j = k THEN outcome ELSE st[j]
    BY <2>1 DEF Close, IInv, TypeOK
  <2>3. outcome = "SUCCESS" => ~ TakenForDead(k)
    BY <2>1, <2>2 DEF ClosesInTime, vars, ingest
  <2>4. ProcsOK'
    BY <2>2 DEF IInv, ProcsOK, TypeOK, Stamps
  <2>5. \A j \in procs' : TakenForDead(j) => TakenForDead(j)'
    BY <2>2 DEF TakenForDead, IInv, TypeOK
  <2>6. \A j \in Runs : st'[j] = "SUCCESS"
                           => st[j] = "SUCCESS" \/ (j \in procs /\ ~ TakenForDead(j))
    BY <2>2, <2>3
  <2> QED
    BY <1>0, <2>2, <2>4, <2>5, <2>6, IngestStep
<1>4. ASSUME NEW k \in Runs, Kill(k) \/ GrowOld(k) PROVE IInv'
  <2>1. /\ UNCHANGED <<now, owner, st, facts, tw, tpc, lo, hi, mark>>
        /\ procs' \subseteq procs
        /\ \A j \in Runs : age[j] = "dead" => age'[j] = "dead"
    BY <1>4 DEF Kill, GrowOld, IInv, TypeOK
  <2>2. ProcsOK'
    BY <2>1 DEF IInv, ProcsOK, TypeOK, Stamps
  <2>3. \A j \in procs' : TakenForDead(j) => TakenForDead(j)'
    BY <2>1 DEF TakenForDead, IInv, TypeOK
  <2> QED
    BY <1>0, <2>1, <2>2, <2>3, IngestStep
<1>6. CASE Capture \/ NextChunk \/ EndTransform \/ UNCHANGED vars
  <2>1. /\ UNCHANGED <<now, owner, st, age, procs, facts, tw>>
        /\ ProcsOK' /\ Over(tw)' /\ CopiedTo(tw)' /\ (facts \subseteq Stamps)'
    BY <1>6 DEF Capture, NextChunk, EndTransform, vars, ingest,
                IInv, ProcsOK, Over, TakenForDead, CopiedTo, Stamps, IsComplete
  <2>2. CASE Capture
    BY <1>0, <2>1, <2>2 DEF Capture, IInv, RunOK, TypeOK
  <2>3. CASE NextChunk
    BY <1>0, <2>1, <2>3 DEF NextChunk, IInv, RunOK, TypeOK, Over, TakenForDead, Stamps, ingest
  <2>4. CASE EndTransform
    BY <1>0, <2>1, <2>4 DEF EndTransform, IInv, RunOK
  <2>5. CASE UNCHANGED vars
    BY <1>0, <2>1, <2>5 DEF vars, IInv, RunOK, Over, TakenForDead, CopiedTo, Stamps, IsComplete
  <2> QED
    BY <1>6, <2>2, <2>3, <2>4, <2>5
<1>7. CASE Hold \/ Upsert \/ Advance
  BY <1>0, <1>7, HoldStep, UpsertStep, AdvanceStep
<1> QED
  BY <1>1, <1>2, <1>3, <1>4, <1>6, <1>7 DEF Next, Ingest, Transform

LEMMA InvInit == Init => IInv
<1> SUFFICES ASSUME Init PROVE IInv
  OBVIOUS
<1>1. TypeOK
  BY DEF Init, TypeOK
<1> QED
  BY <1>1 DEF Init, IInv, ProcsOK, RunOK, Over, CopiedTo, Stamps

\* Whatever is started by hand and however many ingest processes overlap, if none
\* completes after it was taken for dead, no complete snapshot is below the
\* watermark without being in the fact table (transform/runner.py,
\* _hold_for_running_ingest).
THEOREM NoCompleteSnapshotLost == Spec /\ InTime => []NoSnapshotLost
<1>1. IInv => NoSnapshotLost
  BY DEF IInv, CopiedTo, NoSnapshotLost
<1> QED
  BY InvInit, InvStep, <1>1, PTL DEF Spec, InTime

\* Under a cap a process does not live to see its row grow old.
CapOK ==
  /\ \A k \in procs : st[k] = "RUNNING" /\ age[k] = "young"
  /\ \A k \in Runs : st[k] = "none" => age[k] = "young"

LEMMA CapStep == ASSUME ~ HandRuns PROVE TypeOK /\ CapOK /\ [Next]_vars => CapOK'
<1> SUFFICES ASSUME TypeOK, CapOK, [Next]_vars PROVE CapOK'
  OBVIOUS
<1> USE DEF CapOK, TypeOK
<1>1. ASSUME NEW k \in Runs, StartIngest(k) PROVE CapOK'
  BY <1>1 DEF StartIngest
<1>2. ASSUME NEW k \in Runs, Land(k) \/ Kill(k) \/ GrowOld(k) PROVE CapOK'
  BY <1>2 DEF Land, Kill, GrowOld
<1>3. ASSUME NEW k \in Runs, Complete(k) \/ StopEarly(k) \/ FailIngest(k) PROVE CapOK'
  <2>1. PICK outcome \in {"SUCCESS", "NOTED", "FAILED"} : Close(k, outcome)
    BY <1>3 DEF Complete, StopEarly, FailIngest
  <2> QED
    BY <2>1 DEF Close
<1>4. CASE UNCHANGED ingest
  BY <1>4 DEF ingest
<1> QED
  BY <1>1, <1>2, <1>3, <1>4 DEF Next, Ingest, Transform, vars, Capture, Hold, NextChunk,
     Upsert, Advance, EndTransform

\* The unit's cap is enough: a run under systemd ends, one way or another, before
\* its row counts as dead (common/run.py, _reap_after; transform/runner.py,
\* REAP_AFTER_SEC).
THEOREM CapIsEnough == ASSUME ~ HandRuns PROVE Spec => InTime
<1>1. Init => CapOK
  BY DEF Init, CapOK
<1>2. CapOK => [ClosesInTime]_vars
  BY DEF CapOK, ClosesInTime, Complete, Close, TakenForDead
<1> QED
  BY <1>1, <1>2, CapStep, TypeCorrect, PTL DEF Spec, InTime

=============================================================================
