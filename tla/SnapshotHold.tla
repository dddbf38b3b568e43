---------------------------- MODULE SnapshotHold ----------------------------
(***************************************************************************)
(* A snapshot source and the complete_runs_only target that copies it:     *)
(* every ingest run lands one picture of the estate in several commits,    *)
(* and a transform that runs meanwhile may neither copy a run that is not  *)
(* known to be complete nor let its watermark pass one that may still      *)
(* complete (_hold_for_running_ingest in transform/runner.py).             *)
(*                                                                         *)
(* Every landing commit has a stamp of its own; a stamp stands for the     *)
(* rows that carry it.  The sizes of chunks are left open: a chunk may end *)
(* at any stamp of the slice.                                              *)
(***************************************************************************)
EXTENDS Integers, FiniteSets

CONSTANTS
  Runs,       \* ingest runs of the source
  Landings,   \* commits in which a run lands its snapshot
  HandRuns,   \* runs may be started by hand, without the unit's cap
  MaxFaults   \* bound: kills and failures

ASSUME RunsAssumption == IsFiniteSet(Runs) /\ Landings \in Nat \ {0}
ASSUME HandAssumption == HandRuns \in BOOLEAN /\ MaxFaults \in Nat

VARIABLES
  now,     \* stamp of the latest landing
  owner,   \* per stamp given out: the run whose rows carry it
  st,      \* control.ingest_run: status per run; NOTED is SUCCESS with a note
  age,     \* per RUNNING row: below the unit's cap, past it, past REAP_AFTER_SEC
  procs,   \* runs with a live process
  facts,   \* stamps whose rows are in the fact table
  tw,      \* the transform's watermark (0: NULL)
  tpc, lo, hi, mark,   \* the transform run
  faults

ingest == <<now, owner, st, age, procs>>
vars   == <<ingest, facts, tw, tpc, lo, hi, mark, faults>>

Fault == faults < MaxFaults /\ faults' = faults + 1

Stamps == 1 .. now
Landed(k) == {s \in Stamps : owner[s] = k}
Incomplete(k) == Cardinality(Landed(k)) < Landings

----------------------------------------------------------------------------
Init ==
  /\ now = 0 /\ owner = << >>
  /\ st = [k \in Runs |-> "none"] /\ age = [k \in Runs |-> "young"]
  /\ procs = {} /\ facts = {} /\ faults = 0
  /\ tw = 0 /\ tpc = "idle" /\ lo = 0 /\ hi = 0 /\ mark = 0

\* A run reaps the rows past the cap and opens its own.  systemd keeps one
\* process per unit; a hand-run is outside of that.
StartIngest(k) ==
  /\ st[k] = "none" /\ (procs = {} \/ HandRuns)
  /\ procs' = procs \cup {k}
  /\ st' = [j \in Runs |-> IF j = k THEN "RUNNING"
                           ELSE IF st[j] = "RUNNING" /\ age[j] # "young" THEN "FAILED"
                           ELSE st[j]]
  /\ UNCHANGED <<now, owner, age, facts, tw, tpc, lo, hi, mark, faults>>

\* Mutation: rows land without their run's id.
LandUnowned(k) ==
  /\ k \in procs /\ Incomplete(k)
  /\ now' = now + 1
  /\ UNCHANGED <<owner, st, age, procs, facts, tw, tpc, lo, hi, mark, faults>>

Land(k) ==
  /\ k \in procs /\ Incomplete(k)
  /\ now' = now + 1
  /\ owner' = [s \in 1 .. now + 1 |-> IF s = now + 1 THEN k ELSE owner[s]]
  /\ UNCHANGED <<st, age, procs, facts, tw, tpc, lo, hi, mark, faults>>

\* finish_run writes the outcome whatever the row says by then.
Close(k, outcome) ==
  /\ k \in procs
  /\ procs' = procs \ {k}
  /\ st' = [st EXCEPT ![k] = outcome]
  /\ UNCHANGED <<now, owner, age, facts, tw, tpc, lo, hi, mark>>

Complete(k) == ~ Incomplete(k) /\ Close(k, "SUCCESS") /\ UNCHANGED faults
StopEarly(k) == Close(k, "NOTED") /\ Fault
FailIngest(k) == Close(k, "FAILED") /\ Fault

Kill(k) ==
  /\ k \in procs
  /\ Fault
  /\ procs' = procs \ {k}
  /\ UNCHANGED <<now, owner, st, age, facts, tw, tpc, lo, hi, mark>>

\* Only a process the cap does not apply to lives to see its row grow old.
GrowOld(k) ==
  /\ st[k] = "RUNNING" /\ (k \notin procs \/ HandRuns)
  /\ \/ age[k] = "young" /\ age' = [age EXCEPT ![k] = "capped"]
     \/ age[k] = "capped" /\ age' = [age EXCEPT ![k] = "dead"]
  /\ UNCHANGED <<now, owner, st, procs, facts, tw, tpc, lo, hi, mark, faults>>

----------------------------------------------------------------------------
(* The transform.                                                          *)

Capture ==
  /\ tpc = "idle"
  /\ mark' = now /\ lo' = tw
  /\ tpc' = "hold"
  /\ UNCHANGED <<ingest, facts, tw, hi, faults>>

\* Mutation: no run holds the mark back.
LiveNone == {}

\* Mutation: a run holds the mark back until its row is closed.
LiveForever == {s \in Stamps : s > lo /\ s <= mark /\ st[owner[s]] = "RUNNING"}

\* Rows of the slice whose run may still complete.
Live == {s \in Stamps : /\ s > lo /\ s <= mark
                        /\ st[owner[s]] = "RUNNING" /\ age[owner[s]] # "dead"}

\* The mark moves below the first such row; with nothing left above the
\* watermark there is nothing to do.
Hold ==
  /\ tpc = "hold"
  /\ mark' \in 0 .. mark
  /\ IF Live = {} THEN mark' = mark
     ELSE mark' + 1 \in Live /\ \A s \in Live : mark' < s
  /\ tpc' = IF mark' <= lo THEN "idle" ELSE "next"
  /\ UNCHANGED <<ingest, facts, tw, lo, hi, faults>>

NextChunk ==
  /\ tpc = "next"
  /\ hi' \in lo + 1 .. mark
  /\ tpc' = "upsert"
  /\ UNCHANGED <<ingest, facts, tw, lo, mark, faults>>

\* Mutation: the note of an incomplete run is not looked at.
CompleteAnyNote(s) == st[owner[s]] \in {"SUCCESS", "NOTED"}

\* The upsert's EXISTS on control.ingest_run.
IsComplete(s) == st[owner[s]] = "SUCCESS"

Upsert ==
  /\ tpc = "upsert"
  /\ facts' = facts \cup {s \in Stamps : s > lo /\ s <= hi /\ IsComplete(s)}
  /\ tpc' = "advance"
  /\ UNCHANGED <<ingest, tw, lo, hi, mark, faults>>

Advance ==
  /\ tpc = "advance"
  /\ tw' = hi /\ lo' = hi
  /\ tpc' = IF hi >= mark THEN "idle" ELSE "next"
  /\ UNCHANGED <<ingest, facts, hi, mark, faults>>

\* A stop, a failure or a kill: what was committed stays.
EndTransform ==
  /\ tpc # "idle"
  /\ Fault
  /\ tpc' = "idle"
  /\ UNCHANGED <<ingest, facts, tw, lo, hi, mark>>

Transform == Capture \/ Hold \/ NextChunk \/ Upsert \/ Advance

Ingest(k) == StartIngest(k) \/ Land(k) \/ Complete(k)

Next ==
  \/ \E k \in Runs : \/ Ingest(k) \/ StopEarly(k) \/ FailIngest(k)
                     \/ Kill(k) \/ GrowOld(k)
  \/ Transform
  \/ EndTransform

Spec == Init /\ [][Next]_vars

\* The transform's timer keeps firing, a live ingest run gets on, and the row
\* of a dead one grows old.  No run has to be started.
FairSpec == /\ Spec
            /\ WF_vars(Transform)
            /\ \A k \in Runs : WF_vars(Land(k) \/ Complete(k)) /\ WF_vars(GrowOld(k))

----------------------------------------------------------------------------
(* Properties.                                                             *)

\* Types of the variables.
TypeOK ==
  /\ now \in Nat /\ owner \in [1 .. now -> Runs]
  /\ st \in [Runs -> {"none", "RUNNING", "SUCCESS", "NOTED", "FAILED"}]
  /\ age \in [Runs -> {"young", "capped", "dead"}]
  /\ procs \subseteq Runs /\ facts \subseteq Nat
  /\ tw \in Nat /\ lo \in Nat /\ hi \in Nat /\ mark \in Nat /\ faults \in Nat
  /\ tpc \in {"idle", "hold", "next", "upsert", "advance"}

\* No complete snapshot is lost.  Rows the watermark has passed are never
\* looked at again, so a run whose rows it passed has been copied if it is
\* complete, whenever it completed ("once the watermark passed them they would
\* never be looked at again -- the snapshot would be lost when it completed").
NoSnapshotLost == \A s \in Stamps : s <= tw /\ IsComplete(s) => s \in facts

\* Nothing is copied of a run that did not read the whole estate.
OnlyComplete == \A s \in facts : st[owner[s]] = "SUCCESS"

\* Every complete snapshot reaches the fact table: a run that is killed holds
\* the ones after it back only until its row is past REAP_AFTER_SEC.
EveryCompleteCopied ==
  \A k \in Runs : st[k] = "SUCCESS" ~> Landed(k) \subseteq facts

=============================================================================
