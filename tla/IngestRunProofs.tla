-------------------------- MODULE IngestRunProofs --------------------------
(***************************************************************************)
(* Proofs about IngestRun, for every set of records and every value of its *)
(* constants.  NothingSkipped is not inductive: what makes advancing the   *)
(* watermark safe is what the run knows of every record while it scans.    *)
(* IInv says it: a record this run has carried is still the vendor's       *)
(* current content unless it changed after the scan began, in which case   *)
(* its mark is past everything the run can persist (CopyOK); an ordered    *)
(* source has left nothing behind below the highest mark taken (OrderOK),  *)
(* which is the mark it persists (MarkOK); and a run neither stopped nor   *)
(* partial has left nothing behind at all, unless it is ordered and some   *)
(* of what it had read departed (DoneOK).                                  *)
(* RunClock, with Retries, is instantiated here: its theorems are about    *)
(* when the one worker of IngestRun stops and is reaped.                   *)
(***************************************************************************)
EXTENDS IngestRun, FiniteSetTheorems, TLAPS

CONSTANTS Attempts, BaseDelay, MaxDelay, Poll, CallMax           \* RunClock
VARIABLES phase, attempt, remaining, spent, stopping, late       \* RunClock

\* The variable called at there is called phase here.
Clock == INSTANCE RunClock WITH at <- phase

InScan == pc \in {"scan", "flush", "mark"}
Active == InScan \/ pc = "finish"

\* A record the vendor holds and this run's query does not filter out.
Asked(r) == vmark[r] # NoMark /\ ~ Filtered(vmark[r], cursor)

\* The vendor's clock bounds every mark and what the run vouches for.
ClockOK ==
  /\ Skew <= clock
  /\ wm <= Vouched
  /\ \A r \in Records : vmark[r] <= clock /\ raw[r] <= ver[r] /\ rej[r] <= ver[r]
  /\ Active => bound <= Vouched
  /\ InScan => cursor = wm /\ cursor <= bound

\* Nothing is carried over from an earlier run.
FreshOK ==
  pc = "open" => /\ high = NoMark /\ nrej = 0 /\ ~ stop /\ ~ partial
                 /\ \A r \in Records : at[r] = "vendor"

\* What the run holds of a record it has carried.
Held(r) ==
  /\ copy[r].mark # NoMark /\ copy[r].mark <= vmark[r] /\ copy[r].ver <= ver[r]
  /\ ~ Filtered(copy[r].mark, cursor)
  /\ Ordered => copy[r].mark <= bound
  /\ Settled(vmark[r]) => copy[r].mark = vmark[r] /\ copy[r].ver = ver[r]
  /\ at[r] \in {"page", "batch"} => raw[r] <= copy[r].ver
  /\ at[r] = "landed" => raw[r] = copy[r].ver
  /\ at[r] = "rejected" => rej[r] = copy[r].ver

CopyOK == Active => \A r \in Records : at[r] # "vendor" => Held(r)

\* The highest mark is one of the window's.
HighOK ==
  Active /\ high # NoMark => ~ Filtered(high, cursor) /\ (Ordered => high <= bound)

\* An ordered source leaves nothing behind below what it has yielded.
OrderOK ==
  Active /\ Ordered =>
    \A r \in Records :
      /\ at[r] = "vendor" /\ Asked(r) =>
           /\ high <= vmark[r]
           /\ \A s \in Records : at[s] = "page" => copy[s].mark <= vmark[r]
      /\ at[r] = "page" => high <= copy[r].mark

\* The next run of an ordered source starts where this one ended.
MarkOK == pc = "finish" /\ Ordered => wm = IF high = NoMark THEN cursor ELSE high

\* A run that was neither stopped nor partial has left nothing behind, or as
\* much as departed.
DoneOK ==
  /\ pc \in {"flush", "mark", "finish"} /\ ~ stop /\ ~ partial =>
       \A r \in Records :
         Asked(r) /\ Settled(vmark[r]) =>
           /\ at[r] # "page"
           /\ at[r] # "vendor" \/ (Ordered /\ Departed # {})
  /\ pc \in {"mark", "finish"} => \A r \in Records : at[r] # "batch"
  /\ Active /\ nrej = 0 => \A r \in Records : at[r] # "rejected"

IInv == /\ TypeOK /\ ClockOK /\ FreshOK /\ CopyOK /\ HighOK /\ OrderOK /\ MarkOK
        /\ DoneOK /\ NothingSkipped

----------------------------------------------------------------------------
(* Types.                                                                  *)

LEMMA TypeInit == Init => TypeOK
<1> SUFFICES ASSUME Init PROVE TypeOK
  OBVIOUS
<1>1. FlagsOK
  BY DEF Init, FlagsOK
<1>2. QED
  BY <1>1, SizeAssumption, ClockAssumption DEF Init, TypeOK, Marks, NoMark

LEMMA FlagsStep == FlagsOK /\ [Next]_vars => FlagsOK'
<1> SUFFICES ASSUME FlagsOK, [Next]_vars PROVE FlagsOK'
  OBVIOUS
<1> USE DEF FlagsOK
<1>1. CASE StartRun
  BY <1>1, Zenon DEF StartRun
<1>2. CASE Consume
  BY <1>2, Zenon DEF Consume, Take, Reject, ledger
<1>3. CASE StopInFetch \/ ReportPartial
  BY <1>3, Zenon DEF StopInFetch, ReportPartial, ledger
<1>4. CASE Finish
  BY <1>4, Zenon DEF Finish, run
<1>5. CASE UNCHANGED <<noted, stop, partial>>
  BY <1>5, Zenon
<1> QED
  BY <1>1, <1>2, <1>3, <1>4, <1>5
     DEF Next, vars, Change, Tick, Age, Reap, ReadCursor, Fetch, FetchPage,
         ScanEnd, LandRest, SetMark, Fail, RecordFailure, Crash, ledger, run

\* The clock a run reads stands at the skew or later, so what it vouches for
\* is a mark.
LEMMA VouchedType == TypeOK /\ ClockOK => Vouched \in Nat /\ Vouched <= clock
BY ClockAssumption, SizeAssumption DEF TypeOK, ClockOK, Vouched

LEMMA TypeStep == TypeOK /\ ClockOK /\ [Next]_vars => TypeOK'
<1> SUFFICES ASSUME TypeOK, ClockOK, [Next]_vars PROVE TypeOK'
  OBVIOUS
<1> FlagsOK'
  BY FlagsStep DEF TypeOK
<1> USE DEF TypeOK, Marks, NoMark
<1>1. CASE \E r \in Records : Change(r)
  BY <1>1 DEF Change, ledger, table, run, ghost
<1>2. CASE Tick \/ Age
  BY <1>2 DEF Tick, Age, vendor, ledger, table, run, ghost
<1>3. CASE Reap \/ StartRun \/ ScanEnd
  BY <1>3 DEF Reap, StartRun, ScanEnd, Fault, vendor, ledger, table, run, ghost
<1>4. CASE ReadCursor
  BY <1>4, VouchedType, SizeAssumption, ClockAssumption
     DEF ReadCursor, vendor, ledger, table
<1>5. CASE Fetch
  BY <1>5 DEF Fetch, FetchPage, vendor, ledger, table, ghost
<1>6. CASE Consume
  <2> PICK r \in Records : Take(r) \/ Reject(r)
    BY <1>6 DEF Consume
  <2>1. CASE Take(r)
    <3>1. copy[r].mark \in Nat \cup {-1} /\ high' \in Nat \cup {-1}
      BY <2>1 DEF Take, Newer
    <3>2. at' \in [Records -> {"vendor", "page", "batch", "landed", "rejected"}]
      BY <2>1 DEF Take, Land
    <3>3. raw' \in [Records -> Nat]
      BY <2>1 DEF Take, Land
    <3> QED
      BY <2>1, <3>1, <3>2, <3>3 DEF Take, Fault, vendor, ledger, ghost
  <2>2. CASE Reject(r)
    BY <2>2 DEF Reject, Fault, vendor, ledger, table
  <2> QED
    BY <2>1, <2>2
<1>7. CASE StopInFetch \/ ReportPartial
  BY <1>7 DEF StopInFetch, ReportPartial, Fault, vendor, ledger, table, ghost
<1>8. CASE LandRest
  BY <1>8 DEF LandRest, Land, vendor, ledger, ghost
<1>9. CASE SetMark
  BY <1>9 DEF SetMark, Capped, vendor, ledger, run, ghost
<1>10. CASE Finish \/ Fail \/ RecordFailure \/ Crash
  BY <1>10 DEF Finish, Fail, RecordFailure, Crash, Fault,
               vendor, ledger, table, run, ghost
<1>11. CASE UNCHANGED vars
  BY <1>11 DEF vars, vendor, ledger, table, run, ghost
<1> QED
  BY <1>1, <1>2, <1>3, <1>4, <1>5, <1>6, <1>7, <1>8, <1>9, <1>10, <1>11 DEF Next

----------------------------------------------------------------------------
(* What the query filters out.                                             *)

\* A query that leaves a mark in leaves in every later mark.
LEMMA FilteredDown ==
  ASSUME NEW m \in Int, NEW n \in Int, NEW c \in Int, m <= n, TypeOK,
         Filtered(n, c)
  PROVE  Filtered(m, c)
BY SizeAssumption DEF TypeOK, Filtered, NoMark

\* A change made now is one that a later run asks for, and one that cannot
\* pass for what a scan already under way has read.
LEMMA ChangeIsAhead ==
  ASSUME TypeOK, ClockOK
  PROVE  /\ wm # NoMark => ~ Filtered(clock, wm)
         /\ Active => ~ Settled(clock)
BY SizeAssumption, ClockAssumption
   DEF TypeOK, ClockOK, Filtered, Settled, Vouched, NoMark, Marks

----------------------------------------------------------------------------
(* The invariant is kept by every action.                                  *)

LEMMA InvInit == Init => IInv
<1> SUFFICES ASSUME Init PROVE IInv
  OBVIOUS
<1>1. TypeOK
  BY TypeInit
<1>2. ClockOK
  BY SizeAssumption, ClockAssumption
     DEF Init, ClockOK, Vouched, Active, InScan, NoMark
<1>3. FreshOK /\ CopyOK /\ HighOK /\ OrderOK /\ MarkOK /\ DoneOK /\ NothingSkipped
  BY DEF Init, FreshOK, CopyOK, HighOK, OrderOK, MarkOK, DoneOK, NothingSkipped,
         Active, InScan
<1> QED
  BY <1>1, <1>2, <1>3 DEF IInv

LEMMA ChangeStep ==
  ASSUME IInv, TypeOK', NEW r \in Records, Change(r)
  PROVE  IInv'
<1> USE DEF IInv
<1>1. /\ vmark'[r] = clock /\ ver'[r] = ver[r] + 1
      /\ \A s \in Records \ {r} : vmark'[s] = vmark[s] /\ ver'[s] = ver[s]
  BY DEF Change, TypeOK
<1>2. UNCHANGED <<clock, ledger, table, run, ghost, pc>>
  BY DEF Change
<1> USE DEF ledger, table, run, ghost
<1>3. /\ wm # NoMark => ~ Filtered(clock, wm)
      /\ Active => ~ Settled(clock)
  BY ChangeIsAhead
<1>4. ClockOK'
  BY <1>1, <1>2 DEF ClockOK, TypeOK, Vouched, Active, InScan, Marks, NoMark
<1>5. FreshOK'
  BY <1>2 DEF FreshOK
<1>6. CopyOK'
  <2> SUFFICES ASSUME Active, NEW s \in Records, at[s] # "vendor"
               PROVE  Held(s)'
    BY <1>2 DEF CopyOK, Active, InScan
  <2>1. Held(s)
    BY DEF CopyOK
  <2>2. CASE s = r
    BY <2>1, <2>2, <1>1, <1>2, <1>3
       DEF Held, TypeOK, ClockOK, Settled, Filtered, Marks, NoMark
  <2>3. CASE s # r
    BY <2>1, <2>3, <1>1, <1>2 DEF Held, Settled, Filtered
  <2> QED
    BY <2>2, <2>3
<1>7. HighOK'
  BY <1>2 DEF HighOK, Active, InScan, Filtered
<1>8. OrderOK'
  <2> SUFFICES ASSUME Active, Ordered, NEW s \in Records
               PROVE  /\ at[s] = "vendor" /\ Asked(s)' =>
                           /\ high <= vmark'[s]
                           /\ \A q \in Records : at[q] = "page" =>
                                copy[q].mark <= vmark'[s]
                      /\ at[s] = "page" => high <= copy[s].mark
    BY <1>2 DEF OrderOK, Active, InScan
  <2>1. bound <= clock /\ high <= bound
    BY ClockAssumption DEF ClockOK, Vouched, HighOK, TypeOK, NoMark, Marks
  <2>2. \A q \in Records : at[q] = "page" => copy[q].mark <= bound
    BY DEF CopyOK, Held
  <2>3. CASE s = r
    BY <2>1, <2>2, <2>3, <1>1 DEF OrderOK, TypeOK, Marks, NoMark
  <2>4. CASE s # r
    BY <2>4, <1>1, <1>2 DEF OrderOK, Asked, Filtered
  <2> QED
    BY <2>3, <2>4
<1>9. DoneOK'
  <2>1. Active /\ Departed # {} => Departed' # {}
    <3> SUFFICES ASSUME Active, NEW s \in Departed PROVE s \in Departed'
      OBVIOUS
    <3>1. s \in Records /\ at[s] # "vendor" /\ vmark[s] > bound /\ vmark[s] <= clock
      BY DEF Departed, ClockOK
    <3>2. vmark'[s] > bound
      BY <3>1, <1>1 DEF TypeOK, Marks, NoMark
    <3> QED
      BY <3>1, <3>2, <1>2 DEF Departed
  <2> QED
    BY <2>1, <1>1, <1>2, <1>3 DEF DoneOK, Asked, Settled, Filtered, Active, InScan
<1>10. NothingSkipped'
  BY <1>1, <1>2, <1>3 DEF NothingSkipped, Accounted, Filtered
<1>11. MarkOK'
  BY <1>2 DEF MarkOK
<1> QED
  BY <1>4, <1>5, <1>6, <1>7, <1>8, <1>9, <1>10, <1>11

\* Time passing, the ledger's own steps and the ways out of a run touch
\* nothing that the invariant ties together.
LEMMA QuietStep ==
  ASSUME IInv, TypeOK',
         \/ Tick \/ Age \/ Reap \/ Finish \/ Fail \/ RecordFailure \/ Crash
         \/ UNCHANGED vars
  PROVE  IInv'
<1> USE DEF IInv
<1>1. /\ UNCHANGED <<vmark, ver, table, run, ghost>>
      /\ clock' \in {clock, clock + 1}
      /\ pc' \in {pc, "idle", "ready", "failing"}
  BY DEF Tick, Age, Reap, Finish, Fail, RecordFailure, Crash, vars, vendor
<1> USE DEF table, run, ghost
<1>2. ClockOK'
  <2>1. Vouched \in Int /\ Vouched' \in Int /\ Vouched <= Vouched' /\ clock <= clock'
    <3>1. CASE clock' = clock
      BY <3>1, ClockAssumption DEF TypeOK, Vouched
    <3>2. CASE clock' = clock + 1
      <4>1. Vouched' = Vouched + 1 /\ Vouched \in Int
        BY <3>2, ClockAssumption DEF TypeOK, Vouched
      <4> QED
        BY <3>2, <4>1 DEF TypeOK
    <3> QED
      BY <1>1, <3>1, <3>2
  <2>2. \A r \in Records : vmark[r] \in Int
    BY DEF TypeOK, Marks, NoMark
  <2>3. Skew <= clock' /\ wm <= Vouched' /\ \A r \in Records : vmark[r] <= clock'
    BY <2>1, <2>2, ClockAssumption DEF ClockOK, TypeOK, Marks, NoMark
  <2>4. (Active' => Active) /\ (InScan' => InScan)
    BY <1>1 DEF Active, InScan
  <2>5. Active' => bound <= Vouched'
    <3>1. bound \in Int
      BY DEF TypeOK
    <3>2. Active => bound <= Vouched
      BY DEF ClockOK
    <3> QED
      BY <2>1, <2>4, <3>1, <3>2
  <2> QED
    BY <1>1, <2>3, <2>4, <2>5 DEF ClockOK, Active, InScan
<1>3. FreshOK' /\ HighOK'
  BY <1>1 DEF FreshOK, HighOK, Active, InScan, Filtered
<1>4. CopyOK'
  BY <1>1 DEF CopyOK, Held, Active, InScan, Filtered, Settled
<1>5. OrderOK'
  BY <1>1 DEF OrderOK, Asked, Active, InScan, Filtered
<1>6. MarkOK' /\ DoneOK'
  BY <1>1 DEF MarkOK, DoneOK, Departed, Asked, Active, InScan, Filtered, Settled
<1>7. NothingSkipped'
  BY <1>1 DEF NothingSkipped, Accounted, Filtered
<1> QED
  BY <1>2, <1>3, <1>4, <1>5, <1>6, <1>7

LEMMA StartRunStep ==
  ASSUME IInv, TypeOK', StartRun
  PROVE  IInv'
<1> USE DEF IInv, StartRun, vendor, table, ghost
<1>1. ~ Active'
  BY DEF Active, InScan
<1>2. ClockOK'
  BY <1>1 DEF ClockOK, Vouched, Active, InScan
<1>3. FreshOK'
  BY DEF FreshOK
<1>4. CopyOK' /\ HighOK' /\ OrderOK' /\ MarkOK' /\ DoneOK'
  BY <1>1 DEF CopyOK, HighOK, OrderOK, MarkOK, DoneOK, Active, InScan
<1>5. NothingSkipped'
  BY DEF NothingSkipped, Accounted, Filtered
<1> QED
  BY <1>2, <1>3, <1>4, <1>5

LEMMA ReadCursorStep ==
  ASSUME IInv, TypeOK', ReadCursor
  PROVE  IInv'
<1> USE DEF IInv
<1>1. /\ pc = "open" /\ pc' = "scan"
      /\ cursor' = wm /\ bound' = Vouched /\ (wm # NoMark => base' = base)
      /\ UNCHANGED <<clock, vmark, ver, raw, wm, at, copy, high, nrej, stop,
                     partial, rej>>
  BY DEF ReadCursor, vendor, table
<1>2. \A r \in Records : at'[r] = "vendor"
  BY <1>1 DEF FreshOK
<1>3. high' = NoMark /\ nrej' = 0
  BY <1>1 DEF FreshOK
<1>4. ClockOK'
  BY <1>1, VouchedType, ClockAssumption
     DEF ClockOK, TypeOK, Vouched, Active, InScan
<1>5. FreshOK' /\ CopyOK' /\ HighOK' /\ MarkOK' /\ DoneOK'
  BY <1>1, <1>2, <1>3 DEF FreshOK, CopyOK, HighOK, MarkOK, DoneOK
<1>6. OrderOK'
  BY <1>2, <1>3 DEF OrderOK, Asked, TypeOK, NoMark, Marks
<1>7. NothingSkipped'
  BY <1>1 DEF NothingSkipped, Accounted, Filtered, NoMark
<1> QED
  BY <1>4, <1>5, <1>6, <1>7

LEMMA FetchStep ==
  ASSUME IInv, TypeOK', NEW page \in SUBSET Awaiting, FetchPage(page)
  PROVE  IInv'
<1> USE DEF IInv
<1>1. /\ pc = "scan"
      /\ UNCHANGED <<vendor, ledger, table, cursor, bound, high, nrej, stop,
                     partial, ghost, pc>>
  BY DEF FetchPage
<1> USE DEF vendor, table, ghost
<1>2. \A r \in page : /\ at[r] = "vendor" /\ Asked(r) /\ (Ordered => vmark[r] <= bound)
                      /\ at'[r] = "page"
                      /\ copy'[r].mark = vmark[r] /\ copy'[r].ver = ver[r]
  BY DEF FetchPage, Awaiting, Carried, InWindow, Asked, TypeOK
<1>3. \A r \in Records \ page : at'[r] = at[r] /\ copy'[r] = copy[r] /\ at'[r] # "page"
  BY DEF FetchPage, Carried, TypeOK
<1>4. ClockOK' /\ FreshOK' /\ HighOK'
  BY <1>1 DEF ClockOK, FreshOK, HighOK, Vouched, Active, InScan, Filtered
<1>5. CopyOK'
  <2> SUFFICES ASSUME NEW s \in Records, at'[s] # "vendor" PROVE Held(s)'
    BY DEF CopyOK
  <2>1. CASE s \in page
    BY <2>1, <1>1, <1>2
       DEF Held, Asked, ClockOK, TypeOK, Filtered, Settled, Marks, NoMark
  <2>2. CASE s \notin page
    BY <2>2, <1>1, <1>3 DEF CopyOK, Held, Active, InScan, Filtered, Settled
  <2> QED
    BY <2>1, <2>2
<1>6. OrderOK'
  <2> SUFFICES ASSUME Ordered, NEW s \in Records
               PROVE  /\ at'[s] = "vendor" /\ Asked(s)' =>
                           /\ high <= vmark[s]
                           /\ \A q \in Records : at'[q] = "page" =>
                                copy'[q].mark <= vmark[s]
                      /\ at'[s] = "page" => high <= copy'[s].mark
    BY <1>1 DEF OrderOK
  <2>1. ASSUME at'[s] = "vendor", Asked(s)' PROVE high <= vmark[s]
    BY <2>1, <1>1, <1>2, <1>3 DEF OrderOK, Asked, Filtered, Active, InScan
  <2>2. ASSUME at'[s] = "vendor", Asked(s)', NEW q \in Records, at'[q] = "page"
        PROVE  copy'[q].mark <= vmark[s]
    <3>1. q \in page /\ s \notin page
      BY <2>2, <1>2, <1>3
    <3>2. CASE vmark[s] <= bound
      <4>1. s \in Awaiting
        BY <2>2, <3>1, <3>2, <1>1, <1>3
           DEF Awaiting, Carried, InWindow, Asked, Filtered
      <4> QED
        BY <4>1, <3>1, <1>2 DEF FetchPage
    <3>3. CASE ~ (vmark[s] <= bound)
      <4>1. vmark[s] \in Int /\ vmark[q] \in Int /\ bound \in Int
        BY DEF TypeOK, Marks, NoMark
      <4>2. copy'[q].mark = vmark[q] /\ vmark[q] <= bound
        BY <3>1, <1>2
      <4> QED
        BY <4>1, <4>2, <3>3
    <3> QED
      BY <3>2, <3>3
  <2>3. ASSUME at'[s] = "page" PROVE high <= copy'[s].mark
    BY <2>3, <1>1, <1>2, <1>3 DEF OrderOK, Asked, Active, InScan
  <2> QED
    BY <2>1, <2>2, <2>3
<1>7. MarkOK' /\ DoneOK'
  BY <1>1, <1>2, <1>3 DEF MarkOK, DoneOK, Active, InScan
<1>8. NothingSkipped'
  BY <1>1 DEF NothingSkipped, Accounted, Filtered
<1> QED
  BY <1>4, <1>5, <1>6, <1>7, <1>8

\* Landing a batch puts into the raw table what the connector read, which for
\* a record outside the next run's windows changes nothing.
LEMMA LandKeepsSkipped ==
  ASSUME IInv, TypeOK', InScan, NEW rs \in SUBSET Records,
         \A r \in rs : at[r] # "vendor",
         raw' = [r \in Records |-> IF r \in rs THEN copy[r].ver ELSE raw[r]],
         UNCHANGED <<vmark, ver, wm, base, rej>>
  PROVE  NothingSkipped'
<1> USE DEF IInv
<1> SUFFICES ASSUME NEW r \in Records, wm # NoMark, vmark[r] # NoMark,
                    vmark[r] >= base, Filtered(vmark[r], wm)
             PROVE  Accounted(r)'
  BY DEF NothingSkipped, Filtered
<1>1. CASE r \in rs
  <2>1. Held(r) /\ cursor = wm
    BY <1>1 DEF CopyOK, ClockOK, Active
  <2>2. ~ Filtered(copy[r].mark, cursor) /\ copy[r].mark <= vmark[r]
    BY <2>1 DEF Held
  <2>3. copy[r].mark \in Int /\ vmark[r] \in Int /\ cursor \in Int
    BY DEF TypeOK, Marks, NoMark
  <2> QED
    BY <2>1, <2>2, <2>3, FilteredDown
<1>2. CASE r \notin rs
  BY <1>2 DEF NothingSkipped, Accounted
<1> QED
  BY <1>1, <1>2

LEMMA TakeStep ==
  ASSUME IInv, TypeOK', NEW r \in Records, Take(r)
  PROVE  IInv'
<1> USE DEF IInv
<1>1. /\ pc = "scan" /\ at[r] = "page" /\ pc' \in {"scan", "flush"}
      /\ UNCHANGED <<vendor, wm, cursor, bound, copy, nrej, partial, ghost>>
      /\ pc' = "flush" => stop'
      /\ high' = IF Newer(copy[r].mark, high) THEN copy[r].mark ELSE high
  BY DEF Take, Yields
<1> USE DEF vendor, ghost
<1>2. PICK rs \in SUBSET Records :
        /\ \A s \in rs : at[s] \in {"page", "batch"}
        /\ raw' = [s \in Records |-> IF s \in rs THEN copy[s].ver ELSE raw[s]]
        /\ r \in rs => at'[r] = "landed"
        /\ r \notin rs => at'[r] = "batch"
        /\ \A s \in Records \ {r} : s \in rs => at'[s] = "landed" /\ at[s] = "batch"
        /\ \A s \in Records \ {r} : s \notin rs => at'[s] = at[s]
  <2>1. CASE Cardinality(Carried("batch") \cup {r}) >= BatchSize
    <3>1. Land(Carried("batch") \cup {r})
      BY <2>1 DEF Take
    <3>2. Carried("batch") \cup {r} \in SUBSET Records
      BY DEF Carried
    <3> WITNESS Carried("batch") \cup {r} \in SUBSET Records
    <3> QED
      BY <1>1, <3>1 DEF Land, Carried
  <2>2. CASE ~ (Cardinality(Carried("batch") \cup {r}) >= BatchSize)
    <3>1. at' = [at EXCEPT ![r] = "batch"] /\ raw' = raw
      BY <2>2 DEF Take
    <3> WITNESS {} \in SUBSET Records
    <3> QED
      BY <3>1 DEF TypeOK
  <2> QED
    BY <2>1, <2>2 DEF Carried
<1>3. InScan /\ Active /\ InScan' /\ Active'
  BY <1>1 DEF Active, InScan
<1>4. \A s \in Records : at[s] # "vendor" => Held(s)
  BY <1>3 DEF CopyOK
<1>5. copy[r].mark \in Nat /\ high \in Nat \cup {-1} /\ high' \in Nat
      /\ high <= high' /\ copy[r].mark <= high' /\ high' \in {high, copy[r].mark}
  <2>1. copy[r].mark \in Nat
    BY <1>1, <1>4 DEF Held, TypeOK, NoMark, Marks
  <2>2. high \in Nat \cup {-1}
    BY DEF TypeOK, NoMark, Marks
  <2> QED
    BY <2>1, <2>2, <1>1 DEF Newer
<1>6. ClockOK'
  <2>1. \A s \in Records : raw'[s] <= ver[s]
    <3> TAKE s \in Records
    <3>1. CASE s \in rs
      BY <3>1, <1>2, <1>4 DEF Held
    <3>2. CASE s \notin rs
      BY <3>2, <1>2 DEF ClockOK
    <3> QED
      BY <3>1, <3>2
  <2> QED
    BY <2>1, <1>1, <1>3 DEF ClockOK, Vouched
<1>7. FreshOK'
  BY <1>1 DEF FreshOK
<1>8. CopyOK'
  <2> SUFFICES ASSUME NEW s \in Records, at'[s] # "vendor" PROVE Held(s)'
    BY DEF CopyOK
  <2>1. Held(s)
    BY <1>1, <1>2, <1>4
  <2>2. /\ at'[s] \in {"page", "batch"} => at[s] \in {"page", "batch"} /\ s \notin rs
        /\ at'[s] = "landed" => s \in rs \/ at[s] = "landed"
        /\ at'[s] = "rejected" => at[s] = "rejected"
    BY <1>1, <1>2
  <2>3. s \in rs => raw'[s] = copy[s].ver
    BY <1>2
  <2>4. s \notin rs => raw'[s] = raw[s]
    BY <1>2
  <2> QED
    BY <2>1, <2>2, <2>3, <2>4, <1>1 DEF Held, Filtered, Settled
<1>9. HighOK'
  BY <1>1, <1>3, <1>4, <1>5 DEF HighOK, Held, Filtered, NoMark
<1>10. OrderOK'
  <2> SUFFICES ASSUME Ordered, NEW s \in Records
               PROVE  /\ at'[s] = "vendor" /\ Asked(s) =>
                           /\ high' <= vmark[s]
                           /\ \A q \in Records : at'[q] = "page" =>
                                copy[q].mark <= vmark[s]
                      /\ at'[s] = "page" => high' <= copy[s].mark
    BY <1>1 DEF OrderOK, Asked, Filtered
  <2>1. \A q \in Records : at'[q] = "page" => at[q] = "page"
    BY <1>1, <1>2
  <2>2. at'[s] = "vendor" => at[s] = "vendor"
    BY <1>1, <1>2
  <2>3. ASSUME at'[s] = "vendor", Asked(s)
        PROVE  /\ high' <= vmark[s]
               /\ \A q \in Records : at'[q] = "page" => copy[q].mark <= vmark[s]
    BY <2>1, <2>2, <2>3, <1>1, <1>3, <1>5 DEF OrderOK
  <2>4. ASSUME at'[s] = "page" PROVE high' <= copy[s].mark
    <3>1. copy[r].mark <= copy[s].mark
      BY <2>1, <2>4 DEF Take, Yields, Carried
    <3>2. high <= copy[s].mark
      BY <2>1, <2>4, <1>3 DEF OrderOK
    <3> QED
      BY <3>1, <3>2, <1>5
  <2> QED
    BY <2>3, <2>4
<1>11. MarkOK' /\ DoneOK'
  <2>1. Active /\ nrej = 0 => \A s \in Records : at'[s] # "rejected"
    BY <1>1, <1>2 DEF DoneOK
  <2> QED
    BY <2>1, <1>1, <1>3 DEF MarkOK, DoneOK
<1>12. NothingSkipped'
  <2>1. \A s \in rs : at[s] # "vendor"
    BY <1>2
  <2> QED
    BY <2>1, <1>1, <1>2, <1>3, LandKeepsSkipped
<1> QED
  BY <1>6, <1>7, <1>8, <1>9, <1>10, <1>11, <1>12

LEMMA RejectStep ==
  ASSUME IInv, TypeOK', NEW r \in Records, Reject(r)
  PROVE  IInv'
<1> USE DEF IInv
<1>1. /\ pc = "scan" /\ at[r] = "page" /\ pc' \in {"scan", "failing"}
      /\ nrej' = nrej + 1
      /\ UNCHANGED <<vendor, table, cursor, bound, copy, high, stop, partial, base>>
  BY DEF Reject, Yields
<1>2. /\ at'[r] = "rejected" /\ rej'[r] = copy[r].ver
      /\ \A s \in Records \ {r} : at'[s] = at[s] /\ rej'[s] = rej[s]
  BY DEF Reject, TypeOK
<1> USE DEF vendor, table
<1>3. InScan /\ Active
  BY <1>1 DEF Active, InScan
<1>4. \A s \in Records : at[s] # "vendor" => Held(s)
  BY <1>3 DEF CopyOK
<1>5. ClockOK'
  BY <1>1, <1>2, <1>3, <1>4 DEF ClockOK, Held, Vouched, Active, InScan
<1>6. FreshOK' /\ HighOK'
  BY <1>1, <1>3 DEF FreshOK, HighOK, Filtered
<1>7. CopyOK'
  <2> SUFFICES ASSUME NEW s \in Records, at'[s] # "vendor" PROVE Held(s)'
    BY DEF CopyOK
  <2>1. CASE s = r
    BY <2>1, <1>1, <1>2, <1>4 DEF Held, Filtered, Settled
  <2>2. CASE s # r
    BY <2>2, <1>1, <1>2, <1>4 DEF Held, Filtered, Settled
  <2> QED
    BY <2>1, <2>2
<1>8. OrderOK'
  BY <1>1, <1>2, <1>3 DEF OrderOK, Asked, Filtered
<1>9. MarkOK' /\ DoneOK'
  BY <1>1, <1>2 DEF MarkOK, DoneOK, TypeOK, Active, InScan
<1>10. NothingSkipped'
  <2> SUFFICES ASSUME NEW s \in Records, wm # NoMark, vmark[s] # NoMark,
                      vmark[s] >= base, Filtered(vmark[s], wm)
               PROVE  Accounted(s)'
    BY <1>1 DEF NothingSkipped, Filtered
  <2>1. CASE s = r
    <3>1. Held(r) /\ cursor = wm
      BY <1>1, <1>3, <1>4 DEF ClockOK
    <3>2. ~ Filtered(copy[r].mark, cursor) /\ copy[r].mark <= vmark[r]
      BY <3>1 DEF Held
    <3>3. copy[r].mark \in Int /\ vmark[r] \in Int /\ cursor \in Int
      BY DEF TypeOK, Marks, NoMark
    <3> QED
      BY <2>1, <3>1, <3>2, <3>3, FilteredDown
  <2>2. CASE s # r
    BY <2>2, <1>1, <1>2 DEF NothingSkipped, Accounted
  <2> QED
    BY <2>1, <2>2
<1> QED
  BY <1>5, <1>6, <1>7, <1>8, <1>9, <1>10

\* Where nothing departed, what an empty page may leave behind is nothing.
LEMMA SomeDeparted ==
  ASSUME Awaiting # {}, Cardinality(Awaiting) <= Cardinality(Departed) PROVE Departed # {}
<1> SUFFICES ASSUME Departed = {} PROVE FALSE
  OBVIOUS
<1>1. IsFiniteSet(Awaiting)
  BY RecordsAssumption, FS_Subset DEF Awaiting, Carried
<1>2. Cardinality(Awaiting) \in Nat /\ Cardinality(Awaiting) # 0
  BY <1>1, FS_CardinalityType, FS_EmptySet
<1>3. Cardinality(Departed) = 0
  BY FS_EmptySet
<1> QED
  BY <1>2, <1>3

\* Leaving the scan early marks the run as stopped or partial; leaving it at
\* its end means nothing was left to ask for, or no more than what departed.
LEMMA ScanOverStep ==
  ASSUME IInv, TypeOK', StopInFetch \/ ReportPartial \/ ScanEnd
  PROVE  IInv'
<1> USE DEF IInv
<1>1. /\ pc = "scan" /\ pc' = "flush" /\ Carried("page") = {}
      /\ UNCHANGED <<vendor, table, cursor, bound, at, copy, high, nrej, ghost>>
      /\ ~ stop' /\ ~ partial' =>
           Awaiting = {} \/ (Ordered /\ Cardinality(Awaiting) <= Cardinality(Departed))
  BY DEF StopInFetch, ReportPartial, ScanEnd, run
<1> USE DEF vendor, table, ghost
<1>2. Active /\ Active' /\ InScan /\ InScan'
  BY <1>1 DEF Active, InScan
<1>3. ClockOK' /\ FreshOK' /\ HighOK'
  BY <1>1, <1>2 DEF ClockOK, FreshOK, HighOK, Vouched, Filtered
<1>4. CopyOK'
  BY <1>1, <1>2 DEF CopyOK, Held, Filtered, Settled
<1>5. OrderOK'
  BY <1>1, <1>2 DEF OrderOK, Asked, Filtered
<1>6. DoneOK'
  <2>1. ASSUME ~ stop', ~ partial', NEW r \in Records, Asked(r), Settled(vmark[r])
        PROVE  at[r] # "page" /\ (at[r] # "vendor" \/ (Ordered /\ Departed # {}))
    <3>1. at[r] # "page"
      BY <1>1, <2>1 DEF Carried
    <3>2. InWindow(vmark[r])
      BY <2>1 DEF InWindow, Asked, Settled, TypeOK, Marks, NoMark
    <3>3. at[r] = "vendor" => Awaiting # {}
      BY <2>1, <3>2 DEF Awaiting, Carried, Asked
    <3>4. Awaiting # {} => Ordered /\ Departed # {}
      BY <1>1, <2>1, SomeDeparted
    <3> QED
      BY <3>1, <3>3, <3>4
  <2> QED
    BY <1>1, <1>2, <2>1 DEF DoneOK, Departed, Asked, Filtered, Settled
<1>7. NothingSkipped' /\ MarkOK'
  BY <1>1 DEF NothingSkipped, MarkOK, Accounted, Filtered
<1> QED
  BY <1>3, <1>4, <1>5, <1>6, <1>7

LEMMA LandRestStep ==
  ASSUME IInv, TypeOK', LandRest
  PROVE  IInv'
<1> USE DEF IInv
<1>1. /\ pc = "flush" /\ pc' = "mark"
      /\ UNCHANGED <<vendor, wm, cursor, bound, copy, high, nrej, stop, partial,
                     ghost>>
  BY DEF LandRest
<1> USE DEF vendor, ghost
<1>2. \A r \in Records :
        /\ at[r] = "batch" => at'[r] = "landed" /\ raw'[r] = copy[r].ver
        /\ at[r] # "batch" => at'[r] = at[r] /\ raw'[r] = raw[r]
  BY DEF LandRest, Land, Carried, TypeOK
<1>3. Active /\ Active' /\ InScan /\ InScan'
  BY <1>1 DEF Active, InScan
<1>4. ClockOK'
  BY <1>1, <1>2, <1>3 DEF ClockOK, CopyOK, Held, Vouched
<1>5. FreshOK' /\ HighOK'
  BY <1>1, <1>3 DEF FreshOK, HighOK, Filtered
<1>6. CopyOK'
  BY <1>1, <1>2, <1>3 DEF CopyOK, Held, Filtered, Settled
<1>7. OrderOK'
  BY <1>1, <1>2, <1>3 DEF OrderOK, Asked, Filtered
<1>8. MarkOK' /\ DoneOK'
  <2>1. Departed # {} => Departed' # {}
    BY <1>1, <1>2 DEF Departed
  <2> QED
    BY <2>1, <1>1, <1>2, <1>3 DEF MarkOK, DoneOK, Asked, Filtered, Settled
<1>9. NothingSkipped'
  <2>1. raw' = [r \in Records |-> IF r \in Carried("batch") THEN copy[r].ver
                                                            ELSE raw[r]]
    BY DEF LandRest, Land
  <2>2. Carried("batch") \in SUBSET Records /\ \A r \in Carried("batch") : at[r] # "vendor"
    BY DEF Carried
  <2> QED
    BY <2>1, <2>2, <1>1, <1>3, LandKeepsSkipped
<1> QED
  BY <1>4, <1>5, <1>6, <1>7, <1>8, <1>9

\* The watermark a run persists is no further than what it read, no further
\* than it can vouch for, and no lower than the one it started from.
LEMMA MarkIsSafe ==
  ASSUME IInv, pc = "mark", high # NoMark, MayAdvance
  PROVE  /\ Capped \in Nat /\ wm <= Capped /\ Capped <= high /\ Capped <= bound
         /\ Ordered => Capped = high
<1> USE DEF IInv
<1>1. Active /\ InScan
  BY DEF Active, InScan
<1>2. high \in Nat /\ bound \in Nat /\ cursor \in Nat \cup {-1} /\ cursor = wm
  BY <1>1 DEF TypeOK, ClockOK, NoMark, Marks
<1>3. cursor <= bound /\ ~ Filtered(high, cursor) /\ (Ordered => high <= bound)
  BY <1>1 DEF ClockOK, HighOK
<1>4. cursor <= high
  BY <1>2, <1>3 DEF Filtered, NoMark
<1>5. CASE ~ Ordered /\ Newer(high, bound)
  BY <1>2, <1>3, <1>4, <1>5 DEF Capped, Newer
<1>6. CASE ~ (~ Ordered /\ Newer(high, bound))
  BY <1>2, <1>3, <1>4, <1>6 DEF Capped, Newer
<1> QED
  BY <1>5, <1>6

LEMMA SetMarkStep ==
  ASSUME IInv, TypeOK', SetMark
  PROVE  IInv' /\ wm <= wm'
<1> USE DEF IInv
<1>1. /\ pc = "mark" /\ pc' = "finish"
      /\ UNCHANGED <<vendor, raw, run, ghost>>
      /\ wm' = IF high # NoMark /\ MayAdvance THEN Capped ELSE wm
  BY DEF SetMark
<1> USE DEF vendor, run, ghost
<1>2. Active /\ Active' /\ InScan /\ ~ InScan'
  BY <1>1 DEF Active, InScan
<1>3. wm <= wm'
  <2>1. wm \in Int
    BY DEF TypeOK, NoMark, Marks
  <2> QED
    BY <2>1, <1>1, MarkIsSafe
<1>4. ClockOK'
  <2>1. wm' <= Vouched
    <3>1. CASE high # NoMark /\ MayAdvance
      <4>1. wm' = Capped /\ Capped \in Nat /\ Capped <= bound
        BY <1>1, <3>1, MarkIsSafe
      <4>2. bound \in Nat /\ Vouched \in Nat /\ bound <= Vouched
        BY <1>2, VouchedType DEF ClockOK, TypeOK
      <4> QED
        BY <4>1, <4>2
    <3>2. CASE ~ (high # NoMark /\ MayAdvance)
      BY <1>1, <3>2 DEF ClockOK
    <3> QED
      BY <3>1, <3>2
  <2> QED
    BY <2>1, <1>1, <1>2 DEF ClockOK, Vouched
<1>5. FreshOK' /\ HighOK'
  BY <1>1, <1>2 DEF FreshOK, HighOK, Filtered
<1>6. CopyOK'
  BY <1>1, <1>2 DEF CopyOK, Held, Filtered, Settled
<1>7. OrderOK'
  BY <1>1, <1>2 DEF OrderOK, Asked, Filtered
<1>8. MarkOK' /\ DoneOK'
  <2>1. Ordered => MayAdvance /\ cursor = wm
    BY <1>2 DEF MayAdvance, ClockOK
  <2>2. MarkOK'
    BY <2>1, <1>1, MarkIsSafe DEF MarkOK
  <2> QED
    BY <2>2, <1>1, <1>2 DEF DoneOK, Departed, Asked, Filtered, Settled
<1>9. NothingSkipped'
  <2>1. CASE ~ (high # NoMark /\ MayAdvance)
    BY <1>1, <2>1 DEF NothingSkipped, Accounted, Filtered
  <2>2. CASE high # NoMark /\ MayAdvance
    <3> SUFFICES ASSUME NEW r \in Records, wm' # NoMark, vmark[r] # NoMark,
                        vmark[r] >= base, Filtered(vmark[r], wm')
                 PROVE  Accounted(r)
      BY <1>1 DEF NothingSkipped, Accounted, Filtered
    <3>1. /\ wm' = Capped /\ Capped \in Nat /\ Capped <= high /\ Capped <= bound
          /\ (Ordered => wm' = high)
      BY <1>1, <2>2, MarkIsSafe
    <3>2. vmark[r] \in Nat /\ high \in Nat /\ bound \in Nat
      BY <2>2 DEF TypeOK, Marks, NoMark
    <3>3. /\ Ordered => vmark[r] < high
          /\ Settled(vmark[r])
      BY <1>1, <3>1, <3>2 DEF Filtered, Settled, NoMark
    <3>4. CASE Filtered(vmark[r], cursor)
      <4>1. cursor # NoMark
        BY <3>2, <3>4 DEF Filtered, TypeOK
      <4>2. cursor = wm
        BY <1>2 DEF ClockOK
      <4> QED
        BY <3>4, <4>1, <4>2 DEF NothingSkipped
    <3>5. CASE ~ Filtered(vmark[r], cursor)
      <4>1. Asked(r)
        BY <3>5 DEF Asked
      <4>2. at[r] # "vendor"
        <5>1. CASE Ordered
          BY <5>1, <4>1, <3>2, <3>3, <1>2 DEF OrderOK
        <5>2. CASE ~ Ordered
          BY <5>2, <2>2, <4>1, <3>3, <1>1 DEF DoneOK, MayAdvance
        <5> QED
          BY <5>1, <5>2
      <4>3. Held(r)
        BY <4>2, <1>2 DEF CopyOK
      <4>4. at[r] # "page"
        <5>1. CASE Ordered
          <6>1. copy[r].mark = vmark[r]
            BY <4>3, <3>3 DEF Held
          <6> QED
            BY <5>1, <6>1, <3>2, <3>3, <1>2 DEF OrderOK
        <5>2. CASE ~ Ordered
          BY <5>2, <2>2, <4>1, <3>3, <1>1 DEF DoneOK, MayAdvance
        <5> QED
          BY <5>1, <5>2
      <4>5. at[r] # "batch"
        BY <1>1 DEF DoneOK
      <4>6. at[r] \in {"landed", "rejected"}
        BY <4>2, <4>4, <4>5 DEF TypeOK
      <4> QED
        BY <4>3, <4>6, <3>3 DEF Held, Accounted
    <3> QED
      BY <3>4, <3>5
  <2> QED
    BY <2>1, <2>2
<1> QED
  BY <1>3, <1>4, <1>5, <1>6, <1>7, <1>8, <1>9

LEMMA InvStep == IInv /\ [Next]_vars => IInv'
<1> SUFFICES ASSUME IInv, [Next]_vars PROVE IInv'
  OBVIOUS
<1>1. TypeOK'
  BY TypeStep DEF IInv
<1>2. CASE \E r \in Records : Change(r)
  BY <1>1, <1>2, ChangeStep
<1>3. CASE \/ Tick \/ Age \/ Reap \/ Finish \/ Fail \/ RecordFailure \/ Crash
           \/ UNCHANGED vars
  BY <1>1, <1>3, QuietStep
<1>4. CASE StartRun \/ ReadCursor
  BY <1>1, <1>4, StartRunStep, ReadCursorStep
<1>5. CASE Fetch
  BY <1>1, <1>5, FetchStep DEF Fetch
<1>6. CASE Consume
  BY <1>1, <1>6, TakeStep, RejectStep DEF Consume
<1>7. CASE StopInFetch \/ ReportPartial \/ ScanEnd
  BY <1>1, <1>7, ScanOverStep
<1>8. CASE LandRest \/ SetMark
  BY <1>1, <1>8, LandRestStep, SetMarkStep
<1> QED
  BY <1>2, <1>3, <1>4, <1>5, <1>6, <1>7, <1>8 DEF Next

\* The inductive invariant holds in every reachable state.
THEOREM Invariance == Spec => []IInv
BY InvInit, InvStep, PTL DEF Spec

\* Every variable keeps its type.
THEOREM TypeCorrect == Spec => []TypeOK
<1>1. IInv => TypeOK
  BY DEF IInv
<1> QED
  BY <1>1, Invariance, PTL

\* For any set of records, any batch size, any limits and any interleaving of
\* changes, stops, errors and crashes: what the next run will not ask for is
\* already in the raw table, or was rejected as malformed.
THEOREM NoSilentLoss == Spec => []NothingSkipped
<1>1. IInv => NothingSkipped
  BY DEF IInv
<1> QED
  BY <1>1, Invariance, PTL

\* The committed watermark never moves back.
THEOREM WatermarkOnlyAdvances == Spec => WatermarkMonotone
<1>1. IInv /\ IInv' /\ [Next]_vars => [wm' >= wm]_wm
  <2> SUFFICES ASSUME IInv, IInv', [Next]_vars, wm' # wm PROVE wm' >= wm
    OBVIOUS
  <2>1. SetMark
    BY DEF Next, vars, vendor, ledger, table, run, ghost, Change, Tick, Age, Reap,
           StartRun, ReadCursor, Fetch, FetchPage, Consume, Take, Reject, StopInFetch,
           ReportPartial, ScanEnd, LandRest, Finish, Fail, RecordFailure, Crash
  <2>2. wm <= wm'
    BY <2>1, SetMarkStep DEF IInv
  <2>3. wm \in Int /\ wm' \in Int
    BY DEF IInv, TypeOK, Marks, NoMark
  <2> QED
    BY <2>2, <2>3
<1> QED
  BY <1>1, Invariance, PTL DEF Spec, WatermarkMonotone

\* A run that closes SUCCESS without a note has landed its whole window, less
\* what changed after its scan began; an ordered one may have left records to the
\* next run, which asks for them, and only when others departed under its scan
\* (run.py, _run, and the empty page of sources/xdr.py, fetch).
THEOREM CleanRunsAreComplete == Spec => CleanRunIsComplete
<1>1. ASSUME IInv, Finish, ~ noted', NEW r \in Records,
             vmark[r] # NoMark, ~ Filtered(vmark[r], cursor), Settled(vmark[r])
      PROVE  raw[r] = ver[r] \/ PutOff(r)
  <2>1. pc = "finish" /\ ~ stop /\ ~ partial /\ ~ (nrej > 0)
    BY <1>1, Zenon DEF Finish
  <2>2. nrej = 0
    BY <1>1, <2>1 DEF IInv, TypeOK
  <2>3. at[r] = "landed" \/ (at[r] = "vendor" /\ Ordered /\ Departed # {})
    BY <1>1, <2>1, <2>2 DEF IInv, TypeOK, DoneOK, Active, Asked
  <2>4. CASE at[r] = "landed"
    BY <1>1, <2>1, <2>4 DEF IInv, CopyOK, Held, Active
  <2>5. CASE at[r] = "vendor" /\ Ordered /\ Departed # {}
    <3>1. high <= vmark[r] /\ wm = IF high = NoMark THEN cursor ELSE high
      BY <1>1, <2>1, <2>5 DEF IInv, OrderOK, MarkOK, Active, Asked
    <3>2. ~ Filtered(vmark[r], wm)
      BY <1>1, <2>5, <3>1 DEF IInv, TypeOK, Filtered, Marks, NoMark
    <3> QED
      BY <2>5, <3>2 DEF PutOff
  <2> QED
    BY <2>3, <2>4, <2>5
<1>2. IInv /\ [Next]_vars =>
        [Finish /\ ~ noted' =>
           \A r \in Records :
             vmark[r] # NoMark /\ ~ Filtered(vmark[r], cursor) /\ Settled(vmark[r])
               => raw[r] = ver[r] \/ PutOff(r)]_vars
  BY <1>1
<1> QED
  BY <1>2, Invariance, PTL DEF Spec, CleanRunIsComplete

\* No step puts an older content into the raw table.
LEMMA RawForward ==
  ASSUME IInv, [Next]_vars, NEW r \in Records, raw'[r] # raw[r]
  PROVE  raw'[r] > raw[r]
<1>1. raw[r] \in Nat /\ copy[r].ver \in Nat
  BY DEF IInv, TypeOK
<1>2. InScan /\ at[r] \in {"page", "batch"} /\ raw'[r] = copy[r].ver
  <2>1. (\E s \in Records : Take(s)) \/ LandRest
    BY DEF Next, vars, vendor, ledger, table, run, ghost, Change, Tick, Age,
           Reap, StartRun, ReadCursor, Fetch, FetchPage, Consume, Reject,
           StopInFetch, ReportPartial, ScanEnd, SetMark, Finish, Fail,
           RecordFailure, Crash
  <2>2. CASE \E s \in Records : Take(s)
    BY <2>2 DEF Take, Yields, Land, Carried, InScan
  <2>3. CASE LandRest
    BY <2>3 DEF LandRest, Land, Carried, InScan
  <2> QED
    BY <2>1, <2>2, <2>3
<1>3. Held(r)
  BY <1>2 DEF IInv, CopyOK, Active
<1> QED
  BY <1>1, <1>2, <1>3 DEF Held

\* The raw table never goes back to an older content.
THEOREM RawOnlyAdvances == Spec => RawNeverRegresses
<1>1. IInv /\ IInv' /\ [Next]_vars => [\A r \in Records : raw'[r] >= raw[r]]_raw
  <2> SUFFICES ASSUME IInv, IInv', [Next]_vars, NEW r \in Records PROVE raw'[r] >= raw[r]
    OBVIOUS
  <2>1. raw[r] \in Nat /\ raw'[r] \in Nat
    BY DEF IInv, TypeOK
  <2> QED
    BY <2>1, RawForward
<1> QED
  BY <1>1, Invariance, PTL DEF Spec, RawNeverRegresses

----------------------------------------------------------------------------
(* The run implements the promise of a source, SourceFeed.                 *)

\* No horizon lies in the future, and what a run holds of a record is no older
\* than what was last rejected of it.
PromiseInv ==
  /\ base <= clock
  /\ Active => \A r \in Records : at[r] \in {"page", "batch"} => rej[r] <= copy[r].ver

LEMMA PromiseInvStep == IInv /\ IInv' /\ PromiseInv /\ [Next]_vars => PromiseInv'
<1> SUFFICES ASSUME IInv, IInv', PromiseInv, [Next]_vars PROVE PromiseInv'
  OBVIOUS
<1> USE DEF PromiseInv
<1>1. clock \in Nat /\ base \in Nat
  BY DEF IInv, TypeOK
<1>2. base' <= clock'
  <2>1. CASE ReadCursor
    BY <2>1, <1>1, ClockAssumption, SizeAssumption DEF ReadCursor, vendor
  <2>2. CASE Tick
    BY <2>2, <1>1 DEF Tick, ghost
  <2>3. CASE UNCHANGED <<clock, base>>
    BY <2>3
  <2> QED
    BY <2>1, <2>2, <2>3
       DEF Next, vars, vendor, ledger, table, run, ghost, Change, Age, Reap, StartRun,
           Fetch, FetchPage, Consume, Take, Reject, StopInFetch, ReportPartial,
           ScanEnd, LandRest, SetMark, Finish, Fail, RecordFailure, Crash
<1>3. ASSUME Active', NEW r \in Records, at'[r] \in {"page", "batch"}
      PROVE  rej'[r] <= copy'[r].ver
  <2>1. CASE Fetch
    <3>1. PICK page \in SUBSET Awaiting : FetchPage(page)
      BY <2>1 DEF Fetch
    <3>2. CASE r \in page
      <4>1. copy'[r].ver = ver[r] /\ rej' = rej
        BY <3>1, <3>2 DEF FetchPage, ghost
      <4> QED
        BY <4>1 DEF IInv, ClockOK
    <3>3. CASE r \notin page
      BY <1>3, <3>1, <3>3 DEF FetchPage, ghost, Active, InScan
    <3> QED
      BY <3>2, <3>3
  <2>2. CASE \E s \in Records : Take(s)
    BY <1>3, <2>2 DEF Take, Yields, Land, Carried, ghost, Active, InScan, IInv, TypeOK
  <2>3. CASE \E s \in Records : Reject(s)
    BY <1>3, <2>3 DEF Reject, Yields, Active, InScan, IInv, TypeOK
  <2>4. CASE LandRest
    BY <1>3, <2>4 DEF LandRest, Land, Carried, ghost, Active, InScan
  <2>5. CASE StartRun \/ ReadCursor
    BY <1>3, <2>5 DEF StartRun, ReadCursor, IInv, FreshOK, Active, InScan
  <2>6. CASE UNCHANGED <<at, copy, rej>> /\ (Active' => Active)
    BY <1>3, <2>6
  <2> QED
    BY <2>1, <2>2, <2>3, <2>4, <2>5, <2>6
       DEF Next, vars, vendor, ledger, table, run, ghost, Change, Tick, Age, Reap,
           Consume, StopInFetch, ReportPartial, ScanEnd, SetMark, Finish, Fail,
           RecordFailure, Crash, Active, InScan
<1> QED
  BY <1>2, <1>3

LEMMA PromiseInit == Init => Promise!Init
<1> SUFFICES ASSUME Init PROVE Promise!Init
  OBVIOUS
<1>1. Due = {} /\ Past = {} /\ wm = NoMark /\ ver = [r \in Records |-> 0]
  BY DEF Init, Due, Past
<1>2. /\ {r \in Records : ver[r] # 0} = {}
      /\ raw = [r \in Records |-> 0] /\ rej = [r \in Records |-> 0]
  BY <1>1 DEF Init
<1> QED
  BY <1>1, <1>2 DEF Promise!Init

\* A change makes a record due: its mark is past every cursor and horizon.
LEMMA PromiseChange ==
  ASSUME IInv, PromiseInv, NEW r \in Records, Change(r)
  PROVE  Promise!Change
<1>1. /\ vmark'[r] = clock /\ ver'[r] = ver[r] + 1 /\ ver' \in [Records -> Nat]
      /\ \A s \in Records \ {r} : vmark'[s] = vmark[s] /\ ver'[s] = ver[s]
      /\ UNCHANGED <<raw, rej, wm, base>>
  BY DEF Change, IInv, TypeOK, table, ghost
<1>2. clock >= base /\ ~ Filtered(clock, wm) /\ clock # NoMark
  BY ChangeIsAhead DEF IInv, TypeOK, PromiseInv, Filtered, NoMark
<1>3. Due' = Due \cup {r} /\ Past' = Past \ {r}
  BY <1>1, <1>2 DEF Due, Past, Filtered, IInv, TypeOK
<1>4. ver'[r] > ver[r]
  BY <1>1 DEF IInv, TypeOK
<1>5. \E R \in SUBSET Records :
        /\ \A s \in R : ver'[s] > ver[s]
        /\ \A s \in Records \ R : ver'[s] = ver[s]
        /\ Due' = Due \cup R /\ Past' = Past \ R
  <2> WITNESS {r} \in SUBSET Records
  <2> QED
    BY <1>1, <1>3, <1>4
<1> QED
  BY <1>1, <1>5 DEF Promise!Change, Promise!table

\* A first run reads from its own horizon.
LEMMA PromiseHorizon ==
  ASSUME IInv, ReadCursor
  PROVE  Promise!Horizon \/ UNCHANGED Promise!vars
<1>1. UNCHANGED <<vmark, ver, raw, wm, rej>> /\ (wm # NoMark => base' = base)
  BY DEF ReadCursor, vendor, table
<1>2. CASE wm # NoMark
  BY <1>1, <1>2 DEF Due, Past, Filtered, Promise!vars, Promise!table
<1>3. CASE wm = NoMark
  <2>1. /\ base \in Nat /\ base' \in Nat
        /\ \A r \in Records : vmark[r] \in Int
    BY ClockAssumption, SizeAssumption
       DEF IInv, TypeOK, ReadCursor, vendor, Marks, NoMark
  <2>2. Due \cup Past \subseteq Due' \cup Past'
    BY <1>1, <1>3, <2>1 DEF Due, Past, Filtered
  <2> QED
    BY <1>1, <1>3, <2>2 DEF Due, Past, Promise!Horizon, Promise!table
<1> QED
  BY <1>2, <1>3

\* Landing and rejecting move rows forward and leave what is due alone.
LEMMA PromiseLanding ==
  ASSUME IInv, IInv', PromiseInv, [Next]_vars, UNCHANGED <<vmark, ver, wm, base>>
  PROVE  Promise!Ingest
<1>1. \A r \in Records : /\ raw[r] \in Nat /\ raw'[r] \in Nat /\ copy[r].ver \in Nat
                          /\ rej[r] \in Nat /\ rej'[r] \in Nat /\ ver[r] \in Nat
                          /\ raw'[r] <= ver[r] /\ rej'[r] <= ver[r]
  BY DEF IInv, TypeOK, ClockOK
<1>2. ASSUME NEW r \in Records PROVE raw'[r] = raw[r] \/ raw[r] < raw'[r]
  BY <1>1, <1>2, RawForward
<1>3. ASSUME NEW r \in Records PROVE rej'[r] = rej[r] \/ rej[r] < rej'[r]
  <2>1. CASE \E s \in Records : Reject(s)
    <3>1. rej'[r] = rej[r] \/ (at[r] = "page" /\ Active /\ rej'[r] = copy[r].ver)
      BY <2>1 DEF Reject, Yields, Active, InScan, IInv, TypeOK
    <3> QED
      BY <1>1, <3>1 DEF PromiseInv
  <2>2. CASE rej' = rej
    BY <2>2
  <2> QED
    BY <2>1, <2>2
       DEF Next, vars, vendor, ledger, table, run, ghost, Change, Tick, Age, Reap,
           StartRun, ReadCursor, Fetch, FetchPage, Consume, Take, StopInFetch,
           ReportPartial, ScanEnd, LandRest, SetMark, Finish, Fail, RecordFailure,
           Crash
<1>4. Due' = Due /\ Past' = Past /\ Due \subseteq Records
  BY DEF Due, Past, Filtered
<1>5. Promise!Forward(raw, raw', ver) /\ Promise!Forward(rej, rej', ver)
  BY <1>1, <1>2, <1>3 DEF Promise!Forward, IInv, TypeOK
<1> QED
  BY <1>4, <1>5 DEF Promise!Ingest

\* The watermark stops asking only for what is accounted for.
LEMMA PromiseMark ==
  ASSUME IInv, IInv', SetMark
  PROVE  Promise!Ingest
<1>1. UNCHANGED <<vmark, ver, raw, rej, base>>
  BY DEF SetMark, vendor, run, ghost
<1>2. wm' # NoMark \/ wm' = wm
  BY MarkIsSafe DEF SetMark, IInv, NoMark
<1>3. wm # NoMark => wm' # NoMark
  BY <1>2
<1>4. ASSUME NEW r \in Due, r \notin Due' PROVE raw'[r] = ver'[r] \/ rej'[r] = ver'[r]
  <2>1. /\ r \in Records /\ vmark[r] # NoMark /\ vmark[r] >= base
        /\ Filtered(vmark[r], wm)' /\ ~ Filtered(vmark[r], wm)
    <3>1. r \in Records /\ vmark[r] # NoMark /\ vmark[r] >= base /\ ~ Filtered(vmark[r], wm)
      BY <1>4 DEF Due
    <3> QED
      BY <1>1, <1>4, <3>1 DEF Due
  <2>2. wm' # NoMark
    BY <1>1, <1>2, <2>1 DEF Filtered
  <2> QED
    BY <1>1, <2>1, <2>2 DEF IInv, NothingSkipped, Accounted, Filtered
<1>5. Past' = Past /\ Due' \subseteq Records
  BY <1>1 DEF Past, Due
<1>6. Promise!Forward(raw, raw', ver) /\ Promise!Forward(rej, rej', ver)
  BY <1>1 DEF Promise!Forward, IInv, TypeOK
<1> QED
  BY <1>1, <1>3, <1>4, <1>5, <1>6 DEF Promise!Ingest, Promise!Settled

LEMMA PromiseStep ==
  IInv /\ IInv' /\ PromiseInv /\ [Next]_vars => [Promise!Next]_Promise!vars
<1> SUFFICES ASSUME IInv, IInv', PromiseInv, [Next]_vars
             PROVE  [Promise!Next]_Promise!vars
  OBVIOUS
<1>1. CASE \E r \in Records : Change(r)
  BY <1>1, PromiseChange DEF Promise!Next
<1>2. CASE ReadCursor
  BY <1>2, PromiseHorizon DEF Promise!Next
<1>3. CASE SetMark
  BY <1>3, PromiseMark DEF Promise!Next
<1>4. CASE UNCHANGED <<vmark, ver, wm, base>>
  BY <1>4, PromiseLanding DEF Promise!Next
<1> QED
  BY <1>1, <1>2, <1>3, <1>4
     DEF Next, vars, vendor, ledger, table, run, ghost, Tick, Age, Reap, StartRun,
         Fetch, FetchPage, Consume, Take, Reject, StopInFetch, ReportPartial,
         ScanEnd, LandRest, Finish, Fail, RecordFailure, Crash

\* For every instance, the run of a source implements the promise: each of its
\* steps is one of the promise's or changes nothing the promise speaks of.
THEOREM RunKeepsPromise == Spec => KeepsPromise
<1>1. Init => PromiseInv
  BY ClockAssumption DEF Init, PromiseInv, Active, InScan
<1>2. Spec => []PromiseInv
  BY <1>1, Invariance, PromiseInvStep, PTL DEF Spec
<1> QED
  BY <1>2, Invariance, PromiseInit, PromiseStep, PTL
     DEF Spec, KeepsPromise, Promise!Spec

----------------------------------------------------------------------------
\* Dividing by four leaves at most three quarters over: what the next theorems
\* need of \div.
LEMMA Quarter ==
  ASSUME NEW cap \in Nat
  PROVE  /\ cap \div 4 \in Nat
         /\ 4 * (cap \div 4) <= cap /\ cap < 4 * (cap \div 4) + 4
  OBVIOUS

\* Whatever the two settings are, a run whose cap is stated has a deadline, and
\* at a cap of four seconds or more it comes before the cap with the spare time
\* left ("so the run stops before systemd kills it", resolve_deadline).  Below
\* four seconds the spare time is zero and the deadline is the cap.
THEOREM StopsBeforeTheCap ==
  ASSUME NEW given \in BOOLEAN, NEW deadline \in Int, NEW cap \in Nat, cap >= 4,
         NEW elapsed \in Int
  PROVE  LET d == Clock!ResolveDeadline(given, deadline, cap)
         IN  /\ d \in 0 .. cap - 1 /\ d + Clock!Spare(cap) <= cap /\ Clock!Spare(cap) >= 1
             /\ elapsed >= cap - Clock!Spare(cap) => Clock!Expired(d, elapsed)
<1>1. /\ cap \div 4 \in Nat /\ 4 * (cap \div 4) <= cap
      /\ cap < 4 * (cap \div 4) + 4
  BY Quarter
<1>2. /\ Clock!Spare(cap) \in Nat /\ Clock!Spare(cap) >= 1 /\ 4 * Clock!Spare(cap) <= cap
  BY <1>1 DEF Clock!Spare, Clock!DEADLINE_MARGIN_SEC
<1>3. /\ Clock!Ceiling(cap) \in 0 .. cap - 1 /\ Clock!Ceiling(cap) = cap - Clock!Spare(cap)
  BY <1>2 DEF Clock!Ceiling
<1> DEFINE d == Clock!ResolveDeadline(given, deadline, cap)
<1>4. d \in 0 .. Clock!Ceiling(cap)
  BY <1>3 DEF Clock!ResolveDeadline, Clock!Stated
<1>5. d \in 0 .. cap - 1 /\ d + Clock!Spare(cap) <= cap
  BY <1>2, <1>3, <1>4
<1>6. elapsed >= cap - Clock!Spare(cap) => Clock!Expired(d, elapsed)
  BY <1>2, <1>3, <1>4 DEF Clock!Expired
<1> QED  BY <1>2, <1>5, <1>6

\* A row that a run takes for dead is older than its process could be: past the
\* cap if one is stated, and otherwise past the deadline and the margin a run
\* has to wind down in, and past the cap units ship with.  It holds of a
\* process under the settings of the run that reaps, and not of one whose unit
\* states a longer cap than that run knows of.
THEOREM ReapsOnlyTheDead ==
  ASSUME NEW given \in BOOLEAN, NEW deadline \in Int, NEW cap \in Int, NEW age \in Int,
         Clock!TakenForDead(age, Clock!ResolveDeadline(given, deadline, cap), cap)
  PROVE  LET d == Clock!ResolveDeadline(given, deadline, cap)
         IN  /\ Clock!Expired(d, age) /\ age > d
             /\ Clock!Stated(cap) => age > cap
             /\ ~ Clock!Stated(cap) => /\ age > d + Clock!DEADLINE_MARGIN_SEC
                                       /\ age > Clock!DEFAULT_UNIT_CAP_SEC
<1> DEFINE d == Clock!ResolveDeadline(given, deadline, cap)
<1>1. CASE Clock!Stated(cap)
  <2>1. cap \in Nat /\ age > cap
    BY <1>1 DEF Clock!TakenForDead, Clock!ReapAfter, Clock!Stated
  <2>2. cap \div 4 \in Nat /\ 4 * (cap \div 4) <= cap
    BY <2>1, Quarter
  <2>3. Clock!Ceiling(cap) \in 0 .. cap
    BY <2>1, <2>2 DEF Clock!Ceiling, Clock!Spare, Clock!DEADLINE_MARGIN_SEC
  <2>4. d \in 0 .. cap
    BY <1>1, <2>3 DEF Clock!ResolveDeadline
  <2> QED  BY <1>1, <2>1, <2>4 DEF Clock!Expired
<1>2. CASE ~ Clock!Stated(cap)
  <2>1. d \in Int
    BY <1>2 DEF Clock!ResolveDeadline, Clock!DEFAULT_DEADLINE_SEC
  <2>2. d >= 0 /\ age > Clock!ReapAfter(d, cap)
    BY <1>2 DEF Clock!TakenForDead, Clock!Reaps
  <2>3. age > d + Clock!DEADLINE_MARGIN_SEC /\ age > Clock!DEFAULT_UNIT_CAP_SEC
    BY <1>2, <2>1, <2>2 DEF Clock!ReapAfter, Clock!DEADLINE_MARGIN_SEC, Clock!DEFAULT_UNIT_CAP_SEC
  <2> QED  BY <1>2, <2>1, <2>2, <2>3 DEF Clock!Expired, Clock!DEADLINE_MARGIN_SEC
<1> QED  BY <1>1, <1>2

----------------------------------------------------------------------------
\* What with_retries is called with: at least one attempt, and a poll and a call
\* of some length.
Sane ==
  /\ Attempts \in Nat \ {0} /\ BaseDelay \in Nat /\ MaxDelay \in Nat
  /\ Poll \in Nat \ {0} /\ CallMax \in Nat

\* The longest an attempt and the backoff after it take.
AttemptMax == CallMax + MaxDelay

ClockInv ==
  /\ Clock!TypeOK /\ Clock!HeededSoon /\ Clock!GivesUp
  /\ phase = "call" => ~ stopping
  /\ ~ stopping => late = 0
  /\ phase \in {"ask", "call", "backoff"} => attempt < Attempts
  /\ phase \in {"ask", "call"} => spent <= attempt * AttemptMax
  /\ phase = "backoff" => spent + remaining <= attempt * AttemptMax

LEMMA Attempting ==
  ASSUME Sane
  PROVE  /\ AttemptMax \in Nat
         /\ \A n \in Nat : n * AttemptMax \in Nat /\ (n + 1) * AttemptMax = n * AttemptMax + CallMax + MaxDelay
         /\ \A n \in Nat : n < Attempts =>
              n * AttemptMax + CallMax <= Attempts * CallMax + (Attempts - 1) * MaxDelay
<1>1. AttemptMax \in Nat /\ Attempts - 1 \in Nat
  BY DEF Sane, AttemptMax
<1>2. ASSUME NEW n \in Nat
      PROVE  n * AttemptMax \in Nat /\ (n + 1) * AttemptMax = n * AttemptMax + CallMax + MaxDelay
  BY <1>1 DEF Sane, AttemptMax
<1>3. ASSUME NEW n \in Nat, n < Attempts
      PROVE  n * AttemptMax + CallMax <= Attempts * CallMax + (Attempts - 1) * MaxDelay
  <2>1. Attempts * CallMax + (Attempts - 1) * MaxDelay = (Attempts - 1) * AttemptMax + CallMax
    BY DEF Sane, AttemptMax
  <2>2. n <= Attempts - 1
    BY <1>3 DEF Sane
  <2>3. n * AttemptMax <= (Attempts - 1) * AttemptMax
    BY <1>1, <2>2
  <2> QED  BY <1>1, <1>2, <2>1, <2>3 DEF Sane
<1> QED  BY <1>1, <1>2, <1>3

LEMMA DelaysBounded ==
  ASSUME Sane, NEW hint \in Int, NEW d \in Clock!Delays(hint) PROVE d \in 0 .. MaxDelay
<1>1. CASE hint >= 0
  BY <1>1 DEF Sane, Clock!Delays, Clock!Capped
<1>2. CASE ~ (hint >= 0)
  BY <1>2 DEF Clock!Delays
<1> QED  BY <1>1, <1>2

\* Time passes in steps of at most Longest, which a stop may start anywhere in.
LEMMA Passing ==
  ASSUME Sane, NEW t \in Nat, t <= Clock!Longest, Clock!TypeOK, Clock!HeededSoon, Clock!Pass(t),
         ~ stopping, ~ stopping => late = 0
  PROVE  /\ spent' = spent + t /\ spent' \in Nat
         /\ stopping' \in BOOLEAN /\ late' \in Nat /\ Clock!HeededSoon'
         /\ ~ stopping' => late' = 0
<1>1. spent' = spent + t /\ spent' \in Nat
  BY DEF Clock!Pass, Clock!TypeOK
<1>2. CASE UNCHANGED <<stopping, late>>
  <2>1. Clock!HeededSoon'
    BY <1>2 DEF Clock!HeededSoon, Clock!Longest
  <2> QED  BY <1>1, <1>2, <2>1 DEF Clock!TypeOK
<1>3. CASE stopping' = TRUE /\ late' \in 0 .. t
  <2>1. Clock!Longest' = Clock!Longest
    BY DEF Clock!Longest
  <2>2. late' \in Nat /\ late' <= t
    BY <1>3
  <2>3. late' <= Clock!Longest
    <3>1. Clock!Longest \in Nat
      BY DEF Clock!Longest, Sane
    <3> QED  BY <2>2, <3>1
  <2> QED  BY <1>1, <1>3, <2>1, <2>2, <2>3 DEF Clock!HeededSoon
<1> QED  BY <1>1, <1>2, <1>3 DEF Clock!Pass

LEMMA HeedInit == ASSUME Sane PROVE Clock!Init => ClockInv
<1>1. Clock!Longest \in Nat /\ AttemptMax \in Nat /\ 0 * AttemptMax = 0 /\ 0 < Attempts /\ CallMax \in Nat
  BY Attempting DEF Sane, Clock!Longest
<1> DEFINE most == Attempts * CallMax + (Attempts - 1) * MaxDelay
<1>2. 0 * AttemptMax + CallMax <= most
  BY <1>1, Attempting
<1>3. most \in Int
  BY DEF Sane
<1> HIDE DEF most
<1>4. 0 <= most
  BY <1>1, <1>2, <1>3
<1>5. Clock!Init => Clock!GivesUp
  BY <1>4 DEF Clock!Init, Clock!GivesUp, most
<1>6. Clock!Init => stopping \in BOOLEAN
  BY Zenon DEF Clock!Init
<1>7. Clock!Init => Clock!TypeOK /\ Clock!HeededSoon
  BY <1>1, <1>6 DEF Sane, Clock!Init, Clock!TypeOK, Clock!HeededSoon
<1>8. Clock!Init => spent <= attempt * AttemptMax /\ attempt < Attempts /\ phase = "ask" /\ late = 0
  BY <1>1 DEF Clock!Init
<1> QED  BY <1>5, <1>7, <1>8 DEF Clock!Init, ClockInv

LEMMA HeedStep ==
  ASSUME Sane, ClockInv, [Clock!Next]_(Clock!vars) PROVE ClockInv'
<1> USE DEF ClockInv
<1>0. /\ Attempts \in Nat \ {0} /\ MaxDelay \in Nat /\ CallMax \in Nat /\ Poll \in Nat \ {0}
      /\ Clock!Longest \in Nat /\ Clock!Longest' = Clock!Longest /\ AttemptMax' = AttemptMax /\ AttemptMax \in Nat
  BY Attempting DEF Sane, Clock!Longest, AttemptMax
<1>1. CASE Clock!Heed
  BY <1>1 DEF Clock!Heed, Clock!TypeOK, Clock!HeededSoon, Clock!GivesUp, Clock!Longest
<1>2. CASE Clock!Ask
  BY <1>2 DEF Clock!Ask, Clock!TypeOK, Clock!HeededSoon, Clock!GivesUp, Clock!Longest
<1>3. ASSUME NEW t \in 0 .. CallMax, Clock!Answered(t) PROVE ClockInv'
  <2>1. t \in Nat /\ t <= CallMax /\ t <= Clock!Longest
    BY <1>0 DEF Clock!Longest
  <2>2. /\ spent' = spent + t /\ spent' \in Nat
        /\ stopping' \in BOOLEAN /\ late' \in Nat /\ Clock!HeededSoon'
        /\ ~ stopping' => late' = 0
    BY <1>3, <2>1, Passing DEF Clock!Answered
  <2>3. phase' = "pages" /\ attempt' = attempt /\ remaining' = remaining /\ phase = "call"
    BY <1>3 DEF Clock!Answered
  <2>4. Clock!GivesUp'
    <3>1. attempt * AttemptMax \in Nat
          /\ attempt * AttemptMax + CallMax <= Attempts * CallMax + (Attempts - 1) * MaxDelay
      BY <2>3, Attempting DEF Clock!TypeOK
    <3>2. spent' <= attempt * AttemptMax + CallMax
      BY <1>0, <2>1, <2>2, <2>3, <3>1 DEF Clock!TypeOK
    <3> DEFINE most == Attempts * CallMax + (Attempts - 1) * MaxDelay
    <3>3. most \in Int
      BY <1>0
    <3>4. spent' <= most
      <4> HIDE DEF most
      <4>1. attempt * AttemptMax + CallMax <= most
        BY <3>1 DEF most
      <4> QED  BY <1>0, <2>2, <3>1, <3>2, <3>3, <4>1
    <3> QED  BY <3>4 DEF Clock!GivesUp
  <2>5. Clock!TypeOK'
    BY <2>2, <2>3 DEF Clock!TypeOK
  <2> QED  BY <2>2, <2>3, <2>4, <2>5
<1>4. ASSUME NEW t \in 0 .. CallMax, NEW hint \in Int, Clock!Failed(t, hint) PROVE ClockInv'
  <2>1. t \in Nat /\ t <= CallMax /\ t <= Clock!Longest
    BY <1>0 DEF Clock!Longest
  <2>2. /\ spent' = spent + t /\ spent' \in Nat
        /\ stopping' \in BOOLEAN /\ late' \in Nat /\ Clock!HeededSoon'
        /\ ~ stopping' => late' = 0
    BY <1>4, <2>1, Passing DEF Clock!Failed
  <2>3. phase = "call" /\ attempt' = attempt + 1 /\ attempt' \in 0 .. Attempts
    BY <1>0, <1>4 DEF Clock!Failed, Clock!TypeOK
  <2>4. /\ attempt \in Nat /\ attempt * AttemptMax \in Nat
        /\ (attempt + 1) * AttemptMax = attempt * AttemptMax + CallMax + MaxDelay
        /\ attempt * AttemptMax + CallMax <= Attempts * CallMax + (Attempts - 1) * MaxDelay
    BY <2>3, Attempting DEF Clock!TypeOK
  <2>5. spent' <= attempt * AttemptMax + CallMax
    BY <1>0, <2>1, <2>2, <2>3, <2>4 DEF Clock!TypeOK
  <2>6. Clock!GivesUp'
    <3> DEFINE most == Attempts * CallMax + (Attempts - 1) * MaxDelay
    <3>1. most \in Int
      BY <1>0
    <3>2. spent' <= most
      <4>1. attempt * AttemptMax + CallMax <= most
        BY <2>4
      <4> HIDE DEF most
      <4> QED  BY <1>0, <2>2, <2>4, <2>5, <3>1, <4>1
    <3> QED  BY <3>2 DEF Clock!GivesUp
  <2>7. CASE attempt + 1 < Attempts
    <3>1. phase' = "backoff" /\ remaining' \in 0 .. MaxDelay
      BY <1>4, <2>7, DelaysBounded DEF Clock!Failed
    <3>2. spent' + remaining' <= attempt' * AttemptMax
      BY <1>0, <2>2, <2>3, <2>4, <2>5, <3>1
    <3>3. Clock!TypeOK'
      BY <2>2, <2>3, <3>1 DEF Clock!TypeOK
    <3> QED  BY <1>0, <2>2, <2>3, <2>6, <2>7, <3>1, <3>2, <3>3
  <2>8. CASE ~ (attempt + 1 < Attempts)
    <3>1. phase' = "pages" /\ remaining' = remaining
      BY <1>4, <2>8 DEF Clock!Failed
    <3>2. Clock!TypeOK'
      BY <2>2, <2>3, <3>1 DEF Clock!TypeOK
    <3> QED  BY <2>2, <2>6, <3>1, <3>2
  <2> QED  BY <2>7, <2>8
<1>5. CASE Clock!Sleep
  <2> DEFINE step == IF Poll < remaining THEN Poll ELSE remaining
  <2>1. /\ phase = "backoff" /\ ~ stopping /\ phase' = phase /\ attempt' = attempt
        /\ Clock!Pass(step) /\ remaining' = remaining - step
    BY <1>5 DEF Clock!Sleep
  <2>2. step \in Nat /\ step <= Poll /\ step <= remaining /\ step <= Clock!Longest
    BY <1>0 DEF Clock!Longest, Clock!TypeOK
  <2> HIDE DEF step
  <2>3. /\ spent' = spent + step /\ spent' \in Nat
        /\ stopping' \in BOOLEAN /\ late' \in Nat /\ Clock!HeededSoon'
        /\ ~ stopping' => late' = 0
    BY <2>1, <2>2, Passing
  <2>4. remaining' \in 0 .. MaxDelay /\ spent' + remaining' = spent + remaining
    BY <1>0, <2>1, <2>2, <2>3 DEF Clock!TypeOK
  <2>5. Clock!TypeOK'
    BY <2>1, <2>3, <2>4 DEF Clock!TypeOK
  <2>6. attempt' < Attempts /\ spent' + remaining' <= attempt' * AttemptMax'
    BY <1>0, <2>1, <2>4
  <2>7. Clock!GivesUp'
    <3>1. /\ attempt * AttemptMax \in Nat
          /\ attempt * AttemptMax + CallMax <= Attempts * CallMax + (Attempts - 1) * MaxDelay
      BY <2>1, Attempting DEF Clock!TypeOK
    <3> DEFINE most == Attempts * CallMax + (Attempts - 1) * MaxDelay
    <3>2. most \in Int /\ attempt * AttemptMax + CallMax <= most
      BY <1>0, <3>1
    <3> HIDE DEF most
    <3>3. spent' <= attempt * AttemptMax
      BY <1>0, <2>1, <2>3, <2>4, <2>6, <3>1
    <3>4. spent' <= most
      BY <1>0, <2>3, <3>1, <3>2, <3>3
    <3> QED  BY <3>4 DEF Clock!GivesUp, most
  <2> QED  BY <2>1, <2>3, <2>5, <2>6, <2>7
<1>6. CASE Clock!Again
  BY <1>0, <1>6 DEF Clock!Again, Clock!TypeOK, Clock!HeededSoon, Clock!GivesUp, Clock!Longest
<1>7. CASE Clock!NextPage
  <2>1. 0 * AttemptMax = 0 /\ CallMax <= Attempts * CallMax + (Attempts - 1) * MaxDelay
    BY <1>0, Attempting
  <2>2. phase' = "ask" /\ attempt' = 0 /\ spent' = 0 /\ UNCHANGED <<remaining, stopping, late>>
    BY <1>7 DEF Clock!NextPage
  <2>3. spent' <= attempt' * AttemptMax'
    BY <1>0, <2>1, <2>2
  <2>4. Clock!GivesUp'
    <3> DEFINE most == Attempts * CallMax + (Attempts - 1) * MaxDelay
    <3>1. most \in Int /\ CallMax <= most
      BY <1>0, <2>1
    <3> HIDE DEF most
    <3>2. spent' <= most
      BY <1>0, <2>2, <3>1
    <3> QED  BY <3>2 DEF Clock!GivesUp, most
  <2> QED  BY <1>0, <2>2, <2>3, <2>4 DEF Clock!TypeOK, Clock!HeededSoon, Clock!Longest
<1>8. CASE UNCHANGED Clock!vars
  BY <1>0, <1>8 DEF Clock!vars, Clock!TypeOK, Clock!HeededSoon, Clock!GivesUp, Clock!Longest
<1> QED  BY <1>1, <1>2, <1>3, <1>4, <1>5, <1>6, <1>7, <1>8 DEF Clock!Next

LEMMA RetriesHold == ASSUME Sane PROVE Clock!Spec => []ClockInv
<1>1. Clock!Init => ClockInv
  BY HeedInit
<1>2. ClockInv /\ [Clock!Next]_(Clock!vars) => ClockInv'
  BY HeedStep
<1> QED  BY <1>1, <1>2, PTL DEF Clock!Spec

\* A stop waits for one call or one slice of a backoff, and a page for its
\* attempts and the backoffs between them, whatever the server answers.
THEOREM StopsAreHeeded ==
  ASSUME Sane
  PROVE  Clock!Spec => [](Clock!HeededSoon /\ Clock!GivesUp)
<1>1. ClockInv => Clock!HeededSoon /\ Clock!GivesUp
  BY DEF ClockInv
<1> QED  BY <1>1, RetriesHold, PTL

\* Put together: where a call fits in the spare time, a run that waits for a page
\* when its deadline passes has noticed before its cap ("so the run stops before
\* systemd kills it").  Only landing and closing the row are left to do then.
THEOREM NoticedBeforeTheCap ==
  ASSUME Sane, NEW given \in BOOLEAN, NEW deadline \in Int, NEW cap \in Nat, cap >= 4,
         Clock!Longest <= Clock!Spare(cap)
  PROVE  Clock!Spec => [](Clock!ResolveDeadline(given, deadline, cap) + late <= cap)
<1> DEFINE d == Clock!ResolveDeadline(given, deadline, cap)
<1>1. d \in Int /\ d + Clock!Spare(cap) <= cap /\ Clock!Spare(cap) \in Int
  <2>1. d \in 0 .. cap - 1 /\ d + Clock!Spare(cap) <= cap
    BY StopsBeforeTheCap
  <2>2. Clock!Spare(cap) \in Int
    BY Quarter DEF Clock!Spare, Clock!DEADLINE_MARGIN_SEC
  <2> QED  BY <2>1, <2>2
<1>2. Clock!Longest \in Nat
  BY DEF Sane, Clock!Longest
<1> HIDE DEF d
<1>3. ClockInv => d + late <= cap
  BY <1>1, <1>2 DEF ClockInv, Clock!TypeOK, Clock!HeededSoon
<1>4. ClockInv => Clock!ResolveDeadline(given, deadline, cap) + late <= cap
  BY <1>3 DEF d
<1> QED  BY <1>4, RetriesHold, PTL

=============================================================================
