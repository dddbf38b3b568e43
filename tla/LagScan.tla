------------------------------ MODULE LagScan ------------------------------
(***************************************************************************)
(* fetch() of the connectors whose records never change but arrive late,   *)
(* sources/xdr_alerts.py and sources/wazuh.py: alerts at or after the      *)
(* watermark less a lag, in order of detection, with no upper end.  An     *)
(* alert is detected at one time and can be queried some time after that.  *)
(* XDR alerts are paged by offset, Wazuh's by the sort key of the last hit;*)
(* which of the two an instance is does not change (keyset).               *)
(*                                                                         *)
(* A run takes time, and its unit ends it in the end; a deadline stops it  *)
(* at any record once it has read MinPages pages.  Like any source that    *)
(* yields in watermark order it then persists the highest mark it was      *)
(* given, also when that is below the cursor it started from.              *)
(***************************************************************************)
EXTENDS Integers, FiniteSets

CONSTANTS
  N,          \* alerts, by identity, in order of detection
  PageSize,
  Lag,        \* the trailing window every run re-reads
  Delay,      \* from detection to being queryable, at most
  RunTime,    \* from the start of a run to its end, at most
  MinPages,   \* pages a run reads before its deadline can stop it
  Backfill,   \* horizon of a first run (XDR)
  Burst,      \* several alerts may be detected at one time
  MaxClock,   \* bound: the clock
  MaxFaults   \* bound: runs that fail or are cut short

ASSUME SizeAssumption == /\ N \in Nat \ {0} /\ PageSize \in Nat \ {0}
                         /\ MinPages \in Nat /\ Backfill \in Nat
ASSUME TimeAssumption == /\ Lag \in Nat /\ Delay \in Nat /\ RunTime \in Nat
                         /\ MaxClock \in Nat \ {0} /\ MaxFaults \in Nat
ASSUME BurstAssumption == Burst \in BOOLEAN

Alerts == 1 .. N

VARIABLES
  keyset,   \* the source: paged by sort key (Wazuh) or by offset (XDR)
  clock,    \* shared by the vendor and the worker
  det,      \* detection time per alert (0: not detected yet)
  visible,  \* alerts a query finds
  raw,      \* alerts in the raw table
  wm,       \* the watermark (0: NULL)
  base,     \* history: the horizon of the run that started from no watermark
  pc, since, began, read,   \* the run: its window, its start, pages read
  frm, last,                \* where its next page starts: offset, or last row
  high, ceiling,            \* highest mark yielded; watermark ceiling (0: none)
  faults

vendor == <<keyset, clock, det, visible>>
place  == <<read, frm, last>>
scan   == <<since, began, place, high, ceiling>>
vars   == <<vendor, raw, wm, base, pc, scan, faults>>

Init ==
  /\ keyset \in BOOLEAN
  /\ clock = 1 /\ det = [i \in Alerts |-> 0] /\ visible = {}
  /\ raw = {} /\ wm = 0 /\ base = 0
  /\ pc = "idle" /\ since = 0 /\ began = 0 /\ read = 0
  /\ frm = 0 /\ last = 0 /\ high = 0 /\ ceiling = 0 /\ faults = 0

Detected == {i \in Alerts : det[i] # 0}
Fault == faults < MaxFaults /\ faults' = faults + 1

----------------------------------------------------------------------------
(* The vendor.  Times are bounded by what they are measured not to exceed. *)

MayPass ==
  /\ clock < MaxClock
  /\ \A i \in Detected \ visible : clock < det[i] + Delay
  /\ pc = "scan" => clock < began + RunTime

Tick ==
  /\ MayPass
  /\ clock' = clock + 1
  /\ UNCHANGED <<keyset, det, visible, raw, wm, base, pc, scan, faults>>

\* The next alert is detected: at the latest tick, and alone at it without
\* bursts.
Detect(i) ==
  /\ det[i] = 0 /\ \A j \in Alerts : j < i => det[j] # 0
  /\ ~ Burst => \A j \in Detected : det[j] < clock
  /\ det' = [det EXCEPT ![i] = clock]
  /\ UNCHANGED <<keyset, clock, visible, raw, wm, base, pc, scan, faults>>

Index(i) ==
  /\ i \in Detected \ visible
  /\ visible' = visible \cup {i}
  /\ UNCHANGED <<keyset, clock, det, raw, wm, base, pc, scan, faults>>

----------------------------------------------------------------------------
(* The run.                                                                *)

\* Where a run without a watermark starts: a bounded horizon for XDR alerts,
\* everything for Wazuh.
Horizon == IF keyset THEN 0 ELSE clock - Backfill

Since == IF wm = 0 THEN Horizon ELSE wm - Lag

Begin ==
  /\ pc = "idle"
  /\ since' = Since
  /\ base' = IF wm = 0 THEN Since ELSE base
  /\ began' = clock /\ read' = 0 /\ frm' = 0 /\ last' = 0
  /\ high' = 0 /\ ceiling' = 0
  /\ pc' = "scan"
  /\ UNCHANGED <<vendor, raw, wm, faults>>

Window == {i \in visible : det[i] >= since}

\* Alerts are numbered in order of detection, which is the order they are
\* sorted in; equal times are told apart by the alert's key.
Behind == IF keyset THEN {i \in Window : i > last}
          ELSE {i \in Window : Cardinality({j \in Window : j < i}) >= frm}

First(n) == {i \in Behind : Cardinality({j \in Behind : j < i}) < n}

Rows == First(PageSize)

\* Marks of rows that XDR served further below the highest one than the lag.  As
\* the rows of a page come in order of detection, the highest one is of a page
\* before: within the page no row is below one that it follows.
FarBelow(rows) == IF keyset \/ high = 0 THEN {}
                  ELSE {det[i] : i \in {j \in rows : det[j] < high - Lag}}

Lowest(S) == CHOOSE m \in S : \A k \in S : m <= k

\* Rows are landed and their marks taken.
Yield(rows) ==
  /\ raw' = raw \cup rows
  /\ high' \in {high} \cup {det[i] : i \in rows}
  /\ high' >= high /\ \A i \in rows : det[i] <= high'
  /\ LET far == FarBelow(rows)
     IN  ceiling' = IF far = {} THEN ceiling
                    ELSE IF ceiling = 0 THEN Lowest(far) ELSE Lowest(far \cup {ceiling})

\* Mutation: the watermark is the start of the run.
MarkBegan(h, c) == began

\* The mark a run persists: the highest it was given, under the ceiling,
\* whatever the cursor was.
Mark(h, c) == IF h = 0 THEN wm ELSE IF c # 0 /\ h > c THEN c ELSE h

\* Mutation: offsets that skip a row.
NextOffsetPast == frm + PageSize + 1

NextOffset == frm + PageSize

\* A full page is landed and the next one starts behind it.
FullPage ==
  /\ pc = "scan" /\ Cardinality(Rows) = PageSize
  /\ Yield(Rows)
  /\ read' = read + 1
  /\ frm' = NextOffset
  /\ last' \in Rows /\ \A i \in Rows : i <= last'
  /\ UNCHANGED <<vendor, wm, base, pc, since, began, faults>>

\* The run ends after these rows.
End(rows) ==
  /\ Yield(rows)
  /\ wm' = Mark(high', ceiling')
  /\ pc' = "idle"
  /\ UNCHANGED <<vendor, base, since, began, place>>

\* A short or an empty page is the last; so is a full one whose last hit has
\* no sort key to go on from.
LastPage ==
  /\ pc = "scan"
  /\ \/ Cardinality(Rows) < PageSize /\ UNCHANGED faults
     \/ keyset /\ Cardinality(Rows) = PageSize /\ Fault
  /\ End(Rows)

\* Mutation: a stopped run keeps its cursor, as an unordered source does.
StopKeepsCursor ==
  /\ pc = "scan" /\ read >= MinPages
  /\ pc' = "idle"
  /\ UNCHANGED <<vendor, raw, wm, base, scan, faults>>

\* The deadline: before a request (n = 0), or behind a row of its page.
Stop ==
  /\ pc = "scan" /\ read >= MinPages
  /\ \E n \in 0 .. PageSize - 1 : End(First(n))
  /\ UNCHANGED faults

\* Mutation: what the healthy shards hold is taken for the page.
TakePartial ==
  /\ keyset /\ pc = "scan"
  /\ Fault
  /\ \E rows \in SUBSET Rows : End(rows)

\* The request fails for good, shards of the indexer do, or the run is killed:
\* rows of earlier pages may have landed, the watermark stays.
Fail ==
  /\ pc = "scan"
  /\ Fault
  /\ pc' = "idle"
  /\ UNCHANGED <<vendor, raw, wm, base, scan>>

Scan == FullPage \/ LastPage \/ Stop

Next ==
  \/ Tick
  \/ \E i \in Alerts : Detect(i) \/ Index(i)
  \/ Begin
  \/ Scan
  \/ Fail

Spec == Init /\ [][Next]_vars

\* The timer starts runs, a run gets on or is stopped, time goes by and an
\* alert that was detected can be queried in the end.
FairSpec == Spec /\ WF_vars(Begin) /\ WF_vars(Scan) /\ WF_vars(Tick)
                 /\ \A i \in Alerts : WF_vars(Index(i))

----------------------------------------------------------------------------
(* Properties.                                                             *)

\* Types of the variables; the watermark is the detection time of an alert.
TypeOK ==
  /\ keyset \in BOOLEAN
  /\ clock \in 1 .. MaxClock /\ det \in [Alerts -> 0 .. MaxClock]
  /\ visible \subseteq Detected /\ raw \subseteq visible
  /\ wm \in {0} \cup {det[i] : i \in raw} /\ base \in Int
  /\ pc \in {"idle", "scan"} /\ since \in Int /\ began \in 0 .. clock
  /\ read \in Nat /\ frm \in Nat /\ last \in {0} \cup Alerts
  /\ high \in {0} \cup {det[i] : i \in raw} /\ ceiling \in 0 .. high
  /\ faults \in 0 .. MaxFaults

\* The next run reads from the watermark less the lag.
Promise == INSTANCE SourceFeed WITH
             Records <- Alerts,
             content <- [i \in Alerts |-> IF i \in Detected THEN 1 ELSE 0],
             landed <- [i \in Alerts |-> IF i \in raw THEN 1 ELSE 0],
             given <- [i \in Alerts |-> 0],
             due <- {i \in Detected : det[i] >= IF wm = 0 THEN base ELSE wm - Lag},
             past <- {i \in Detected : det[i] < base}, opened <- wm # 0

\* The scan implements the promise of a source: the window moves past an alert,
\* detected and perhaps not yet to be queried, only when it has landed ("an
\* alert indexed after the watermark has already advanced past its detection
\* time would be stepped over and never seen again").
KeepsPromise == Promise!Spec

\* When no more alerts are detected every one from the horizon on is landed,
\* though every run is stopped at its deadline.
CaughtUp == <>[](\A i \in Detected : base <= det[i] => i \in raw)

=============================================================================
