----------------------------- MODULE CortexScan -----------------------------
(***************************************************************************)
(* fetch() of the modification-ordered connectors, sources/xdr.py and      *)
(* sources/xsoar.py: a window of modification times, pinned at its upper   *)
(* end, read by offset in modification order while records go on being     *)
(* modified.  A record that is modified leaves the window and shifts the   *)
(* rows behind it one place forward; window_shrank (sources/_cortex.py)    *)
(* looks for that in the total of each page.  A reply may come without a   *)
(* total (Silent); nothing is compared then, nor with the reply after it.  *)
(*                                                                         *)
(* A page is answered in one piece and its rows are landed; what happens   *)
(* to rows between fetch() and the warehouse is the subject of IngestRun.  *)
(* Bulk edits give several records one modification time.                  *)
(***************************************************************************)
EXTENDS Integers, FiniteSets

CONSTANTS
  N,         \* records of the vendor are 1 .. N
  PageSize,
  Grain,     \* resolution of the query: 1 (XDR), ticks of a second (XSOAR)
  Lead,      \* how far the worker's clock is ahead of the vendor's
  Silent,    \* replies may come without a total
  MaxClock,  \* bound: the vendor's clock
  MaxStops   \* bound: runs that are stopped or fail

ASSUME SizeAssumption == N \in Nat \ {0} /\ PageSize \in Nat \ {0}
ASSUME ClockAssumption == Grain \in Nat \ {0} /\ Lead \in Nat /\ MaxClock \in Nat
ASSUME StopsAssumption == MaxStops \in Nat /\ Silent \in BOOLEAN

Records == 1 .. N

VARIABLES
  clock,    \* the vendor's
  mod,      \* modification time per record
  landed,   \* modification time of the version in the raw table (0: none)
  wm,       \* the watermark (0: NULL)
  pc, since, pin, frm,   \* the run: its window and its offset
  total,    \* total of the page before (0: it gave none, or no page yet)
  high,     \* highest mark yielded
  partial,  \* the run was reported incomplete
  stops

vendor == <<clock, mod>>
vars   == <<vendor, landed, wm, pc, since, pin, frm, total, high, partial, stops>>

\* Truncated to the resolution of the query.
FloorToSecond(t) == t - (t % Grain)

Init ==
  /\ clock = 1 /\ mod = [i \in Records |-> 1]
  /\ landed = [i \in Records |-> 0] /\ wm = 0
  /\ pc = "idle" /\ since = 0 /\ pin = 0 /\ frm = 0
  /\ total = 0 /\ high = 0 /\ partial = FALSE /\ stops = 0

\* Records are modified, at an instant of their own.
Modify ==
  /\ clock < MaxClock
  /\ clock' = clock + 1
  /\ \E S \in SUBSET Records :
       mod' = [i \in Records |-> IF i \in S THEN clock + 1 ELSE mod[i]]
  /\ UNCHANGED <<landed, wm, pc, since, pin, frm, total, high, partial, stops>>

----------------------------------------------------------------------------
\* Mutation: the window starts behind the cursor's own instant.
SinceAfter == IF wm = 0 THEN 0 ELSE FloorToSecond(wm) + 1

Since == FloorToSecond(wm)

\* Both ends of the window are fixed before the first page.
Begin ==
  /\ pc = "idle"
  /\ since' = Since /\ pin' = FloorToSecond(clock + Lead)
  /\ frm' = 0 /\ total' = 0 /\ high' = 0 /\ partial' = FALSE
  /\ pc' = "scan"
  /\ UNCHANGED <<vendor, landed, wm, stops>>

Window == {i \in Records : since <= mod[i] /\ mod[i] <= pin}

Rank(i) == Cardinality({j \in Window : mod[j] < mod[i] \/ (mod[j] = mod[i] /\ j < i)})

Rows == {i \in Window : frm <= Rank(i) /\ Rank(i) < frm + PageSize}

\* What a reply may say of the size of the window; 0: nothing.
TotalsGiven == {Cardinality(Window)} \cup (IF Silent THEN {0} ELSE {})

\* Mutation: the totals are not compared.
WindowNeverShrank(now) == FALSE

\* Two totals are compared, or none.
WindowShrank(now) == total > 0 /\ now > 0 /\ now < total

\* An ordered run, stopped or not, writes the highest mark it was given.
Close(mark, note) ==
  /\ wm' = IF mark = 0 THEN wm ELSE mark
  /\ pc' = "idle" /\ partial' = note

\* The page is empty: the end of the window.
EmptyPage ==
  /\ pc = "scan" /\ Rows = {}
  /\ Close(high, partial)
  /\ UNCHANGED <<vendor, landed, since, pin, frm, total, high, stops>>

\* The window shrank since the page before: the run stops in front of this one.
StopAtShrunk ==
  /\ pc = "scan" /\ Rows # {}
  /\ \E now \in TotalsGiven : WindowShrank(now)
  /\ Close(high, TRUE)
  /\ UNCHANGED <<vendor, landed, since, pin, frm, total, high, stops>>

\* Mutation: the next page starts one row early.
NextOffsetShort == frm + PageSize - 1

NextOffset == frm + PageSize

\* The rows of the page are yielded; a short page is the last one.
Page ==
  /\ pc = "scan" /\ Rows # {}
  /\ total' \in TotalsGiven /\ ~ WindowShrank(total')
  /\ landed' = [i \in Records |-> IF i \in Rows THEN mod[i] ELSE landed[i]]
  /\ high' \in {mod[i] : i \in Rows} /\ \A i \in Rows : mod[i] <= high'
  /\ IF Cardinality(Rows) < PageSize
     THEN Close(high', partial) /\ UNCHANGED frm
     ELSE frm' = NextOffset /\ UNCHANGED <<wm, pc, partial>>
  /\ UNCHANGED <<vendor, since, pin, stops>>

\* A deadline or a stop between two pages: what was read is kept; an error, and
\* the watermark stays where it was.
Stop ==
  /\ pc = "scan" /\ stops < MaxStops
  /\ stops' = stops + 1
  /\ \E mark \in {high, 0} : Close(mark, TRUE)
  /\ UNCHANGED <<vendor, landed, since, pin, frm, total, high>>

Scan == EmptyPage \/ StopAtShrunk \/ Page

Next == Modify \/ Begin \/ Scan \/ Stop

Spec == Init /\ [][Next]_vars

\* The timer starts runs, a run gets on, the vendor's clock goes on.
FairSpec == Spec /\ WF_vars(Begin) /\ WF_vars(Scan) /\ WF_vars(Modify)

----------------------------------------------------------------------------
(* Properties.                                                             *)

\* Types of the variables; an offset is a whole number of pages.
TypeOK ==
  /\ clock \in Nat /\ mod \in [Records -> Nat] /\ landed \in [Records -> Nat]
  /\ wm \in Nat /\ pc \in {"idle", "scan"} /\ since \in Nat /\ pin \in Nat
  /\ frm \in Nat /\ frm % PageSize = 0
  /\ total \in 0 .. N /\ high \in Nat /\ partial \in BOOLEAN
  /\ stops \in Nat

\* The next run asks for what its truncated window will hold.
Promise == INSTANCE SourceFeed WITH
             content <- mod, given <- [i \in Records |-> 0],
             due <- {i \in Records : mod[i] >= Since}, past <- {},
             opened <- wm # 0

\* The scan implements the promise of a source: whatever is modified while it
\* pages, no step leaves a record outside the next window that is not landed as
\* it is, since a row stepped over by the offset would never be asked for again
\* ("the loss is permanent, not transient: the skipped row's modification_time
\* is below the watermark").
KeepsPromise == Promise!Spec

\* A run that ends without a note has landed what is in its window ("the scan
\* stops at the last page known to be contiguous and reports the run as
\* incomplete").
CleanScanIsComplete ==
  [][pc = "scan" /\ pc' = "idle" /\ ~ partial'
       => \A i \in Window : landed'[i] = mod[i]]_vars

\* When records come to rest, all of them are landed as they are.
CaughtUp == <>[](\A i \in Records : landed[i] = mod[i])

=============================================================================
