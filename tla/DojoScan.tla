------------------------------ MODULE DojoScan ------------------------------
(***************************************************************************)
(* fetch() and _get_page() of sources/defectdojo.py: the whole collection  *)
(* read by offset in descending id order, records at or below the cursor   *)
(* left out, pages made smaller when the server does not answer in time    *)
(* and larger again after some clean ones.  Findings are created at the    *)
(* front, modified in place and deleted, between scans or, with            *)
(* DeleteUnderScan, under one.  The watermark is capped at the start of    *)
(* the scan on the worker's clock less Skew.                               *)
(***************************************************************************)
EXTENDS Integers, FiniteSets

CONSTANTS
  N,             \* bound: findings ever created; ids are 1 .. N
  PageSize, MinPageSize, ShrinkFactor, GrowAfter,   \* as in the module
  Skew,          \* DEFAULT_CLOCK_SKEW_SEC
  Lead,          \* how far the worker's clock is ahead of the server's
  DeleteUnderScan,   \* findings may be deleted while a scan runs
  MaxClock,      \* bound: the server's clock
  MaxFaults      \* bound: timeouts, failures and stops

ASSUME SizeAssumption ==
  /\ MinPageSize \in Nat \ {0} /\ PageSize \in Nat /\ MinPageSize <= PageSize
  /\ ShrinkFactor \in Nat /\ ShrinkFactor > 1 /\ GrowAfter \in Nat /\ N \in Nat \ {0}
ASSUME SkewAssumption == Skew \in Nat /\ Lead \in Nat /\ DeleteUnderScan \in BOOLEAN
ASSUME BoundsAssumption == MaxClock \in Nat /\ MaxFaults \in Nat

Ids == 1 .. N

VARIABLES
  clock, newest,       \* the server: its clock and the highest id
  present, mod,        \* the findings that exist, last_status_update per id
  landed,              \* last_status_update of the version in raw (0: none)
  wm,                  \* the watermark (0: NULL)
  pc, cap, offset, high,         \* the run
  size, successes, growAfter,    \* its page policy
  faults

server == <<clock, newest, present, mod>>
run    == <<cap, offset, high>>
policy == <<size, successes, growAfter>>
vars   == <<server, landed, wm, pc, run, policy, faults>>

Fault == faults < MaxFaults /\ faults' = faults + 1

Smaller(a, b) == IF a < b THEN a ELSE b
Larger(a, b)  == IF a > b THEN a ELSE b

Init ==
  /\ clock = 1 /\ newest = N - 1 /\ present = 1 .. N - 1
  /\ mod = [i \in Ids |-> 1] /\ landed = [i \in Ids |-> 0] /\ wm = 0
  /\ pc = "idle" /\ cap = 0 /\ offset = 0 /\ high = 0
  /\ size = PageSize /\ successes = 0 /\ growAfter = GrowAfter
  /\ faults = 0

----------------------------------------------------------------------------
(* The server.                                                             *)

Touch(i) == clock' = clock + 1 /\ mod' = [mod EXCEPT ![i] = clock + 1]

Create ==
  /\ clock < MaxClock /\ newest < N
  /\ newest' = newest + 1 /\ present' = present \cup {newest + 1}
  /\ Touch(newest + 1)
  /\ UNCHANGED <<landed, wm, pc, run, policy, faults>>

Modify ==
  /\ clock < MaxClock
  /\ \E i \in present : Touch(i)
  /\ UNCHANGED <<newest, present, landed, wm, pc, run, policy, faults>>

Delete ==
  /\ pc = "idle" \/ DeleteUnderScan
  /\ clock < MaxClock /\ clock' = clock + 1
  /\ \E i \in present : present' = present \ {i}
  /\ UNCHANGED <<newest, mod, landed, wm, pc, run, policy, faults>>

\* Time goes by without a change, to the end of what is looked at.
Pass ==
  /\ clock < MaxClock + Skew
  /\ clock' = clock + 1
  /\ UNCHANGED <<newest, present, mod, landed, wm, pc, run, policy, faults>>

----------------------------------------------------------------------------
Cap == clock + Lead - Skew

\* A run begins with the full page size.
Begin ==
  /\ pc = "idle"
  /\ cap' = Cap /\ offset' = 0 /\ high' = 0
  /\ size' = PageSize /\ successes' = 0 /\ growAfter' = GrowAfter
  /\ pc' = "page"
  /\ UNCHANGED <<server, landed, wm, faults>>

\* Mutation: no floor under the page size.
ShrunkToNothing == size \div ShrinkFactor

Shrunk == Larger(MinPageSize, size \div ShrinkFactor)

\* The page does not come in time: the same offset is asked for less, and
\* growing back takes twice as many clean pages as before.
Timeout ==
  /\ pc = "page" /\ size > MinPageSize
  /\ Fault
  /\ size' = Shrunk /\ growAfter' = 2 * growAfter /\ successes' = 0
  /\ UNCHANGED <<server, landed, wm, pc, run>>

\* A timeout at the floor, another error, a stop: the source is not ordered,
\* so the watermark stays.
GiveUp ==
  /\ pc = "page"
  /\ Fault
  /\ pc' = "idle"
  /\ UNCHANGED <<server, landed, wm, run, policy>>

Rows == LET rank(i) == Cardinality({j \in present : j > i})
        IN  {i \in present : offset <= rank(i) /\ rank(i) < offset + size}

Fresh(rows) == {i \in rows : mod[i] > wm}

Grown == IF size < PageSize /\ successes + 1 >= growAfter
         THEN Smaller(PageSize, size * ShrinkFactor) ELSE size

\* The size of the next page, and the count of clean pages towards a larger
\* one; at full size the count is of no use.
Regrow ==
  /\ size' = Grown
  /\ successes' = IF size < PageSize /\ successes + 1 < growAfter THEN successes + 1 ELSE 0
  /\ UNCHANGED growAfter

\* Mutation: the offset moves by the size of the next page.
AfterNextSize == offset + Grown

\* Mutation: the offset does not move.
OffsetStuck == offset

NextOffset == offset + size

\* Of a page, what is newer than the cursor is yielded and lands.
Yield ==
  /\ landed' = [i \in Ids |-> IF i \in Fresh(Rows) THEN mod[i] ELSE landed[i]]
  /\ high' \in {high} \cup {mod[i] : i \in Fresh(Rows)}
  /\ high' >= high /\ \A i \in Fresh(Rows) : high' >= mod[i]

Page ==
  /\ pc = "page" /\ Cardinality(present) > offset + size
  /\ Yield /\ Regrow
  /\ offset' = NextOffset
  /\ UNCHANGED <<server, wm, pc, cap, faults>>

\* The last page, or an empty one, ends the scan; the run persists the highest
\* mark it saw, or the cap if that is lower.
LastPage ==
  /\ pc = "page" /\ Cardinality(present) <= offset + size
  /\ Yield
  /\ wm' = IF high' = 0 THEN wm ELSE Smaller(high', cap)
  /\ pc' = "idle"
  /\ UNCHANGED <<server, cap, offset, policy, faults>>

Scan == Page \/ LastPage

Next ==
  \/ Create \/ Modify \/ Delete \/ Pass
  \/ Begin \/ Timeout \/ GiveUp \/ Scan

Spec == Init /\ [][Next]_vars

\* The timer starts runs, an answer comes in the end, time goes by.
FairSpec == Spec /\ WF_vars(Begin) /\ WF_vars(Scan) /\ WF_vars(Pass)

----------------------------------------------------------------------------
(* Properties.                                                             *)

\* Types of the variables; no page is smaller than the floor or larger than
\* asked for.
TypeOK ==
  /\ clock \in Nat /\ newest \in 0 .. N /\ present \subseteq Ids
  /\ mod \in [Ids -> Nat] /\ landed \in [Ids -> Nat] /\ wm \in Int
  /\ pc \in {"idle", "page"} /\ cap \in Int /\ offset \in Nat /\ high \in Nat
  /\ size \in MinPageSize .. PageSize
  /\ successes \in Nat /\ growAfter \in Nat /\ faults \in Nat

\* The next run yields what is newer than the watermark.
Promise == INSTANCE SourceFeed WITH
             Records <- Ids,
             content <- [i \in Ids |-> IF i \in present THEN mod[i] ELSE 0],
             given <- [i \in Ids |-> 0],
             due <- {i \in present : mod[i] > wm}, past <- {}, opened <- TRUE

\* The scan implements the promise of a source: through creations and changes
\* under it, pages that shrink and grow and scans given up, it moves the
\* watermark only past findings that are landed as they are, ties included
\* ("strictly newer, and no ties are dropped"; "the start ... is the highest
\* mark this run can vouch for").
KeepsPromise == Promise!Spec

\* When findings come to rest, all of them are landed as they are.
CaughtUp == <>[](\A i \in present : landed[i] = mod[i])

=============================================================================
