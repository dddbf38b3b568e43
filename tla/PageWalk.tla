------------------------------ MODULE PageWalk ------------------------------
(***************************************************************************)
(* fetch() of the sources that are re-read in full on every run. KSAT      *)
(* enrollments (sources/ksat.py) are a walk over the training campaigns    *)
(* and one over the enrollments of each, KSAT phishing runs                *)
(* (sources/ksat_phishing_runs.py) a single walk: both use paginate() of   *)
(* sources/_ksat.py, which asks for page after page by number and checks   *)
(* at the end that it saw as many records as the server said there are.    *)
(* Endpoints (sources/xdr_endpoints.py) are read by offset in the order of *)
(* their ids, with no such check and no cap.                               *)
(*                                                                         *)
(* The server adds to its collections while they are walked. It removes    *)
(* from them and reorders them between runs or, with Shuffles, under one.  *)
(* A KSAT answer may be short of what its pagination block says, a server  *)
(* may leave that block out, or serve its first page for ever. Records     *)
(* change in place: an enrollment is completed, an agent loses its policy. *)
(* The status filters of the enrollments source are unset, as by default.  *)
(***************************************************************************)
EXTENDS Integers, SequencesExt

CONSTANTS
  Campaigns, Leaves,   \* training campaigns; what is landed, numbered
  Kinds,        \* the sources that are run
  Per,          \* records per page
  PageWalkCap,  \* PAGE_WALK_CAP of _ksat.py
  Shuffles,     \* collections are reordered and lose records under a run
  MaxChanges,   \* bound: changes at the server
  MaxFaults     \* bound: servers that misbehave, requests that fail

Root == "root"

ASSUME NodesAssumption ==
  /\ IsFiniteSet(Campaigns \cup Leaves) /\ Leaves \subseteq Nat
  /\ Root \notin Campaigns /\ Campaigns \cap Leaves = {}
ASSUME SizeAssumption == Per \in Nat \ {0} /\ PageWalkCap \in Nat \ {0}
ASSUME KindAssumption == /\ Kinds \subseteq {"enrollments", "phishing runs", "endpoints"}
                         /\ Shuffles \in BOOLEAN
                         /\ MaxChanges \in Nat /\ MaxFaults \in Nat

VARIABLES
  kind,     \* the source
  coll,     \* per collection: its records in the server's order
  ver,      \* per leaf: the content it has
  raw,      \* per leaf: the content in the raw table (0: no row)
  pc,       \* the run walks a collection or not
  mode,     \* the server of this run: reports, silent on pagination, or stuck
  at, todo, \* the collection being walked and those still to be
  page, count, total, pages,   \* paginate(): page, collected, total_count, pages
  found,    \* campaigns collected
  got,      \* leaves yielded by this run
  partial,  \* report_partial was called
  note,     \* the ledger row of the last run has a note, or is FAILED
  stay,     \* history: records that never left since the run began
  changes, faults

server == <<kind, coll, ver, stay, changes>>
walk   == <<mode, at, todo, page, count, total, pages, found, got, partial>>
vars   == <<server, raw, pc, walk, note, faults>>

Unknown == -1     \* total_count and pages before any answer carried them

Fault == faults < MaxFaults /\ faults' = faults + 1

\* Leaves are listed per campaign; pages are asked for by offset, in order.
Nested  == kind = "enrollments"
Ordered == kind = "endpoints"

Collections == {Root} \cup Campaigns
Nodes == Campaigns \cup Leaves
Listed == UNION {Range(coll[c]) : c \in Collections}
MayHold(c) == IF Nested /\ c = Root THEN Campaigns
              ELSE IF Nested \/ c = Root THEN Leaves ELSE {}

Init ==
  /\ kind \in Kinds
  /\ coll = [c \in Collections |-> << >>]
  /\ ver = [x \in Leaves |-> 1] /\ raw = [x \in Leaves |-> 0]
  /\ pc = "idle" /\ mode = "reports" /\ at = Root /\ todo = {}
  /\ page = 1 /\ count = 0 /\ total = Unknown /\ pages = Unknown
  /\ found = {} /\ got = {} /\ partial = FALSE /\ note = FALSE
  /\ stay = {} /\ changes = 0 /\ faults = 0

----------------------------------------------------------------------------
(* The server.                                                             *)

Changed == changes < MaxChanges /\ changes' = changes + 1

\* A new record comes last, or where its id belongs.
Belongs(s, i, x) == IF Ordered THEN \A j \in DOMAIN s : s[j] < x <=> j < i ELSE i = Len(s) + 1

Create(c, x) ==
  /\ Changed
  /\ x \in MayHold(c) \ Listed
  /\ \E i \in 1 .. Len(coll[c]) + 1 :
       Belongs(coll[c], i, x) /\ coll' = [coll EXCEPT ![c] = InsertAt(@, i, x)]
  /\ UNCHANGED <<kind, ver, stay, raw, pc, walk, note, faults>>

\* An enrollment is completed, an agent is updated.
Progress(x) ==
  /\ Changed
  /\ x \in Listed
  /\ ver' = [ver EXCEPT ![x] = @ + 1]
  /\ UNCHANGED <<kind, coll, stay, raw, pc, walk, note, faults>>

\* A record leaves its collection, or moves to the front of it.
Shuffle(c) ==
  /\ pc = "idle" \/ Shuffles
  /\ Changed
  /\ \E i \in DOMAIN coll[c] :
       \/ coll' = [coll EXCEPT ![c] = RemoveAt(@, i)] /\ stay' = stay \ {coll[c][i]}
       \/ /\ ~ Ordered /\ UNCHANGED stay
          /\ coll' = [coll EXCEPT ![c] = <<@[i]>> \o RemoveAt(@, i)]
  /\ UNCHANGED <<kind, ver, raw, pc, walk, note, faults>>

----------------------------------------------------------------------------
(* The run.                                                                *)

Begin ==
  /\ pc = "idle"
  /\ pc' = "walk"
  /\ \/ mode' = (IF Ordered THEN "silent" ELSE "reports") /\ UNCHANGED faults
     \/ ~ Ordered /\ mode' \in {"silent", "stuck"} /\ Fault
  /\ at' = Root /\ todo' = {}
  /\ page' = 1 /\ count' = 0 /\ total' = Unknown /\ pages' = Unknown
  /\ found' = {} /\ got' = {} /\ partial' = FALSE
  /\ stay' = Listed
  /\ UNCHANGED <<kind, coll, ver, raw, note, changes>>

\* What page p of collection c holds.
PageOf(c, p) == SubSeq(coll[c], (p - 1) * Per + 1,
                       IF p * Per < Len(coll[c]) THEN p * Per ELSE Len(coll[c]))

\* A stuck server knows its first page only.
Served == PageOf(at, IF mode = "stuck" THEN 1 ELSE page)

\* A page cut short, by a server that reports pagination.
Cut == {SubSeq(Served, 1, n) : n \in 0 .. Len(Served) - 1}

\* total_count and pages keep what an earlier answer said.
TotalNow == IF mode = "reports" THEN Len(coll[at]) ELSE total
PagesNow == IF mode = "reports" THEN (Len(coll[at]) + Per - 1) \div Per ELSE pages

\* Mutation: only enrollments not landed before, as a filter on their creation
\* time would have it.
NeverLanded(nodes) == {x \in Range(nodes) \cap Leaves : raw[x] = 0}

LeavesOf(nodes) == Range(nodes) \cap Leaves

\* Leaves are yielded and land, campaigns are collected.
Yield(nodes) ==
  /\ got' = got \cup LeavesOf(nodes)
  /\ raw' = [x \in Leaves |-> IF x \in LeavesOf(nodes) THEN ver[x] ELSE raw[x]]
  /\ found' = found \cup (Range(nodes) \cap Campaigns)

\* The walk ends with an empty page, the last one by number, or a short one.
IsLast(nodes) ==
  nodes = << >> \/ (PagesNow # Unknown /\ page >= PagesNow) \/ Len(nodes) < Per

AtCap == ~ Ordered /\ page >= PageWalkCap

\* Mutation: a short walk is only logged.
NeverShort(nodes) == FALSE

\* Fewer records than the server said there are.
IsShort(nodes) == TotalNow # Unknown /\ count + Len(nodes) < TotalNow

\* Mutation: the cap is reached one page late.
PastCap ==
  /\ pc = "walk" /\ ~ IsLast(Served) /\ page <= PageWalkCap
  /\ Yield(Served)
  /\ count' = count + Len(Served) /\ total' = TotalNow /\ pages' = PagesNow
  /\ page' = page + 1
  /\ UNCHANGED <<server, pc, mode, at, todo, partial, note, faults>>

\* An answer after which the walk goes on.
Turn ==
  /\ pc = "walk" /\ ~ IsLast(Served) /\ ~ AtCap
  /\ Yield(Served)
  /\ count' = count + Len(Served) /\ total' = TotalNow /\ pages' = PagesNow
  /\ page' = page + 1
  /\ UNCHANGED <<server, pc, mode, at, todo, partial, note, faults>>

\* Mutation: a walked collection stays among those to be walked.
WalkOverAgain(nodes) ==
  /\ Yield(nodes)
  /\ partial' = (partial \/ IsShort(nodes) \/ ~ IsLast(nodes))
  /\ page' = 1 /\ count' = 0 /\ total' = Unknown /\ pages' = Unknown
  /\ LET rest == IF Nested /\ at = Root THEN found' ELSE todo
     IN  \/ \E c \in rest : at' = c /\ todo' = rest /\ UNCHANGED <<pc, note>>
         \/ rest = {} /\ pc' = "idle" /\ note' = partial' /\ UNCHANGED <<at, todo>>
  /\ UNCHANGED <<server, mode>>

\* The walk of one collection is over; the run takes up another one or ends.  A
\* campaign that pages repeated is walked once here; the code walks it as often
\* as it was served, which reads the same enrollments again.
WalkOver(nodes) ==
  /\ Yield(nodes)
  /\ partial' = (partial \/ IsShort(nodes) \/ ~ IsLast(nodes))
  /\ page' = 1 /\ count' = 0 /\ total' = Unknown /\ pages' = Unknown
  /\ LET rest == IF Nested /\ at = Root THEN found' ELSE todo
     IN  \/ \E c \in rest : at' = c /\ todo' = rest \ {c} /\ UNCHANGED <<pc, note>>
         \/ rest = {} /\ pc' = "idle" /\ note' = partial' /\ UNCHANGED <<at, todo>>
  /\ UNCHANGED <<server, mode>>

LastTurn ==
  /\ pc = "walk"
  /\ \/ (IsLast(Served) \/ AtCap) /\ WalkOver(Served) /\ UNCHANGED faults
     \/ mode = "reports" /\ Fault /\ \E nodes \in Cut : WalkOver(nodes)

\* Retries are used up, the server reports errors, with data or without, or the
\* run is stopped: what was yielded has landed and the row says so.
Fail ==
  /\ pc = "walk"
  /\ Fault
  /\ pc' = "idle" /\ note' = TRUE
  /\ UNCHANGED <<server, raw, walk>>

Run == Begin \/ Turn \/ LastTurn

Next ==
  \/ \E c \in Collections : Shuffle(c) \/ \E x \in Nodes : Create(c, x)
  \/ \E x \in Leaves : Progress(x)
  \/ Run
  \/ Fail

Spec == Init /\ [][Next]_vars

\* The timer starts runs and an answer comes in the end.
FairSpec == Spec /\ WF_vars(Run)

----------------------------------------------------------------------------
(* Properties.                                                             *)

\* Types of the variables; no KSAT walk passes the cap.
TypeOK ==
  /\ \A c \in Collections : Range(coll[c]) \subseteq MayHold(c)
  /\ ver \in [Leaves -> Nat] /\ raw \in [Leaves -> Nat]
  /\ pc \in {"idle", "walk"} /\ mode \in {"reports", "silent", "stuck"}
  /\ at \in Collections /\ todo \subseteq Campaigns
  /\ kind \in Kinds /\ page \in Nat \ {0} /\ (page <= PageWalkCap \/ Ordered) /\ count \in Nat
  /\ total \in Nat \cup {Unknown} /\ pages \in Nat \cup {Unknown}
  /\ found \subseteq Campaigns /\ got \subseteq Leaves
  /\ partial \in BOOLEAN /\ note \in BOOLEAN
  /\ stay \subseteq Nodes /\ changes \in Nat /\ faults \in Nat

\* Leaves that could be seen all through the run: they never left, nor did the
\* campaign that lists them.
Throughout ==
  {x \in stay \cap Leaves :
     Nested => \E c \in stay \cap Campaigns : x \in Range(coll[c])}

\* A run that closes without a note has yielded every record that was there all
\* through it: a short read is a note "at the moment it happens rather than a
\* row count nobody queries months later" (paginate).
CleanRunIsComplete ==
  [][pc = "walk" /\ pc' = "idle" /\ ~ note' => Throughout \subseteq got']_vars

\* Every run ends, also one against a server that serves its first page for
\* ever and says nothing of how many there are.
RunEnds == pc = "walk" ~> pc = "idle"

\* When the server is quiet, every record is landed as it is: a re-read sees an
\* enrollment change after it was first landed.
CaughtUp == <>[](\A x \in Leaves \cap Listed :
                   (Nested => \E c \in Range(coll[Root]) : x \in Range(coll[c]))
                     => raw[x] = ver[x])

=============================================================================
