----------------------------- MODULE SourceFeed -----------------------------
(***************************************************************************)
(* What a source promises to whoever reads the raw table, whatever way it  *)
(* pages, orders and resumes.  Runs, marks and pages are not visible here: *)
(* a record is due while the next run would ask the vendor for it, and a   *)
(* step of the source may stop asking only for what it has dealt with.     *)
(* IngestRun, CortexScan, DojoScan and LagScan implement this, and         *)
(* Transform does with the raw table in the place of the vendor, each with *)
(* its own reading of "due".                                               *)
(***************************************************************************)
EXTENDS Integers, TLAPS

CONSTANT Records

VARIABLES
  content,   \* per record: its content at the vendor, growing (0: none)
  landed,    \* per record: its content in the raw table (0: no row)
  given,     \* per record: the content given up as malformed (0: none)
  due,       \* records the next run asks for
  past,      \* records below the horizon of the first run
  opened     \* the source has a watermark

table == <<landed, given>>
vars  == <<content, table, due, past, opened>>

Settled(r) == landed[r] = content[r] \/ given[r] = content[r]

Init ==
  /\ content \in [Records -> Nat]
  /\ landed = [r \in Records |-> 0] /\ given = [r \in Records |-> 0]
  /\ due = {r \in Records : content[r] # 0}
  /\ past = {} /\ opened \in BOOLEAN

\* Records are created or change: they are due again, those that were below
\* the horizon too.
Change ==
  /\ content' \in [Records -> Nat]
  /\ \E R \in SUBSET Records :
       /\ \A r \in R : content'[r] > content[r]
       /\ \A r \in Records \ R : content'[r] = content[r]
       /\ due' = due \cup R /\ past' = past \ R
  /\ UNCHANGED <<table, opened>>

\* A record is deleted at the vendor; its row stays.
Remove ==
  /\ \E r \in Records :
       /\ content' = [content EXCEPT ![r] = 0]
       /\ due' = due \ {r} /\ past' = past \ {r}
  /\ UNCHANGED <<table, opened>>

\* A row is as it was, or newer and of a content the vendor had.
Forward(was, is, at) ==
  /\ is \in [Records -> Nat]
  /\ \A r \in Records : is[r] = was[r] \/ (was[r] < is[r] /\ is[r] <= at[r])

\* Rows land, or a watermark is written, or both.  What is no longer due is
\* settled; a watermark is not taken back.
Ingest ==
  /\ Forward(landed, landed', content) /\ Forward(given, given', content)
  /\ due' \subseteq Records
  /\ \A r \in due \ due' : Settled(r)'
  /\ opened => opened'
  /\ UNCHANGED <<content, past>>

\* Until there is a watermark, every run reads from its own horizon.
Horizon ==
  /\ ~ opened
  /\ due' \subseteq Records /\ past' \subseteq Records
  /\ due \cup past \subseteq due' \cup past'
  /\ UNCHANGED <<content, table, opened>>

Next == Change \/ Remove \/ Ingest \/ Horizon

Spec == Init /\ [][Next]_vars

----------------------------------------------------------------------------
\* Types of the variables; nothing is landed or given up that never was.
TypeOK ==
  /\ content \in [Records -> Nat] /\ landed \in [Records -> Nat]
  /\ given \in [Records -> Nat] /\ due \subseteq Records /\ past \subseteq Records

\* The promise as a state predicate: what is neither due nor below the horizon
\* is in the raw table as it is at the vendor, or was given up as just that.
Kept == \A r \in Records :
          content[r] # 0 => r \in due \/ r \in past \/ Settled(r)

\* Whatever implements this specification never loses a record silently
\* (common/run.py: "advance only after a successful land").
THEOREM PromiseKept == Spec => []Kept
<1>1. Init => TypeOK /\ Kept
  BY DEF Init, TypeOK, Kept
<1>2. TypeOK /\ [Next]_vars => TypeOK'
  BY DEF TypeOK, Next, vars, table, Change, Remove, Ingest, Horizon, Forward
<1>3. TypeOK /\ Kept /\ [Next]_vars => Kept'
  <2> SUFFICES ASSUME TypeOK, Kept, [Next]_vars, NEW r \in Records, content'[r] # 0
               PROVE  r \in due' \/ r \in past' \/ Settled(r)'
    BY DEF Kept
  <2> USE DEF Kept, Settled, table
  <2>1. CASE Change
    BY <2>1 DEF Change
  <2>2. CASE Remove
    BY <2>2 DEF Remove, TypeOK
  <2>3. CASE Ingest
    <3>1. Settled(r) => Settled(r)'
      BY <2>3 DEF Ingest, Forward, TypeOK
    <3> QED
      BY <2>3, <3>1 DEF Ingest
  <2>4. CASE Horizon
    BY <2>4 DEF Horizon
  <2>5. CASE UNCHANGED vars
    BY <2>5 DEF vars
  <2> QED
    BY <2>1, <2>2, <2>3, <2>4, <2>5 DEF Next
<1> QED
  BY <1>1, <1>2, <1>3, PTL DEF Spec

=============================================================================
