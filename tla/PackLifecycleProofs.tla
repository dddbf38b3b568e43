------------------------ MODULE PackLifecycleProofs ------------------------
(***************************************************************************)
(* Theorems about PackLifecycle for any number of records and faults.      *)
(* The advisory lock alone keeps coverage true to the facts, whatever runs *)
(* and commands overlap.  The other two properties ask something of drop's *)
(* commits (DropsBetweenRuns, DropsDisabled), which no lock sees to; that  *)
(* the operator gives one command at a time, and does not drop while an    *)
(* ingest run is in flight, is enough for it.  A state recorded alone is   *)
(* as true as the schema it is recorded over (SchemaFirst).                *)
(***************************************************************************)
EXTENDS PackLifecycle, TLAPS

LockOK ==
  /\ tpc # "idle" => lock = "transform"
  /\ cpc["drop"] \in {"first", "second"} => lock = "drop"
  /\ cpc["drop"] = "second" => cov = {}

LockInv == TypeOK /\ LockOK /\ CoverageBacked

IngestOK ==
  /\ iw <= vend
  /\ ipc \in {"land", "advance"} => (until <= vend /\ \A r \in 1 .. upto : r \in raw \cup facts)
  /\ ipc = "land" => upto <= until
  /\ ipc = "advance" => upto = until

IInv == LockInv /\ IngestOK /\ NothingLost

\* No ingest run is at work from a cursor it read when drop commits, and none
\* has set its watermark between the two commits.
DropsBetweenRuns ==
  Destroy => ipc \in {"idle", "cursor"} /\ (cpc["drop"] = "second" => iw = 0)
NoRunUnderDrop == [][DropsBetweenRuns]_vars

\* What drop checked when it began is still so when it drops the tables.
DropsDisabled ==
  Destroy /\ cpc["drop"] = "second" => pack # "ENABLED" /\ cpc["enable"] = "idle"
NoEnableUnderDrop == [][DropsDisabled]_vars

IngestAct == PassGate \/ ReadCursor \/ Land \/ SetWatermark \/ KillIngest
TransformAct == LockTarget \/ GateTarget \/ Chunk \/ KillTransform
CommandAct == Enable \/ EnableStateOnly \/ Disable \/ CheckDisabled \/ LockForDrop \/ KillCommand

\* The type invariant but for the one Boolean.
RestOK ==
  /\ pack \in {"none", "ENABLED", "DISABLED"}
  /\ raw \subseteq 1 .. MaxRecords /\ facts \subseteq 1 .. MaxRecords
  /\ cov \subseteq 1 .. MaxRecords
  /\ iw \in 0 .. MaxRecords /\ vend \in 0 .. MaxRecords
  /\ upto \in 0 .. MaxRecords /\ until \in 0 .. MaxRecords
  /\ ipc \in {"idle", "cursor", "land", "advance"}
  /\ tpc \in {"idle", "gate", "chunk"}
  /\ cpc \in [Commands -> {"idle", "state", "lock", "first", "second"}]
  /\ lock \in {"none", "transform", "drop"} /\ faults \in Nat

LEMMA TablesStep == TypeOK /\ [Next]_vars => tables' \in BOOLEAN
<1> SUFFICES ASSUME tables \in BOOLEAN, [Next]_vars PROVE tables' \in BOOLEAN
  BY DEF TypeOK
<1>1. tables' = tables \/ tables' = TRUE \/ tables' = FALSE
  BY DEF Next, NewRecord, Expire, PassGate, ReadCursor, Land, SetWatermark, KillIngest,
         LockTarget, GateTarget, Chunk, KillTransform, Enable, CreateTables, Enabled,
         ApplySchema, EnableStateOnly, Disable, CheckDisabled, LockForDrop, Destroy, DeleteBookkeeping, DropTables,
         KillCommand, vars, contents
<1> QED
  BY <1>1, Zenon

LEMMA RestStep == RestOK /\ [Next]_vars => RestOK'
<1> SUFFICES ASSUME RestOK, [Next]_vars PROVE RestOK'
  OBVIOUS
<1> USE BoundsAssumption DEF RestOK, contents, ingest, Fault, Commands, To, Unlock
<1>1. CASE NewRecord
  BY <1>1 DEF NewRecord
<1>2. CASE Expire \/ ApplySchema
  BY <1>2 DEF Expire, ApplySchema
<1>3. CASE PassGate
  BY <1>3 DEF PassGate
<1>4. CASE ReadCursor
  BY <1>4 DEF ReadCursor
<1>5. CASE SetWatermark
  BY <1>5 DEF SetWatermark
<1>6. CASE Land
  <2>1. CASE tables
    <3>1. /\ UNCHANGED <<pack, facts, iw, cov, vend, until, tpc, cpc, lock, faults>>
          /\ upto' \in upto + 1 .. until /\ raw' = raw \cup (upto + 1 .. upto')
          /\ ipc' \in {"land", "advance"}
      BY <1>6, <2>1 DEF Land
    <3>2. upto' \in 0 .. MaxRecords /\ upto + 1 .. upto' \subseteq 1 .. MaxRecords
      BY <3>1
    <3> QED
      BY <3>1, <3>2
  <2>2. CASE ~ tables
    BY <1>6, <2>2 DEF Land
  <2> QED
    BY <2>1, <2>2
<1>7. CASE LockTarget \/ GateTarget
  BY <1>7 DEF LockTarget, GateTarget
<1>8. CASE Chunk
  <2>1. facts' \subseteq 1 .. MaxRecords /\ cov' \subseteq 1 .. MaxRecords
    BY <1>8 DEF Chunk
  <2>2. /\ UNCHANGED <<pack, raw, iw, vend, upto, until, ipc, cpc, faults>>
        /\ tpc' = "idle" /\ lock' \in {"none", lock}
    BY <1>8 DEF Chunk
  <2> QED
    BY <2>1, <2>2
<1>9. CASE KillIngest
  BY <1>9 DEF KillIngest
<1>16. CASE KillTransform
  BY <1>16 DEF KillTransform
<1>10. CASE Enable
  <2>1. /\ UNCHANGED <<raw, facts, iw, cov, vend, upto, until, ipc, tpc, lock, faults>>
        /\ pack' \in {"none", "ENABLED", "DISABLED"}
    BY <1>10 DEF Enable, CreateTables, Enabled
  <2>2. cpc' \in [Commands -> {"idle", "state", "lock", "first", "second"}]
    BY <1>10 DEF Enable
  <2> QED
    BY <2>1, <2>2
<1>11. CASE EnableStateOnly \/ Disable \/ CheckDisabled
  BY <1>11 DEF EnableStateOnly, Enabled, Disable, CheckDisabled
<1>12. CASE LockForDrop
  BY <1>12 DEF LockForDrop
<1>13. CASE KillCommand
  BY <1>13 DEF KillCommand
<1>14. CASE Destroy
  <2>1. /\ UNCHANGED <<pack, vend, upto, until, ipc, tpc, faults>>
        /\ iw' \in {0, iw} /\ lock' \in {"none", lock}
    BY <1>14 DEF Destroy, DeleteBookkeeping, DropTables
  <2>2. cov' \in {cov, {}} /\ raw' \in {raw, {}} /\ facts' \in {facts, {}}
    BY <1>14 DEF Destroy, DeleteBookkeeping, DropTables
  <2>3. cpc' \in [Commands -> {"idle", "state", "lock", "first", "second"}]
    BY <1>14 DEF Destroy
  <2> QED
    BY <2>1, <2>2, <2>3
<1>15. CASE UNCHANGED vars
  BY <1>15 DEF vars
<1> QED
  BY <1>1, <1>2, <1>3, <1>4, <1>5, <1>6, <1>7, <1>8, <1>9, <1>10, <1>11, <1>12,
     <1>13, <1>14, <1>15, <1>16 DEF Next

LEMMA TypeStep == TypeOK /\ [Next]_vars => TypeOK'
<1>1. TypeOK <=> (tables \in BOOLEAN /\ RestOK)
  BY DEF TypeOK, RestOK
<1>2. TypeOK' <=> (tables' \in BOOLEAN /\ RestOK')
  BY DEF TypeOK, RestOK
<1> QED
  BY <1>1, <1>2, TablesStep, RestStep, Zenon

LEMMA LockStep == LockInv /\ [Next]_vars => LockInv'
<1> SUFFICES ASSUME LockInv, [Next]_vars PROVE LockInv'
  OBVIOUS
<1>0. TypeOK'
  BY TypeStep DEF LockInv
<1> USE DEF LockInv, LockOK, CoverageBacked, contents
<1>1. CASE NewRecord \/ Expire \/ ApplySchema \/ IngestAct \/ UNCHANGED vars
  <2>1. UNCHANGED <<facts, cov, tpc, cpc, lock>>
    BY <1>1 DEF NewRecord, Expire, ApplySchema, IngestAct, PassGate, ReadCursor, Land,
                SetWatermark, KillIngest, vars
  <2> QED
    BY <1>0, <2>1
<1>2. CASE LockTarget \/ GateTarget \/ KillTransform
  <2>1. UNCHANGED <<facts, cov, cpc>>
    BY <1>2 DEF LockTarget, GateTarget, KillTransform
  <2>2. LockOK'
    BY <1>2 DEF LockTarget, GateTarget, KillTransform, Unlock
  <2> QED
    BY <1>0, <2>1, <2>2
<1>3. CASE Chunk
  BY <1>0, <1>3 DEF Chunk, Unlock
<1>4. CASE Enable \/ EnableStateOnly \/ Disable
  <2>1. UNCHANGED <<facts, cov, tpc, lock>> /\ cpc'["drop"] = cpc["drop"]
    BY <1>4 DEF Enable, EnableStateOnly, Disable, CreateTables, Enabled, To, TypeOK, Commands
  <2> QED
    BY <1>0, <2>1
<1>5. CASE CheckDisabled \/ LockForDrop \/ KillCommand
  <2>1. UNCHANGED <<facts, cov, tpc>>
    BY <1>5 DEF CheckDisabled, LockForDrop, KillCommand
  <2>2. CASE CheckDisabled
    BY <2>2, <1>0, <2>1 DEF CheckDisabled, To, TypeOK, Commands, MayBegin
  <2>3. CASE LockForDrop
    BY <2>3, <1>0, <2>1 DEF LockForDrop, To, TypeOK, Commands
  <2>4. CASE KillCommand
    <3>1. PICK c \in Commands : /\ cpc' = [cpc EXCEPT ![c] = "idle"]
                                /\ IF c = "drop" THEN Unlock("drop") ELSE UNCHANGED lock
      BY <2>4 DEF KillCommand, To
    <3>2. CASE c = "drop"
      BY <3>1, <3>2, <1>0, <2>1 DEF Unlock, TypeOK, Commands
    <3>3. CASE c # "drop"
      BY <3>1, <3>3, <1>0, <2>1 DEF TypeOK, Commands
    <3> QED
      BY <3>2, <3>3
  <2> QED
    BY <1>5, <2>2, <2>3, <2>4
<1>6. CASE Destroy
  BY <1>0, <1>6 DEF Destroy, DeleteBookkeeping, DropTables, To, Unlock, TypeOK, Commands
<1> QED
  BY <1>1, <1>2, <1>3, <1>4, <1>5, <1>6 DEF Next, IngestAct

LEMMA LockInit == Init => LockInv
<1> SUFFICES ASSUME Init PROVE LockInv
  OBVIOUS
<1>1. tables \in BOOLEAN
  BY Zenon DEF Init
<1>2. RestOK
  BY BoundsAssumption DEF Init, RestOK, Commands
<1> QED
  BY <1>1, <1>2 DEF Init, LockInv, LockOK, CoverageBacked, TypeOK, RestOK, Commands

\* The variables have their types (control.pack, the watermark and coverage
\* ledgers, the processes).
THEOREM TypeCorrect == Spec => []TypeOK
<1>1. LockInv => TypeOK
  BY DEF LockInv
<1> QED
  BY LockInit, LockStep, <1>1, PTL DEF Spec

\* However commands and runs overlap, fail and die, coverage names only
\* records whose facts exist: drop holds the lock of the target over both of
\* its commits (_cmd_drop, transform/locks.py).
THEOREM CoverageStaysBacked == Spec => []CoverageBacked
<1>1. LockInv => CoverageBacked
  BY DEF LockInv
<1> QED
  BY LockInit, LockStep, <1>1, PTL DEF Spec

----------------------------------------------------------------------------
(* The state that enable writes is true of the tables it made.             *)

EnableInv == TypeOK /\ (cpc["enable"] # "idle" => tables) /\ EnabledHasTables

LEMMA EnableStep ==
  ASSUME SchemaFirst
  PROVE  EnableInv /\ [Next]_vars /\ [DropsDisabled]_vars => EnableInv'
<1> SUFFICES ASSUME EnableInv, [Next]_vars, [DropsDisabled]_vars PROVE EnableInv'
  OBVIOUS
<1>0. TypeOK'
  BY TypeStep DEF EnableInv
<1> USE DEF EnableInv, EnabledHasTables, contents, Commands
<1>1. CASE NewRecord \/ Expire \/ IngestAct \/ TransformAct \/ UNCHANGED vars
  <2>1. UNCHANGED <<pack, tables, cpc>>
    BY <1>1 DEF NewRecord, Expire, IngestAct, PassGate, ReadCursor, Land, SetWatermark,
                KillIngest, TransformAct, LockTarget, GateTarget, Chunk, KillTransform, vars
  <2> QED
    BY <1>0, <2>1
<1>2. CASE Enable \/ EnableStateOnly \/ ApplySchema
  BY <1>0, <1>2 DEF Enable, EnableStateOnly, ApplySchema, CreateTables, Enabled, To, TypeOK
<1>3. CASE Disable \/ CheckDisabled \/ LockForDrop
  <2>1. UNCHANGED tables /\ (pack' = pack \/ pack' = "DISABLED") /\ cpc'["enable"] = cpc["enable"]
    BY <1>3 DEF Disable, CheckDisabled, LockForDrop, To, TypeOK
  <2> QED
    BY <1>0, <2>1
<1>4. CASE Destroy
  <2>1. UNCHANGED pack /\ cpc'["enable"] = cpc["enable"]
    BY <1>4 DEF Destroy, To, TypeOK
  <2>2. CASE cpc["drop"] = "second"
    <3>1. pack # "ENABLED" /\ cpc["enable"] = "idle"
      <4>1. vars' # vars
        BY <1>4, <2>2 DEF Destroy, To, TypeOK, vars
      <4> QED
        BY <1>4, <2>2, <4>1 DEF DropsDisabled
    <3> QED
      BY <1>0, <2>1, <3>1
  <2>3. CASE cpc["drop"] # "second"
    BY <1>0, <1>4, <2>1, <2>3 DEF Destroy, DeleteBookkeeping
  <2> QED
    BY <2>2, <2>3
<1>5. CASE KillCommand
  <2>1. UNCHANGED <<pack, tables>> /\ (cpc'["enable"] # "idle" => cpc["enable"] # "idle")
    BY <1>5 DEF KillCommand, To, TypeOK
  <2> QED
    BY <1>0, <2>1
<1> QED
  BY <1>1, <1>2, <1>3, <1>4, <1>5 DEF Next, IngestAct, TransformAct

\* However commands overlap and wherever they are killed, a pack that says
\* ENABLED has its tables, if no drop takes the tables of a pack that was
\* enabled, or is being enabled, since the drop began, and if no state is
\* recorded alone but over tables that are there (packs/__main__.py,
\* _cmd_enable, with and without --state-only, and _cmd_drop).
THEOREM EnabledPackHasTables ==
  ASSUME SchemaFirst PROVE Spec /\ NoEnableUnderDrop => []EnabledHasTables
<1>1. Init => EnableInv
  BY LockInit DEF Init, LockInv, EnableInv, EnabledHasTables, Commands
<1>2. EnableInv => EnabledHasTables
  BY DEF EnableInv
<1> QED
  BY <1>1, <1>2, EnableStep, PTL DEF Spec, NoEnableUnderDrop

----------------------------------------------------------------------------
(* One command at a time.                                                  *)

\* While drop runs no other command does, and its pack stays DISABLED.
AloneOK ==
  /\ \A c, d \in Commands : (cpc[c] # "idle" /\ cpc[d] # "idle") => c = d
  /\ cpc["drop"] # "idle" => pack = "DISABLED"

LEMMA AloneStep ==
  ASSUME ~ Overlap
  PROVE  TypeOK /\ AloneOK /\ [Next]_vars => AloneOK'
<1> SUFFICES ASSUME TypeOK, AloneOK, [Next]_vars PROVE AloneOK'
  OBVIOUS
<1> USE DEF AloneOK, contents, Commands
<1>1. CASE NewRecord \/ Expire \/ ApplySchema \/ IngestAct \/ TransformAct \/ UNCHANGED vars
  <2>1. UNCHANGED <<pack, cpc>>
    BY <1>1 DEF NewRecord, Expire, ApplySchema, IngestAct, PassGate, ReadCursor, Land, SetWatermark,
                KillIngest, TransformAct, LockTarget, GateTarget, Chunk, KillTransform, vars
  <2> QED
    BY <2>1
<1>2. CASE Enable \/ EnableStateOnly
  BY <1>2 DEF Enable, EnableStateOnly, CreateTables, Enabled, To, MayBegin, TypeOK
<1>3. CASE Disable
  BY <1>3 DEF Disable, To, MayBegin, TypeOK
<1>4. CASE CheckDisabled
  BY <1>4 DEF CheckDisabled, To, MayBegin, TypeOK
<1>5. CASE LockForDrop \/ KillCommand
  BY <1>5 DEF LockForDrop, KillCommand, To, TypeOK
<1>6. CASE Destroy
  BY <1>6 DEF Destroy, DeleteBookkeeping, DropTables, To, TypeOK
<1> QED
  BY <1>1, <1>2, <1>3, <1>4, <1>5, <1>6 DEF Next, IngestAct, TransformAct

\* One command at a time is enough: nothing but a command changes the state
\* that drop checked.
THEOREM OneCommandIsEnough == ASSUME ~ Overlap PROVE Spec => NoEnableUnderDrop
<1>1. Init => TypeOK /\ AloneOK
  BY LockInit DEF Init, LockInv, AloneOK, Commands
<1>2. TypeOK /\ AloneOK => [DropsDisabled]_vars
  BY DEF AloneOK, DropsDisabled, Commands
<1> QED
  BY <1>1, <1>2, AloneStep, TypeStep, PTL DEF Spec, NoEnableUnderDrop

----------------------------------------------------------------------------
\* While drop runs nothing is ingested; past its first commit no watermark is
\* left.
QuietOK ==
  /\ AloneOK
  /\ cpc["drop"] # "idle" => ipc = "idle"
  /\ cpc["drop"] = "second" => iw = 0

LEMMA QuietStep ==
  ASSUME AwaitIngest, ~ Overlap
  PROVE  TypeOK /\ QuietOK /\ [Next]_vars => QuietOK'
<1> SUFFICES ASSUME TypeOK, QuietOK, [Next]_vars PROVE QuietOK'
  OBVIOUS
<1> USE DEF QuietOK, AloneOK, contents, ingest, Commands
<1>1. CASE NewRecord \/ Expire \/ ApplySchema \/ TransformAct \/ UNCHANGED vars
  <2>1. UNCHANGED <<pack, iw, ipc, cpc>>
    BY <1>1 DEF NewRecord, Expire, ApplySchema, TransformAct, LockTarget, GateTarget, Chunk,
                KillTransform, vars
  <2> QED
    BY <2>1
<1>2. CASE IngestAct
  <2>1. UNCHANGED <<pack, cpc>> /\ cpc["drop"] = "idle"
    BY <1>2 DEF IngestAct, PassGate, ReadCursor, Land, SetWatermark, KillIngest
  <2> QED
    BY <2>1
<1>3. CASE Enable \/ Disable
  <2>1. PICK c \in {"enable", "disable"}, step \in {"state", "idle"} :
           /\ cpc' = [cpc EXCEPT ![c] = step]
           /\ cpc[c] # "idle" \/ (\A d \in Commands : cpc[d] = "idle")
           /\ UNCHANGED <<iw, ipc>>
    BY <1>3 DEF Enable, Disable, To, MayBegin
  <2>2. \A d \in Commands : d # c => cpc[d] = "idle"
    BY <2>1
  <2> QED
    BY <2>1, <2>2 DEF TypeOK
<1>8. CASE EnableStateOnly
  BY <1>8 DEF EnableStateOnly, Enabled, MayBegin, TypeOK
<1>4. CASE CheckDisabled
  BY <1>4 DEF CheckDisabled, MayBegin, To, TypeOK
<1>5. CASE LockForDrop
  BY <1>5 DEF LockForDrop, To, TypeOK
<1>6. CASE Destroy
  BY <1>6 DEF Destroy, DeleteBookkeeping, DropTables, To, TypeOK
<1>7. CASE KillCommand
  BY <1>7 DEF KillCommand, To, TypeOK
<1> QED
  BY <1>1, <1>2, <1>3, <1>4, <1>5, <1>6, <1>7, <1>8 DEF Next, IngestAct, TransformAct

\* The rows below a bound stay in raw or facts as long as drop does not run.
Kept(h) == \A r \in 1 .. h : r \in raw \cup facts

LEMMA KeepsRows ==
  ASSUME LockInv, [Next]_vars, ~ Destroy, NEW h \in Nat, Kept(h)
  PROVE  Kept(h)'
<1>1. CASE Expire
  BY <1>1 DEF Expire, Kept, LockInv, CoverageBacked
<1>2. CASE ~ Expire
  <2>1. raw \subseteq raw' /\ facts \subseteq facts'
    BY <1>2 DEF Next, NewRecord, PassGate, ReadCursor, Land, SetWatermark, KillIngest,
         LockTarget, GateTarget, Chunk, KillTransform, Enable, CreateTables, Enabled,
         ApplySchema, EnableStateOnly, Disable, CheckDisabled, LockForDrop, KillCommand, vars, contents
  <2> QED
    BY <2>1 DEF Kept
<1> QED
  BY <1>1, <1>2

LEMMA IngestStep ==
  ASSUME IInv, TypeOK', [Next]_vars, [DropsBetweenRuns]_vars
  PROVE  IngestOK' /\ NothingLost'
<1> USE DEF IInv, LockInv, IngestOK, NothingLost, TypeOK
<1>1. CASE Destroy
  <2>1. vars' # vars
    BY <1>1 DEF Destroy, To, Commands, vars
  <2>2. ipc' \in {"idle", "cursor"} /\ vend' = vend
    BY <1>1, <2>1 DEF Destroy, DropsBetweenRuns, ingest
  <2>3. iw' = 0
    BY <1>1, <2>1 DEF Destroy, DeleteBookkeeping, DropTables, DropsBetweenRuns
  <2> QED
    BY <2>2, <2>3
<1>2. CASE ~ Destroy
  <2>1. Kept(iw)'  <=> \A r \in 1 .. iw' : r \in raw' \cup facts'
    BY DEF Kept
  <2>2. \A r \in 1 .. iw : r \in raw' \cup facts'
    BY <1>2, KeepsRows DEF Kept
  <2>3. ipc \in {"land", "advance"} => \A r \in 1 .. upto : r \in raw' \cup facts'
    BY <1>2, KeepsRows DEF Kept
  <2>4. CASE ReadCursor
    BY <2>2, <2>4 DEF ReadCursor
  <2>5. CASE Land
    <3>1. CASE tables
      <4>1. /\ upto' \in upto + 1 .. until /\ raw' = raw \cup (upto + 1 .. upto')
            /\ ipc = "land" /\ UNCHANGED <<iw, vend, until>>
            /\ ipc' = IF upto' = until THEN "advance" ELSE "land"
        BY <2>5, <3>1 DEF Land
      <4>2. \A r \in 1 .. upto' : r \in 1 .. upto \/ r \in upto + 1 .. upto'
        BY <4>1
      <4>3. \A r \in 1 .. upto' : r \in raw' \cup facts'
        BY <2>3, <4>1, <4>2
      <4> QED
        BY <2>2, <4>1, <4>3
    <3>2. CASE ~ tables
      BY <2>2, <2>5, <3>2 DEF Land
    <3> QED
      BY <3>1, <3>2
  <2>6. CASE SetWatermark
    BY <2>3, <2>6 DEF SetWatermark
  <2>7. CASE NewRecord
    BY <2>2, <2>3, <2>7 DEF NewRecord, ingest
  <2>8. CASE ~ (ReadCursor \/ Land \/ SetWatermark \/ NewRecord)
    <3>1. UNCHANGED <<iw, vend, upto, until>>
      BY <1>2, <2>8 DEF Next, Expire, PassGate, KillIngest, LockTarget, GateTarget,
         Chunk, KillTransform, ApplySchema, Enable, EnableStateOnly, Disable,
         CheckDisabled, LockForDrop,
         KillCommand, vars, ingest
    <3>2. ipc' = ipc \/ ipc' \in {"idle", "cursor"}
      BY <1>2, <2>8 DEF Next, Expire, PassGate, KillIngest, LockTarget, GateTarget,
         Chunk, KillTransform, ApplySchema, Enable, EnableStateOnly, Disable,
         CheckDisabled, LockForDrop,
         KillCommand, vars, ingest
    <3> QED
      BY <2>2, <2>3, <3>1, <3>2
  <2> QED
    BY <2>4, <2>5, <2>6, <2>7, <2>8
<1> QED
  BY <1>1, <1>2

LEMMA InvInit == Init => IInv
<1> SUFFICES ASSUME Init PROVE IInv
  OBVIOUS
<1>1. LockInv
  BY LockInit
<1>2. IngestOK /\ NothingLost
  BY DEF Init, IngestOK, NothingLost
<1> QED
  BY <1>1, <1>2 DEF IInv

LEMMA InvStep == IInv /\ [Next]_vars /\ [DropsBetweenRuns]_vars => IInv'
<1> SUFFICES ASSUME IInv, [Next]_vars, [DropsBetweenRuns]_vars PROVE IInv'
  OBVIOUS
<1>1. LockInv' /\ TypeOK'
  BY LockStep DEF IInv, LockInv
<1>2. IngestOK' /\ NothingLost'
  BY <1>1, IngestStep
<1> QED
  BY <1>1, <1>2 DEF IInv

\* Every record at or below the ingest watermark is in the raw table or in the
\* facts, through failures and kills between any two commits and whatever
\* commands overlap, if drop commits between ingest runs.
THEOREM NoRecordLost == Spec /\ NoRunUnderDrop => []NothingLost
<1>1. IInv => NothingLost
  BY DEF IInv
<1> QED
  BY InvInit, InvStep, <1>1, PTL DEF Spec, NoRunUnderDrop

\* One command at a time and a drop that waits for the ingest run in flight are
\* enough: the pack stays DISABLED until drop has ended, so none starts.
THEOREM AwaitingIsEnough == ASSUME AwaitIngest, ~ Overlap PROVE Spec => NoRunUnderDrop
<1>1. Init => TypeOK /\ QuietOK
  BY LockInit DEF Init, LockInv, QuietOK, AloneOK, Commands
<1>2. TypeOK /\ QuietOK => [DropsBetweenRuns]_vars
  BY DEF QuietOK, DropsBetweenRuns, Destroy
<1> QED
  BY <1>1, <1>2, QuietStep, TypeStep, PTL DEF Spec, NoRunUnderDrop

=============================================================================
