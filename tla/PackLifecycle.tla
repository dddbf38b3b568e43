--------------------------- MODULE PackLifecycle ---------------------------
(***************************************************************************)
(* One pack with one source and one target: packs enable, disable and      *)
(* drop (packs/__main__.py, packs/state.py) beside the ingest runs and     *)
(* transform runs of the pack.  Each command is a process of its own whose *)
(* statements commit one by one.  The tables may also come from a          *)
(* generated schema file, which a deployment tool applies; the operator    *)
(* then records the state alone (enable --state-only).                     *)
(*                                                                         *)
(* The vendor's records are 1 .. vend in mark order.  A record is its own  *)
(* coverage period, so cov is the set of records whose raw row may be      *)
(* expired.  What a run does inside (batches, chunks, stops) is the        *)
(* subject of IngestRun and Transform; here it is what it commits.         *)
(***************************************************************************)
EXTENDS Integers

CONSTANTS
  AwaitIngest,  \* the operator drops only when no ingest run is in flight
  Overlap,      \* commands may run at the same time
  SchemaFirst,  \* the operator records the state alone only over a schema that is there
  MaxRecords,   \* bound: records of the vendor
  MaxFaults     \* bound: killed workers and commands

ASSUME FlagsAssumption == AwaitIngest \in BOOLEAN /\ Overlap \in BOOLEAN
                          /\ SchemaFirst \in BOOLEAN
ASSUME BoundsAssumption == MaxRecords \in Nat /\ MaxFaults \in Nat

VARIABLES
  pack,     \* state in control.pack; "none": no row
  tables,   \* the raw and fact tables exist
  raw, facts,          \* records in them
  iw,       \* control.ingest_watermark (0: no row)
  cov,      \* control.transform_coverage
  vend,     \* records the vendor has
  ipc, upto, until,    \* the ingest run: landed up to, end of what it fetched
  tpc,      \* the transform run
  cpc,      \* the commands
  lock,     \* holder of the target's advisory lock
  faults

ingest   == <<ipc, upto, until>>
contents == <<tables, raw, facts>>
vars     == <<pack, contents, iw, cov, vend, ingest, tpc, cpc, lock, faults>>

Commands == {"enable", "disable", "drop"}

Fault == faults < MaxFaults /\ faults' = faults + 1

Init ==
  /\ pack = "none" /\ tables = FALSE /\ raw = {} /\ facts = {}
  /\ iw = 0 /\ cov = {} /\ vend = 0
  /\ ipc = "idle" /\ upto = 0 /\ until = 0
  /\ tpc = "idle" /\ cpc = [c \in Commands |-> "idle"]
  /\ lock = "none" /\ faults = 0

NewRecord ==
  /\ vend < MaxRecords
  /\ vend' = vend + 1
  /\ UNCHANGED <<pack, contents, iw, cov, ingest, tpc, cpc, lock, faults>>

\* Raw expiry, outside this package: drops what coverage vouches for.
Expire ==
  /\ \E r \in cov \cap raw : raw' = raw \ {r}
  /\ UNCHANGED <<pack, tables, facts, iw, cov, vend, ingest, tpc, cpc, lock, faults>>

\* The generated schema is applied: CREATE ... IF NOT EXISTS.
ApplySchema ==
  /\ tables' = TRUE
  /\ UNCHANGED <<pack, raw, facts, iw, cov, vend, ingest, tpc, cpc, lock, faults>>

----------------------------------------------------------------------------
(* The ingest run.  The pack's state is read once, before the run starts;  *)
(* no row lets it run.                                                     *)

PassGate ==
  /\ ipc = "idle" /\ pack # "DISABLED"
  /\ ipc' = "cursor"
  /\ UNCHANGED <<pack, contents, iw, cov, vend, upto, until, tpc, cpc, lock, faults>>

ReadCursor ==
  /\ ipc = "cursor"
  /\ upto' = iw /\ until' = vend
  /\ ipc' = IF vend = iw THEN "idle" ELSE "land"
  /\ UNCHANGED <<pack, contents, iw, cov, vend, tpc, cpc, lock, faults>>

\* A batch lands, or the run fails because its table is gone.
Land ==
  /\ ipc = "land"
  /\ IF tables
     THEN /\ upto' \in upto + 1 .. until
          /\ raw' = raw \cup (upto + 1 .. upto')
          /\ ipc' = IF upto' = until THEN "advance" ELSE "land"
     ELSE ipc' = "idle" /\ UNCHANGED <<raw, upto>>
  /\ UNCHANGED <<pack, tables, facts, iw, cov, vend, until, tpc, cpc, lock, faults>>

\* Mutation: the watermark of the next record.
SetWatermarkPast ==
  /\ ipc = "advance"
  /\ iw' = until + 1 /\ ipc' = "idle"
  /\ UNCHANGED <<pack, contents, cov, vend, upto, until, tpc, cpc, lock, faults>>

SetWatermark ==
  /\ ipc = "advance"
  /\ iw' = until /\ ipc' = "idle"
  /\ UNCHANGED <<pack, contents, cov, vend, upto, until, tpc, cpc, lock, faults>>

KillIngest ==
  /\ ipc # "idle" /\ Fault
  /\ ipc' = "idle"
  /\ UNCHANGED <<pack, contents, iw, cov, vend, upto, until, tpc, cpc, lock>>

----------------------------------------------------------------------------
(* The transform run: the lock first, then the pack's state.               *)

Unlock(holder) == lock' = IF lock = holder THEN "none" ELSE lock

LockTarget ==
  /\ tpc = "idle" /\ lock = "none" /\ tables
  /\ lock' = "transform" /\ tpc' = "gate"
  /\ UNCHANGED <<pack, contents, iw, cov, vend, ingest, cpc, faults>>

GateTarget ==
  /\ tpc = "gate"
  /\ IF pack = "DISABLED" THEN tpc' = "idle" /\ Unlock("transform")
     ELSE tpc' = "chunk" /\ UNCHANGED lock
  /\ UNCHANGED <<pack, contents, iw, cov, vend, ingest, cpc, faults>>

\* Facts and their coverage commit together; without tables the run fails.
Chunk ==
  /\ tpc = "chunk"
  /\ IF tables THEN facts' = facts \cup raw /\ cov' = cov \cup raw
     ELSE UNCHANGED <<facts, cov>>
  /\ tpc' = "idle" /\ Unlock("transform")
  /\ UNCHANGED <<pack, tables, raw, iw, vend, ingest, cpc, faults>>

KillTransform ==
  /\ tpc # "idle" /\ Fault
  /\ tpc' = "idle" /\ Unlock("transform")
  /\ UNCHANGED <<pack, contents, iw, cov, vend, ingest, cpc>>

----------------------------------------------------------------------------
(* The commands.                                                           *)

To(c, step) == cpc' = [cpc EXCEPT ![c] = step]

MayBegin(c) == cpc[c] = "idle" /\ (Overlap \/ \A d \in Commands : cpc[d] = "idle")

\* enable creates the tables and commits, then writes the state.
CreateTables == tables' = TRUE /\ UNCHANGED <<pack, raw, facts>>
Enabled      == pack' = "ENABLED" /\ UNCHANGED contents

\* Mutation: enable writes the state first.
EnableStateFirst ==
  /\ \/ MayBegin("enable") /\ Enabled /\ To("enable", "state")
     \/ cpc["enable"] = "state" /\ CreateTables /\ To("enable", "idle")
  /\ UNCHANGED <<iw, cov, vend, ingest, tpc, lock, faults>>

Enable ==
  /\ \/ MayBegin("enable") /\ CreateTables /\ To("enable", "state")
     \/ cpc["enable"] = "state" /\ Enabled /\ To("enable", "idle")
  /\ UNCHANGED <<iw, cov, vend, ingest, tpc, lock, faults>>

\* enable --state-only writes the state, over whatever tables there are.
EnableStateOnly ==
  /\ MayBegin("enable") /\ Enabled
  /\ SchemaFirst => tables
  /\ UNCHANGED <<iw, cov, vend, ingest, tpc, cpc, lock, faults>>

\* disable makes sure of control.pack and then writes the state.
Disable ==
  /\ \/ MayBegin("disable") /\ To("disable", "state") /\ UNCHANGED pack
     \/ cpc["disable"] = "state" /\ pack' = "DISABLED" /\ To("disable", "idle")
  /\ UNCHANGED <<contents, iw, cov, vend, ingest, tpc, lock, faults>>

\* drop refuses a pack that is not DISABLED.
CheckDisabled ==
  /\ MayBegin("drop") /\ pack = "DISABLED"
  /\ AwaitIngest => ipc = "idle"
  /\ To("drop", "lock")
  /\ UNCHANGED <<pack, contents, iw, cov, vend, ingest, tpc, lock, faults>>

\* Mutation: drop takes no lock.
LockNothing ==
  /\ cpc["drop"] = "lock"
  /\ To("drop", "first")
  /\ UNCHANGED <<pack, contents, iw, cov, vend, ingest, tpc, lock, faults>>

\* It does not wait for the lock: a held one is a refusal.
LockForDrop ==
  /\ cpc["drop"] = "lock"
  /\ IF lock = "none" THEN lock' = "drop" /\ To("drop", "first")
     ELSE To("drop", "idle") /\ UNCHANGED lock
  /\ UNCHANGED <<pack, contents, iw, cov, vend, ingest, tpc, faults>>

DeleteBookkeeping == iw' = 0 /\ cov' = {} /\ UNCHANGED contents
DropTables == tables' = FALSE /\ raw' = {} /\ facts' = {} /\ UNCHANGED <<iw, cov>>

\* Mutation: the tables go first.
DestroyTablesFirst ==
  /\ \/ cpc["drop"] = "first" /\ DropTables /\ To("drop", "second") /\ UNCHANGED lock
     \/ cpc["drop"] = "second" /\ DeleteBookkeeping /\ To("drop", "idle") /\ Unlock("drop")
  /\ UNCHANGED <<pack, vend, ingest, tpc, faults>>

\* Bookkeeping first, tables second, each committed.
Destroy ==
  /\ \/ cpc["drop"] = "first" /\ DeleteBookkeeping /\ To("drop", "second") /\ UNCHANGED lock
     \/ cpc["drop"] = "second" /\ DropTables /\ To("drop", "idle") /\ Unlock("drop")
  /\ UNCHANGED <<pack, vend, ingest, tpc, faults>>

\* A command is killed or a statement of it fails; its session ends.
KillCommand ==
  /\ \E c \in Commands : cpc[c] # "idle" /\ To(c, "idle")
                         /\ IF c = "drop" THEN Unlock("drop") ELSE UNCHANGED lock
  /\ Fault
  /\ UNCHANGED <<pack, contents, iw, cov, vend, ingest, tpc>>

Next ==
  \/ NewRecord \/ Expire \/ ApplySchema
  \/ PassGate \/ ReadCursor \/ Land \/ SetWatermark \/ KillIngest
  \/ LockTarget \/ GateTarget \/ Chunk \/ KillTransform
  \/ Enable \/ EnableStateOnly \/ Disable \/ CheckDisabled \/ LockForDrop \/ Destroy \/ KillCommand

Spec == Init /\ [][Next]_vars

----------------------------------------------------------------------------
(* Properties.                                                             *)

\* Types of the variables.
TypeOK ==
  /\ pack \in {"none", "ENABLED", "DISABLED"} /\ tables \in BOOLEAN
  /\ raw \subseteq 1 .. MaxRecords /\ facts \subseteq 1 .. MaxRecords
  /\ cov \subseteq 1 .. MaxRecords
  /\ iw \in 0 .. MaxRecords /\ vend \in 0 .. MaxRecords
  /\ upto \in 0 .. MaxRecords /\ until \in 0 .. MaxRecords
  /\ ipc \in {"idle", "cursor", "land", "advance"}
  /\ tpc \in {"idle", "gate", "chunk"}
  /\ cpc \in [Commands -> {"idle", "state", "lock", "first", "second"}]
  /\ lock \in {"none", "transform", "drop"} /\ faults \in Nat

\* A record at or below the ingest watermark is never read again, so it is in
\* the raw table or, once expired, in the facts.  A drop that is cut off
\* between its two commits must not leave a watermark without its rows ("a
\* resumed worker would trust the stale watermark and never re-fetch the gap").
NothingLost == \A r \in 1 .. iw : r \in raw \cup facts

\* Coverage arms raw expiry, so what it covers is in the fact table ("the
\* control rows must never claim a cursor or a covered period for a table that
\* no longer exists").
CoverageBacked == cov \subseteq facts

\* An ENABLED pack has its tables ("can never leave a row claiming ENABLED
\* with no tables behind it").  Of a state recorded alone it is the operator
\* who sees to it.
EnabledHasTables == pack = "ENABLED" => tables

=============================================================================
