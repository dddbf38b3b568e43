------------------------------- MODULE Grants -------------------------------
(***************************************************************************)
(* The privileges of the generated schema (grants_sql in                   *)
(* schema/__init__.py).  A deployment applies the file again and again,    *)
(* with roles and remote writers that change over the years, to a          *)
(* warehouse that an older release or an operator has granted things in.   *)
(* The statements run one by one under autocommit, beside workers that     *)
(* must keep writing, and an application can be cut off.  Raw tables are   *)
(* created by whoever applies the file and by the owner (`pack enable`).   *)
(*                                                                         *)
(* What a role may do is recorded per key: a control, mart or raw table, a *)
(* schema, or the tables one creator will later make in a schema (default  *)
(* privileges). Sequences, functions and USAGE on control are left out.    *)
(* Statements are taken in any order, which includes that of the file.     *)
(***************************************************************************)
EXTENDS Integers

CONSTANTS
  Control,          \* control tables
  IngestWrites,     \* _INGEST_WRITES
  TransformWrites,  \* _TRANSFORM_WRITES
  Marts, Schemas, Names,   \* mart tables, raw schemas, names of raw tables
  Remotes,          \* roles of remote writers
  Nobody,           \* no remote writer
  Creators,         \* who creates raw tables; all are named (--owner-role)
  Beside            \* raw tables are created while the file is applied

Ingest    == "ingest"
Transform == "transform"
Read      == "read"
Monitor   == "monitor"

Fixed   == {Ingest, Transform, Read, Monitor}
Writers == {Ingest} \cup Remotes
Roles   == Fixed \cup Remotes

Privs  == {"USAGE", "SELECT", "INSERT", "UPDATE", "DELETE", "TRUNCATE"}
Writer == {"SELECT", "INSERT", "UPDATE"}

\* Roles have names of their own; nothing checks it.
RolesDiffer == Remotes \cap Fixed = {} /\ Nobody \notin Roles

ControlKeys == [kind : {"control"}, name : Control]
MartKeys    == [kind : {"mart"}, name : Marts]
SchemaKeys  == [kind : {"schema"}, schema : Schemas]
Tables      == [kind : {"table"}, schema : Schemas, name : Names]
LaterKeys   == [kind : {"later"}, schema : Schemas, by : Creators]
Keys        == ControlKeys \cup MartKeys \cup SchemaKeys \cup Tables \cup LaterKeys

\* The arguments of grants_sql: fixed roles that are named, the remote writer of
\* each schema, and shared_keeps_remote.
Configs == [named : SUBSET Fixed, remote : [Schemas -> Remotes \cup {Nobody}], keeps : BOOLEAN]

VARIABLES
  acl,    \* per key and role: the privileges it has
  made,   \* raw tables that exist
  conf,   \* what was last applied
  whole,  \* it was not cut off
  todo    \* its statements still to be run

vars == <<acl, made, conf, whole, todo>>

Live == Keys \ (Tables \ made)

----------------------------------------------------------------------------
(* The statements.                                                         *)

Grant(r, privs, on)  == [op |-> "GRANT", role |-> r, privs |-> privs, on |-> on]
Revoke(r, privs, on) == [op |-> "REVOKE", role |-> r, privs |-> privs, on |-> on]

TablesIn(s) == {k \in Tables : k.schema = s}
LaterIn(s)  == {k \in LaterKeys : k.schema = s}
SchemaOf(s) == {k \in SchemaKeys : k.schema = s}
ControlOf(W) == {k \in ControlKeys : k.name \in W}

\* USAGE, the tables there are, and those to come.
RawGrants(r, privs, s) ==
  {Grant(r, {"USAGE"}, SchemaOf(s)), Grant(r, privs, TablesIn(s)), Grant(r, privs, LaterIn(s))}

RawRevokes(s) ==
  {Revoke(Ingest, Privs, TablesIn(s)), Revoke(Ingest, Writer, LaterIn(s)),
   Revoke(Ingest, {"USAGE"}, SchemaOf(s))}

\* Read all, write own.
ControlGrants(r, W) ==
  {Grant(r, {"SELECT"}, ControlKeys), Grant(r, Writer, ControlOf(W)),
   Revoke(r, {"DELETE", "TRUNCATE"}, ControlOf(W)),
   Revoke(r, {"INSERT", "UPDATE", "DELETE", "TRUNCATE"}, ControlOf(Control \ W))}

Confined(cf, s) == cf.remote[s] # Nobody /\ ~ cf.keeps

RemotesOf(cf) == {cf.remote[s] : s \in Schemas} \ {Nobody}

Statements(cf) ==
  UNION (
    {ControlGrants(Ingest, IngestWrites) : r \in cf.named \cap {Ingest}} \cup
    {IF Confined(cf, s) THEN RawRevokes(s) ELSE RawGrants(Ingest, Writer, s) :
       s \in {x \in Schemas : Ingest \in cf.named}} \cup
    {ControlGrants(r, IngestWrites) : r \in RemotesOf(cf)} \cup
    {RawGrants(cf.remote[s], Writer, s) : s \in {x \in Schemas : cf.remote[x] # Nobody}} \cup
    {ControlGrants(Transform, TransformWrites) : r \in cf.named \cap {Transform}} \cup
    {RawGrants(Transform, {"SELECT"}, s) : s \in {x \in Schemas : Transform \in cf.named}} \cup
    {{Grant(Transform, Writer \cup {"DELETE"}, MartKeys)} : r \in cf.named \cap {Transform}} \cup
    {{Grant(Read, {"SELECT"}, MartKeys)} : r \in cf.named \cap {Read}} \cup
    {{Grant(r, {"SELECT"}, ControlKeys)} : r \in cf.named \cap {Read, Monitor}})

Changed(held, st, r) ==
  IF r # st.role THEN held
  ELSE IF st.op = "GRANT" THEN held \cup st.privs ELSE held \ st.privs

----------------------------------------------------------------------------
\* Anything may have been granted before; default privileges are this file's.
Init ==
  /\ acl \in [Keys -> [Roles -> SUBSET Privs]]
  /\ \A k \in LaterKeys, r \in Roles : acl[k][r] \subseteq Writer
  /\ made \in SUBSET Tables
  /\ conf \in Configs /\ whole = FALSE /\ todo = {}

Apply(cf) ==
  /\ todo = {}
  /\ conf' = cf /\ whole' = TRUE /\ todo' = Statements(cf)
  /\ UNCHANGED <<acl, made>>

\* ALL TABLES IN SCHEMA is what exists when the statement runs.
Execute(st) ==
  /\ st \in todo
  /\ todo' = todo \ {st}
  /\ acl' = [k \in Keys |->
               [r \in Roles |-> IF k \in st.on \cap Live THEN Changed(acl[k][r], st, r)
                                ELSE acl[k][r]]]
  /\ UNCHANGED <<made, conf, whole>>

CutOff ==
  /\ todo # {}
  /\ todo' = {} /\ whole' = FALSE
  /\ UNCHANGED <<acl, made, conf>>

\* A new table has the default privileges of its creator in its schema.
CreateTable(t, by) ==
  /\ t \notin made /\ (Beside \/ todo = {})
  /\ made' = made \cup {t}
  /\ acl' = [acl EXCEPT ![t] = acl[[kind |-> "later", schema |-> t.schema, by |-> by]]]
  /\ UNCHANGED <<conf, whole, todo>>

DropTable(t) ==
  /\ t \in made
  /\ made' = made \ {t}
  /\ UNCHANGED <<acl, conf, whole, todo>>

Next ==
  \/ \E cf \in Configs : Apply(cf)
  \/ \E st \in todo : Execute(st)
  \/ CutOff
  \/ \E t \in Tables : DropTable(t) \/ \E by \in Creators : CreateTable(t, by)

Spec == Init /\ [][Next]_vars

----------------------------------------------------------------------------
(* What a configuration means.                                             *)

\* The writers of a raw schema: its remote one, and the shared one unless the
\* schema is confined to the remote one.
WritersOf(cf, s) ==
  {r \in Writers : r = cf.remote[s] \/ (r = Ingest /\ Ingest \in cf.named /\ ~ Confined(cf, s))}

Serves(cf, r) == r \in cf.named \/ r \in RemotesOf(cf)

Own(r) == IF r = Transform THEN TransformWrites ELSE IF r \in Writers THEN IngestWrites ELSE {}

\* What role r is to have on key k.
Wanted(cf, r, k) ==
  CASE k.kind = "control" ->
         {p \in Writer : Serves(cf, r) /\ (p = "SELECT" \/ k.name \in Own(r))}
    [] k.kind = "mart" ->
         {p \in Writer \cup {"DELETE"} : /\ r \in cf.named
                                         /\ r = Transform \/ (r = Read /\ p = "SELECT")}
    [] k.kind = "schema" ->
         {p \in {"USAGE"} : r \in WritersOf(cf, k.schema) \/ (r = Transform /\ r \in cf.named)}
    [] OTHER ->
         {p \in Writer : \/ r \in WritersOf(cf, k.schema)
                         \/ r = Transform /\ r \in cf.named /\ p = "SELECT"}

\* What it must not have, whatever was granted before.
Unwanted(cf, r, k) ==
  CASE k.kind = "control" ->
         {p \in Privs \ {"USAGE", "SELECT"} :
            /\ Serves(cf, r) /\ r \notin {Read, Monitor}
            /\ p \in {"DELETE", "TRUNCATE"} \/ k.name \notin Own(r)}
    [] k.kind = "mart" -> {}
    [] OTHER ->
         {p \in IF k.kind = "schema" THEN {"USAGE"} ELSE IF k.kind = "later" THEN Writer ELSE Privs :
            r = Ingest /\ Ingest \in cf.named /\ Confined(cf, k.schema)}

----------------------------------------------------------------------------
(* Properties.                                                             *)

TypeOK ==
  /\ acl \in [Keys -> [Roles -> SUBSET Privs]]
  /\ made \in SUBSET Tables /\ conf \in Configs /\ whole \in BOOLEAN
  /\ todo \subseteq Statements(conf)

\* After an application that ran to its end, and until the next, every role has
\* what the configuration gives it, on the raw tables created since too; a
\* worker writes no control table but its own, and the shared ingest role has
\* nothing left in a schema confined to a remote writer, whatever either had
\* before.
Converged ==
  whole /\ todo = {} =>
    \A k \in Live, r \in Roles :
      /\ Wanted(conf, r, k) \subseteq acl[k][r]
      /\ Unwanted(conf, r, k) \cap acl[k][r] = {}

\* No statement takes from a role what the configuration gives it: workers that
\* could write go on writing while the file is applied ("revoking from its own
\* tables and granting back would open a window, mid-converge").
NoWindow ==
  [][\A k \in Live \cap Live', r \in Roles :
       Wanted(conf', r, k) \cap acl[k][r] \subseteq acl'[k][r]]_vars

=============================================================================
