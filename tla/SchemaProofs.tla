---------------------------- MODULE SchemaProofs ----------------------------
(***************************************************************************)
(* What is promised by the parts of the warehouse that the generated       *)
(* schema makes.  HoldOut, for any deployments and sources: the functions  *)
(* on hold-outs and the converges that call them.  Grants, for any tables, *)
(* schemas and remote writers, and whatever had been granted before: the   *)
(* privileges.  Partitions, for any widths of the window, any months and   *)
(* any order of applications, landings and drops: those of one table.      *)
(***************************************************************************)
EXTENDS HoldOut, TLAPS

CONSTANTS
  Control, IngestWrites, TransformWrites, Marts, Schemas, Names, \* Grants
  Remotes, Creators, Beside,
  Early, Kept                                                    \* Partitions

VARIABLES
  acl, made, conf, whole, stmts,                  \* Grants
  now, dflt, parts, own, strays, reach, passed    \* Partitions

\* The variable called todo there is called stmts here; Nobody is a constant of
\* both.
Acl == INSTANCE Grants WITH todo <- stmts

\* The variable called made there is called dflt here.
Months == INSTANCE Partitions WITH made <- dflt

----------------------------------------------------------------------------
(* HoldOut.                                                                *)

\* What a sync has dealt with is held out, and it never lifts what it was asked
\* to hold out.
HoldPhases ==
  \A d \in Deployers :
    /\ pc[d] = "hold" =>
         \A s \in asked[d] : s \in todo[d] \/ holder[s] # Nobody \/ s \in lifted[d]
    /\ pc[d] = "release" => todo[d] \cap asked[d] = {}

HoldInv == TypeOK /\ HoldPhases /\ HeldBeforeReleased

LEMMA HoldTypeStep ==
  TypeOK /\ [Next]_vars => TypeOK'
<1> SUFFICES ASSUME TypeOK, [Next]_vars PROVE TypeOK'
  OBVIOUS
<1> USE ScopeAssumption, BoundAssumption DEF TypeOK, Changed
<1>1. ASSUME NEW d \in Deployers, Edit(d) PROVE TypeOK'
  BY <1>1 DEF Edit
<1>2. ASSUME NEW d \in Deployers, NEW s \in Sources, ByHand(d, s) PROVE TypeOK'
  <2>1. Login[d] \in Logins
    BY DEF Logins
  <2>2. holder' \in [Sources -> Logins \cup {Nobody}]
    BY <1>2, <2>1 DEF ByHand, HoldOutSource, ReleaseSource
  <2>3. lifted' \in [Deployers -> SUBSET Sources]
    BY <1>2 DEF ByHand, Noted
  <2> QED  BY <1>2, <2>2, <2>3 DEF ByHand
<1>3. ASSUME NEW d \in Deployers, Begin(d) PROVE TypeOK'
  BY <1>3 DEF Begin
<1>4. ASSUME NEW d \in Deployers, HoldNext(d) PROVE TypeOK'
  <2>1. Login[d] \in Logins
    BY DEF Logins
  <2> QED  BY <1>4, <2>1 DEF HoldNext, HoldOutSource
<1>5. ASSUME NEW d \in Deployers, MyHoldOuts(d) PROVE TypeOK'
  BY <1>5 DEF MyHoldOuts, Mine
<1>6. ASSUME NEW d \in Deployers, ReleaseNext(d) PROVE TypeOK'
  <2>1. holder' \in [Sources -> Logins \cup {Nobody}]
    BY <1>6 DEF ReleaseNext, ReleaseSource
  <2>2. lifted' \in [Deployers -> SUBSET Sources]
    BY <1>6 DEF ReleaseNext, Noted
  <2>3. /\ DOMAIN todo' = Deployers
        /\ \A e \in Deployers : todo'[e] \subseteq Managed[e]
    BY <1>6 DEF ReleaseNext
  <2> QED  BY <1>6, <2>1, <2>2, <2>3 DEF ReleaseNext
<1>7. ASSUME NEW d \in Deployers, Done(d) PROVE TypeOK'
  BY <1>7 DEF Done
<1>8. ASSUME NEW d \in Deployers, Cut(d) PROVE TypeOK'
  BY <1>8 DEF Cut
<1>9. CASE UNCHANGED vars
  BY <1>9 DEF vars
<1> QED
  BY <1>1, <1>2, <1>3, <1>4, <1>5, <1>6, <1>7, <1>8, <1>9 DEF Next, Sync

LEMMA HoldStep ==
  HoldInv /\ [Next]_vars => HoldInv'
<1> SUFFICES ASSUME HoldInv, [Next]_vars, NEW e \in Deployers
             PROVE  /\ pc'[e] = "hold" => \A s \in asked'[e] :
                          s \in todo'[e] \/ holder'[s] # Nobody \/ s \in lifted'[e]
                    /\ pc'[e] = "release" =>
                          /\ todo'[e] \cap asked'[e] = {}
                          /\ \A s \in asked'[e] : holder'[s] # Nobody \/ s \in lifted'[e]
  BY HoldTypeStep DEF HoldInv, HoldPhases, HeldBeforeReleased
<1> USE ScopeAssumption, BoundAssumption DEF HoldInv, HoldPhases, HeldBeforeReleased, TypeOK
<1> DEFINE G == /\ pc'[e] = "hold" => \A s \in asked'[e] :
                          s \in todo'[e] \/ holder'[s] # Nobody \/ s \in lifted'[e]
                /\ pc'[e] = "release" =>
                          /\ todo'[e] \cap asked'[e] = {}
                          /\ \A s \in asked'[e] : holder'[s] # Nobody \/ s \in lifted'[e]
<1>0. asked[e] \subseteq Managed[e] /\ Managed[e] \subseteq Sources
  OBVIOUS
<1>1. ASSUME NEW d \in Deployers, Edit(d) PROVE G
  BY <1>1 DEF Edit
<1>2. ASSUME NEW d \in Deployers, NEW s \in Sources, ByHand(d, s) PROVE G
  <2>1. Login[d] # Nobody
    BY DEF Logins
  <2>2. \A x \in asked[e] : holder[x] # Nobody => holder'[x] # Nobody \/ x \in lifted'[e]
    BY <1>0, <1>2, <2>1 DEF ByHand, HoldOutSource, ReleaseSource,
       Noted, CanRelease
  <2>3. lifted[e] \subseteq lifted'[e]
    BY <1>2 DEF ByHand, Noted
  <2> QED  BY <1>2, <2>2, <2>3 DEF ByHand
<1>3. ASSUME NEW d \in Deployers, Begin(d) PROVE G
  BY <1>3 DEF Begin
<1>4. ASSUME NEW d \in Deployers, HoldNext(d) PROVE G
  <2>1. Login[d] # Nobody
    BY DEF Logins
  <2>2. PICK s \in todo[d] : /\ holder' = [holder EXCEPT ![s] = Login[d]]
                                 /\ todo' = [todo EXCEPT ![d] = @ \ {s}]
    BY <1>4 DEF HoldNext, HoldOutSource
  <2>3. s \in Sources /\ holder'[s] # Nobody
    BY <2>1, <2>2
  <2>4. \A x \in asked[e] : holder[x] # Nobody => holder'[x] # Nobody
    BY <1>0, <2>1, <2>2
  <2>5. /\ pc' = pc /\ asked' = asked /\ lifted' = lifted /\ pc[d] = "hold"
        /\ \A x \in todo[e] : x \in todo'[e] \/ x = s
        /\ todo'[e] \subseteq todo[e]
    BY <1>4, <2>2 DEF HoldNext
  <2> QED  BY <2>3, <2>4, <2>5
<1>5. ASSUME NEW d \in Deployers, MyHoldOuts(d) PROVE G
  BY <1>5 DEF MyHoldOuts, Mine
<1>6. ASSUME NEW d \in Deployers, ReleaseNext(d) PROVE G
  <2>1. PICK s \in todo[d] :
          /\ ReleaseSource(d, s) /\ Noted(d, s, Deployers \ {d})
          /\ IF Refused(d, s)
             THEN pc' = [pc EXCEPT ![d] = "idle"] /\ todo' = [todo EXCEPT ![d] = {}]
             ELSE todo' = [todo EXCEPT ![d] = @ \ {s}] /\ UNCHANGED pc
    BY <1>6 DEF ReleaseNext
  <2>2. pc[d] = "release" /\ asked' = asked
    BY <1>6 DEF ReleaseNext
  <2>3. e = d => s \notin asked[e]
    BY <2>2
  <2>4. lifted[e] \subseteq lifted'[e]
    BY <2>1 DEF Noted
  <2>5. \A x \in asked[e] : holder[x] # Nobody => holder'[x] # Nobody \/ x \in lifted'[e]
    BY <1>0, <2>1, <2>3 DEF ReleaseSource, CanRelease, Noted
  <2>6. todo'[e] \subseteq todo[e]
    BY <2>1
  <2>7. pc'[e] # "idle" => pc'[e] = pc[e]
    BY <2>1
  <2>8. pc[e] = "hold" => todo'[e] = todo[e]
    BY <2>1, <2>2
  <2> QED  BY <2>2, <2>4, <2>5, <2>6, <2>7, <2>8
<1>7. ASSUME NEW d \in Deployers, Done(d) PROVE G
  BY <1>7 DEF Done
<1>8. ASSUME NEW d \in Deployers, Cut(d) PROVE G
  BY <1>8 DEF Cut
<1>9. CASE UNCHANGED vars
  BY <1>9 DEF vars
<1> HIDE DEF HoldInv, HoldPhases, HeldBeforeReleased, TypeOK
<1>10. G
  BY <1>1, <1>2, <1>3, <1>4, <1>5, <1>6, <1>7, <1>8, <1>9 DEF Next, Sync
<1> QED  BY <1>10 DEF G

LEMMA HoldInvariance == Spec => []HoldInv
<1>1. Init => HoldInv
  BY ScopeAssumption, BoundAssumption DEF Init, HoldInv, TypeOK, HoldPhases, HeldBeforeReleased
<1>2. HoldInv /\ [Next]_vars => HoldInv'
  BY HoldStep
<1> QED  BY <1>1, <1>2, PTL DEF Spec

\* The types of HoldOut's variables; a converge works only on sources it manages.
THEOREM HoldTypeCorrect == Spec => []TypeOK
<1>1. HoldInv => TypeOK
  BY DEF HoldInv
<1> QED  BY <1>1, HoldInvariance, PTL

\* When a sync begins to release, all it was asked to hold out is held out or was
\* lifted by somebody else meanwhile, whoever takes over, releases or is cut off:
\* a source moving between two names is never briefly shown as running.
THEOREM HeldUntilReleases ==
  Spec => []HeldBeforeReleased
<1>1. HoldInv => HeldBeforeReleased
  BY DEF HoldInv
<1> QED  BY <1>1, HoldInvariance, PTL

\* Deployments that share a login and manage different sources do not lift what
\* another of them was asked to hold out (my_hold_outs() and --managed in sync).
THEOREM LoginsKeptApart == Spec => KeptApart
<1> DEFINE A == \A d, e \in Deployers, s \in Sources :
                  /\ pc[d] = "release" /\ todo'[d] # todo[d]
                  /\ holder[s] # Nobody /\ holder'[s] = Nobody
                  /\ d # e /\ Login[d] = Login[e]
                  => s \notin asked[e]
<1>1. HoldInv /\ [Next]_vars => [A]_vars
  <2> SUFFICES ASSUME HoldInv, Next,
                      NEW d \in Deployers, NEW e \in Deployers, NEW s \in Sources,
                      pc[d] = "release", todo'[d] # todo[d],
                      holder[s] # Nobody, holder'[s] = Nobody,
                      d # e, Login[d] = Login[e]
               PROVE  s \notin asked[e]
    OBVIOUS
  <2>1. PICK c \in Deployers :
          \/ Edit(c)
          \/ \E x \in Sources : ByHand(c, x)
          \/ Begin(c) \/ HoldNext(c) \/ MyHoldOuts(c)
          \/ ReleaseNext(c) \/ Done(c) \/ Cut(c)
    BY DEF Next, Sync
  <2> USE DEF HoldInv, TypeOK
  <2>4. ~ \E x \in Sources : ByHand(c, x)
    BY DEF ByHand
  <2>5. /\ ~ Edit(c) /\ ~ Done(c) /\ ~ Cut(c) /\ ~ MyHoldOuts(c)
        /\ ~ Begin(c)
    BY DEF Edit, Done, Cut, MyHoldOuts, Begin
  <2>6. ~ HoldNext(c)
    BY DEF HoldNext
  <2>7. ReleaseNext(c)
    BY <2>1, <2>4, <2>5, <2>6
  <2>8. c = d
    BY <2>7 DEF ReleaseNext
  <2>2. s \in todo[d]
    BY <2>7, <2>8 DEF ReleaseNext, ReleaseSource
  <2>3. s \in Managed[d] /\ asked[e] \subseteq Managed[e]
    BY <2>2
  <2> QED  BY <2>3, ScopeAssumption
<1> QED  BY <1>1, HoldInvariance, PTL DEF Spec, KeptApart

----------------------------------------------------------------------------
(* Grants.                                                                 *)

\* The parts of the file, one per role or per role and schema.
LEMMA Parts ==
  ASSUME NEW cf, NEW st
  PROVE  st \in Acl!Statements(cf) <=>
           \/ Acl!Ingest \in cf.named /\ st \in Acl!ControlGrants(Acl!Ingest, IngestWrites)
           \/ \E s \in Schemas : Acl!Ingest \in cf.named /\ Acl!Confined(cf, s) /\ st \in Acl!RawRevokes(s)
           \/ \E s \in Schemas : /\ Acl!Ingest \in cf.named /\ ~ Acl!Confined(cf, s)
                                 /\ st \in Acl!RawGrants(Acl!Ingest, Acl!Writer, s)
           \/ \E r \in Acl!RemotesOf(cf) : st \in Acl!ControlGrants(r, IngestWrites)
           \/ \E s \in Schemas : /\ cf.remote[s] # Nobody
                                 /\ st \in Acl!RawGrants(cf.remote[s], Acl!Writer, s)
           \/ Acl!Transform \in cf.named /\ st \in Acl!ControlGrants(Acl!Transform, TransformWrites)
           \/ \E s \in Schemas : /\ Acl!Transform \in cf.named
                                 /\ st \in Acl!RawGrants(Acl!Transform, {"SELECT"}, s)
           \/ Acl!Transform \in cf.named /\ st = Acl!Grant(Acl!Transform, Acl!Writer \cup {"DELETE"}, Acl!MartKeys)
           \/ Acl!Read \in cf.named /\ st = Acl!Grant(Acl!Read, {"SELECT"}, Acl!MartKeys)
           \/ Acl!Read \in cf.named /\ st = Acl!Grant(Acl!Read, {"SELECT"}, Acl!ControlKeys)
           \/ Acl!Monitor \in cf.named /\ st = Acl!Grant(Acl!Monitor, {"SELECT"}, Acl!ControlKeys)
  BY DEF Acl!Statements

\* A statement grants only what the configuration gives, and revokes only what
\* it must not give.
Fits(cf, st) ==
  /\ st.op \in {"GRANT", "REVOKE"} /\ st.role \in Acl!Roles
  /\ st.privs \subseteq Acl!Privs /\ st.on \subseteq Acl!Keys
  /\ \A k \in st.on :
       /\ st.op = "GRANT" => st.privs \subseteq Acl!Wanted(cf, st.role, k)
       /\ st.op = "REVOKE" => st.privs \subseteq Acl!Unwanted(cf, st.role, k)

\* A key is of exactly one kind.
LEMMA Kinds ==
  /\ \A k \in Acl!ControlKeys : k.kind = "control" /\ k.name \in Control
  /\ \A k \in Acl!MartKeys : k.kind = "mart"
  /\ \A k \in Acl!SchemaKeys : k.kind = "schema" /\ k.schema \in Schemas
  /\ \A k \in Acl!Tables : k.kind = "table" /\ k.schema \in Schemas
  /\ \A k \in Acl!LaterKeys : k.kind = "later" /\ k.schema \in Schemas
  BY DEF Acl!ControlKeys, Acl!MartKeys, Acl!SchemaKeys, Acl!Tables, Acl!LaterKeys

LEMMA FitsControl ==
  ASSUME Acl!RolesDiffer, NEW cf \in Acl!Configs, NEW r \in Acl!Writers \cup {Acl!Transform}, Acl!Serves(cf, r),
         NEW st \in Acl!ControlGrants(r, Acl!Own(r))
  PROVE  Fits(cf, st)
<1>1. r \in Acl!Roles /\ r \notin {Acl!Read, Acl!Monitor}
  BY DEF Acl!RolesDiffer, Acl!Writers, Acl!Roles, Acl!Fixed, Acl!Ingest, Acl!Transform,
     Acl!Read, Acl!Monitor
<1>2. \A k \in Acl!ControlKeys :
        /\ k \in Acl!Keys
        /\ Acl!Wanted(cf, r, k) = {p \in Acl!Writer : p = "SELECT" \/ k.name \in Acl!Own(r)}
        /\ Acl!Unwanted(cf, r, k) = {p \in Acl!Privs \ {"USAGE", "SELECT"} :
                                       p \in {"DELETE", "TRUNCATE"} \/ k.name \notin Acl!Own(r)}
  BY <1>1, Kinds DEF Acl!Wanted, Acl!Unwanted, Acl!Keys
<1>3. CASE st = Acl!Grant(r, {"SELECT"}, Acl!ControlKeys)
  BY <1>1, <1>2, <1>3 DEF Acl!Grant, Fits, Acl!Privs, Acl!Writer
<1>4. CASE st = Acl!Grant(r, Acl!Writer, Acl!ControlOf(Acl!Own(r)))
  BY <1>1, <1>2, <1>4 DEF Acl!Grant, Fits, Acl!Privs, Acl!Writer, Acl!ControlOf
<1>5. CASE st = Acl!Revoke(r, {"DELETE", "TRUNCATE"}, Acl!ControlOf(Acl!Own(r)))
  BY <1>1, <1>2, <1>5 DEF Acl!Revoke, Fits, Acl!Privs, Acl!ControlOf
<1>6. CASE st = Acl!Revoke(r, {"INSERT", "UPDATE", "DELETE", "TRUNCATE"}, Acl!ControlOf(Control \ Acl!Own(r)))
  BY <1>1, <1>2, <1>6 DEF Acl!Revoke, Fits, Acl!Privs, Acl!ControlOf
<1> QED  BY <1>3, <1>4, <1>5, <1>6 DEF Acl!ControlGrants

LEMMA FitsRawGrants ==
  ASSUME Acl!RolesDiffer, NEW cf \in Acl!Configs, NEW s \in Schemas, NEW r \in Acl!Roles, NEW P,
         \/ r \in Acl!WritersOf(cf, s) /\ P = Acl!Writer
         \/ r = Acl!Transform /\ r \in cf.named /\ P = {"SELECT"},
         NEW st \in Acl!RawGrants(r, P, s)
  PROVE  Fits(cf, st)
<1>1. P \subseteq Acl!Privs /\ P \subseteq Acl!Writer
  BY DEF Acl!Privs, Acl!Writer
<1>2. \A k \in Acl!SchemaOf(s) : k \in Acl!Keys /\ Acl!Wanted(cf, r, k) = {"USAGE"}
  <2> SUFFICES ASSUME NEW k \in Acl!SchemaOf(s) PROVE k \in Acl!Keys /\ Acl!Wanted(cf, r, k) = {"USAGE"}
    OBVIOUS
  <2>1. k \in Acl!SchemaKeys /\ k.kind = "schema" /\ k.schema = s
    BY Kinds DEF Acl!SchemaOf
  <2> QED  BY <2>1 DEF Acl!Wanted, Acl!Keys
<1>3. \A k \in Acl!TablesIn(s) \cup Acl!LaterIn(s) : k \in Acl!Keys /\ P \subseteq Acl!Wanted(cf, r, k)
  <2> SUFFICES ASSUME NEW k \in Acl!TablesIn(s) \cup Acl!LaterIn(s)
               PROVE  k \in Acl!Keys /\ P \subseteq Acl!Wanted(cf, r, k)
    OBVIOUS
  <2>1. k \in Acl!Keys /\ k.kind \in {"table", "later"} /\ k.schema = s
    BY Kinds DEF Acl!TablesIn, Acl!LaterIn, Acl!Keys
  <2>2. Acl!Wanted(cf, r, k) = {p \in Acl!Writer : \/ r \in Acl!WritersOf(cf, s)
                                                   \/ r = Acl!Transform /\ r \in cf.named /\ p = "SELECT"}
    BY <2>1 DEF Acl!Wanted
  <2> QED  BY <1>1, <2>1, <2>2
<1>4. CASE st = Acl!Grant(r, {"USAGE"}, Acl!SchemaOf(s))
  BY <1>2, <1>4 DEF Acl!Grant, Fits, Acl!Privs
<1>5. CASE st = Acl!Grant(r, P, Acl!TablesIn(s)) \/ st = Acl!Grant(r, P, Acl!LaterIn(s))
  BY <1>1, <1>3, <1>5 DEF Acl!Grant, Fits
<1> QED  BY <1>4, <1>5 DEF Acl!RawGrants

LEMMA FitsRawRevokes ==
  ASSUME NEW cf \in Acl!Configs, NEW s \in Schemas, Acl!Ingest \in cf.named, Acl!Confined(cf, s),
         NEW st \in Acl!RawRevokes(s)
  PROVE  Fits(cf, st)
<1>1. Acl!Ingest \in Acl!Roles /\ Acl!Writer \subseteq Acl!Privs
  BY DEF Acl!Roles, Acl!Fixed, Acl!Writer, Acl!Privs
<1>2. \A k \in Acl!SchemaOf(s) : k \in Acl!Keys /\ Acl!Unwanted(cf, Acl!Ingest, k) = {"USAGE"}
  <2> SUFFICES ASSUME NEW k \in Acl!SchemaOf(s)
               PROVE  k \in Acl!Keys /\ Acl!Unwanted(cf, Acl!Ingest, k) = {"USAGE"}
    OBVIOUS
  <2>1. k \in Acl!SchemaKeys /\ k.kind = "schema" /\ k.schema = s
    BY Kinds DEF Acl!SchemaOf
  <2> QED  BY <2>1 DEF Acl!Unwanted, Acl!Keys
<1>3. \A k \in Acl!TablesIn(s) : k \in Acl!Keys /\ Acl!Unwanted(cf, Acl!Ingest, k) = Acl!Privs
  <2> SUFFICES ASSUME NEW k \in Acl!TablesIn(s)
               PROVE  k \in Acl!Keys /\ Acl!Unwanted(cf, Acl!Ingest, k) = Acl!Privs
    OBVIOUS
  <2>1. k \in Acl!Tables /\ k.kind = "table" /\ k.schema = s
    BY Kinds DEF Acl!TablesIn
  <2> QED  BY <2>1 DEF Acl!Unwanted, Acl!Keys
<1>4. \A k \in Acl!LaterIn(s) : k \in Acl!Keys /\ Acl!Unwanted(cf, Acl!Ingest, k) = Acl!Writer
  <2> SUFFICES ASSUME NEW k \in Acl!LaterIn(s)
               PROVE  k \in Acl!Keys /\ Acl!Unwanted(cf, Acl!Ingest, k) = Acl!Writer
    OBVIOUS
  <2>1. k \in Acl!LaterKeys /\ k.kind = "later" /\ k.schema = s
    BY Kinds DEF Acl!LaterIn
  <2> QED  BY <2>1 DEF Acl!Unwanted, Acl!Keys
<1>5. CASE st = Acl!Revoke(Acl!Ingest, Acl!Privs, Acl!TablesIn(s))
  BY <1>1, <1>3, <1>5 DEF Acl!Revoke, Fits
<1>6. CASE st = Acl!Revoke(Acl!Ingest, Acl!Writer, Acl!LaterIn(s))
  BY <1>1, <1>4, <1>6 DEF Acl!Revoke, Fits
<1>7. CASE st = Acl!Revoke(Acl!Ingest, {"USAGE"}, Acl!SchemaOf(s))
  BY <1>1, <1>2, <1>7 DEF Acl!Revoke, Fits, Acl!Privs
<1> QED  BY <1>5, <1>6, <1>7 DEF Acl!RawRevokes

LEMMA StatementsFit ==
  ASSUME Acl!RolesDiffer, NEW cf \in Acl!Configs, NEW st \in Acl!Statements(cf)
  PROVE  Fits(cf, st)
<1> USE DEF Acl!Serves, Acl!RemotesOf, Acl!WritersOf, Acl!Writers, Acl!Roles, Acl!Fixed
<1>1. \A s \in Schemas : cf.remote[s] \in Remotes \cup {Nobody}
  BY DEF Acl!Configs
<1>2. Acl!Own(Acl!Ingest) = IngestWrites /\ Acl!Own(Acl!Transform) = TransformWrites
  BY DEF Acl!Own, Acl!Ingest, Acl!Transform
<1>3. CASE Acl!Ingest \in cf.named /\ st \in Acl!ControlGrants(Acl!Ingest, IngestWrites)
  BY <1>2, <1>3, FitsControl
<1>4. CASE \E s \in Schemas : Acl!Ingest \in cf.named /\ Acl!Confined(cf, s) /\ st \in Acl!RawRevokes(s)
  BY <1>4, FitsRawRevokes
<1>5. CASE \E s \in Schemas : /\ Acl!Ingest \in cf.named /\ ~ Acl!Confined(cf, s)
                              /\ st \in Acl!RawGrants(Acl!Ingest, Acl!Writer, s)
  BY <1>5, FitsRawGrants
<1>6. CASE \E r \in Acl!RemotesOf(cf) : st \in Acl!ControlGrants(r, IngestWrites)
  <2>1. PICK r \in Acl!RemotesOf(cf) : st \in Acl!ControlGrants(r, IngestWrites)
    BY <1>6
  <2>2. r \in Remotes
    BY <1>1
  <2>3. r # Acl!Transform
    BY <2>2 DEF Acl!RolesDiffer
  <2>4. Acl!Own(r) = IngestWrites
    BY <2>2, <2>3 DEF Acl!Own
  <2> QED  BY <2>1, <2>2, <2>4, FitsControl
<1>7. CASE \E s \in Schemas : /\ cf.remote[s] # Nobody
                              /\ st \in Acl!RawGrants(cf.remote[s], Acl!Writer, s)
  <2>1. PICK s \in Schemas : cf.remote[s] # Nobody /\ st \in Acl!RawGrants(cf.remote[s], Acl!Writer, s)
    BY <1>7
  <2>2. cf.remote[s] \in Acl!Roles /\ cf.remote[s] \in Acl!WritersOf(cf, s)
    BY <1>1, <2>1
  <2> QED  BY <2>1, <2>2, FitsRawGrants
<1>8. CASE Acl!Transform \in cf.named /\ st \in Acl!ControlGrants(Acl!Transform, TransformWrites)
  BY <1>2, <1>8, FitsControl
<1>9. CASE \E s \in Schemas : Acl!Transform \in cf.named /\ st \in Acl!RawGrants(Acl!Transform, {"SELECT"}, s)
  BY <1>9, FitsRawGrants
<1>10. CASE \/ Acl!Transform \in cf.named /\ st = Acl!Grant(Acl!Transform, Acl!Writer \cup {"DELETE"}, Acl!MartKeys)
            \/ Acl!Read \in cf.named /\ st = Acl!Grant(Acl!Read, {"SELECT"}, Acl!MartKeys)
  <2>1. Acl!Read # Acl!Transform
    BY DEF Acl!Read, Acl!Transform
  <2>2. \A k \in Acl!MartKeys :
          /\ k \in Acl!Keys
          /\ Acl!Transform \in cf.named => Acl!Wanted(cf, Acl!Transform, k) = Acl!Writer \cup {"DELETE"}
          /\ Acl!Read \in cf.named => Acl!Wanted(cf, Acl!Read, k) = {"SELECT"}
    BY <2>1, Kinds DEF Acl!Wanted, Acl!Keys, Acl!Writer
  <2> QED  BY <1>10, <2>2 DEF Fits, Acl!Grant, Acl!Writer, Acl!Privs
<1>11. CASE \E r \in {Acl!Read, Acl!Monitor} : r \in cf.named /\ st = Acl!Grant(r, {"SELECT"}, Acl!ControlKeys)
  <2>1. PICK r \in {Acl!Read, Acl!Monitor} : r \in cf.named /\ st = Acl!Grant(r, {"SELECT"}, Acl!ControlKeys)
    BY <1>11
  <2>2. \A k \in Acl!ControlKeys : k \in Acl!Keys /\ "SELECT" \in Acl!Wanted(cf, r, k)
    BY <2>1, Kinds DEF Acl!Wanted, Acl!Keys, Acl!Writer
  <2> QED  BY <2>1, <2>2 DEF Fits, Acl!Grant, Acl!Privs
<1> QED  BY <1>3, <1>4, <1>5, <1>6, <1>7, <1>8, <1>9, <1>10, <1>11, Parts

\* A statement that gives role r privilege p on k, and one that takes it.
Granting(st, r, k, p) == st.op = "GRANT" /\ st.role = r /\ p \in st.privs /\ k \in st.on
Revoking(st, r, k, p) == st.op = "REVOKE" /\ st.role = r /\ p \in st.privs /\ k \in st.on

\* The two never meet.
LEMMA Apart ==
  ASSUME Acl!RolesDiffer, NEW cf \in Acl!Configs, NEW k \in Acl!Keys, NEW r \in Acl!Roles
  PROVE  Acl!Wanted(cf, r, k) \cap Acl!Unwanted(cf, r, k) = {}
<1>1. k.kind \in {"control", "mart", "schema", "table", "later"}
  BY Kinds DEF Acl!Keys
<1>2. CASE k.kind = "control"
  BY <1>2 DEF Acl!Wanted, Acl!Unwanted, Acl!Writer
<1>3. CASE k.kind = "mart"
  BY <1>3 DEF Acl!Unwanted
<1>4. CASE k.kind \in {"schema", "table", "later"}
  <2>1. k.schema \in Schemas /\ cf.remote[k.schema] \in Remotes \cup {Nobody}
    BY <1>4, Kinds DEF Acl!Keys, Acl!Configs
  <2>2. Acl!Ingest \notin Remotes /\ Acl!Ingest # Acl!Transform
    BY DEF Acl!RolesDiffer, Acl!Fixed, Acl!Ingest, Acl!Transform
  <2>3. CASE r = Acl!Ingest /\ Acl!Ingest \in cf.named /\ Acl!Confined(cf, k.schema)
    <3>1. r \notin Acl!WritersOf(cf, k.schema)
      BY <2>1, <2>2, <2>3 DEF Acl!WritersOf, Acl!Confined
    <3> QED  BY <1>4, <2>2, <2>3, <3>1 DEF Acl!Wanted
  <2>4. CASE ~ (r = Acl!Ingest /\ Acl!Ingest \in cf.named /\ Acl!Confined(cf, k.schema))
    BY <1>4, <2>4 DEF Acl!Unwanted
  <2> QED  BY <2>3, <2>4
<1> QED  BY <1>1, <1>2, <1>3, <1>4

\* Whatever the configuration gives, some statement grants.
LEMMA GrantsAll ==
  ASSUME Acl!RolesDiffer, NEW cf \in Acl!Configs, NEW k \in Acl!Keys, NEW r \in Acl!Roles,
         NEW p \in Acl!Wanted(cf, r, k)
  PROVE  \E st \in Acl!Statements(cf) : Granting(st, r, k, p)
<1> USE DEF Granting, Acl!Grant
<1> SUFFICES \E st : st \in Acl!Statements(cf) /\ Granting(st, r, k, p)
  OBVIOUS
<1>1. \A s \in Schemas : cf.remote[s] \in Remotes \cup {Nobody}
  BY DEF Acl!Configs
<1>2. Acl!Ingest # Acl!Transform /\ Acl!Read \notin {Acl!Ingest, Acl!Transform} /\ Acl!Monitor \notin {Acl!Ingest, Acl!Transform, Acl!Read}
  BY DEF Acl!Ingest, Acl!Transform, Acl!Read, Acl!Monitor
<1>3. \A x \in Remotes : x \notin Acl!Fixed
  BY DEF Acl!RolesDiffer
<1>4. CASE k \in Acl!ControlKeys
  <2>1. Acl!Serves(cf, r) /\ p \in Acl!Writer /\ (p = "SELECT" \/ k.name \in Acl!Own(r))
    BY <1>4, Kinds DEF Acl!Wanted
  <2>2. k \in Acl!ControlOf(Acl!Own(r)) \/ p = "SELECT"
    BY <1>4, <2>1 DEF Acl!ControlOf
  <2>3. CASE r = Acl!Ingest /\ r \in cf.named
    <3>1. Acl!Own(r) = IngestWrites
      BY <1>2, <2>3 DEF Acl!Own, Acl!Writers
    <3>2. \A st \in Acl!ControlGrants(r, Acl!Own(r)) : st \in Acl!Statements(cf)
      BY <2>3, <3>1, Parts
    <3> QED  BY <1>4, <2>1, <2>2, <3>2 DEF Acl!ControlGrants
  <2>4. CASE r = Acl!Transform /\ r \in cf.named
    <3>1. Acl!Own(r) = TransformWrites
      BY <2>4 DEF Acl!Own
    <3>2. \A st \in Acl!ControlGrants(r, Acl!Own(r)) : st \in Acl!Statements(cf)
      BY <2>4, <3>1, Parts
    <3> QED  BY <1>4, <2>1, <2>2, <3>2 DEF Acl!ControlGrants
  <2>5. CASE r \in {Acl!Read, Acl!Monitor} /\ r \in cf.named
    <3>1. Acl!Own(r) = {}
      BY <1>2, <1>3, <2>5 DEF Acl!Own, Acl!Writers, Acl!Fixed
    <3>2. Acl!Grant(r, {"SELECT"}, Acl!ControlKeys) \in Acl!Statements(cf)
      BY <2>5, Parts
    <3> QED  BY <1>4, <2>1, <3>1, <3>2
  <2>6. CASE r \in Acl!RemotesOf(cf)
    <3>1. r \in Remotes
      BY <1>1, <2>6 DEF Acl!RemotesOf
    <3>2. Acl!Own(r) = IngestWrites
      BY <1>3, <3>1 DEF Acl!Own, Acl!Writers, Acl!Fixed
    <3>3. \A st \in Acl!ControlGrants(r, Acl!Own(r)) : st \in Acl!Statements(cf)
      BY <2>6, <3>2, Parts
    <3> QED  BY <1>4, <2>1, <2>2, <3>3 DEF Acl!ControlGrants
  <2>7. cf.named \subseteq Acl!Fixed
    BY DEF Acl!Configs
  <2> QED  BY <2>1, <2>3, <2>4, <2>5, <2>6, <2>7 DEF Acl!Serves, Acl!Fixed
<1>5. CASE k \in Acl!MartKeys
  <2>1. r \in cf.named /\ p \in Acl!Writer \cup {"DELETE"} /\ (r = Acl!Transform \/ (r = Acl!Read /\ p = "SELECT"))
    BY <1>5, Kinds DEF Acl!Wanted
  <2>2. CASE r = Acl!Transform
    <3>1. Acl!Grant(Acl!Transform, Acl!Writer \cup {"DELETE"}, Acl!MartKeys) \in Acl!Statements(cf)
      BY <2>1, <2>2, Parts
    <3> QED  BY <1>5, <2>1, <2>2, <3>1
  <2>3. CASE r = Acl!Read
    <3>1. Acl!Grant(Acl!Read, {"SELECT"}, Acl!MartKeys) \in Acl!Statements(cf)
      BY <2>1, <2>3, Parts
    <3> QED  BY <1>2, <1>5, <2>1, <2>3, <3>1
  <2> QED  BY <2>1, <2>2, <2>3
<1>6. CASE k \in Acl!SchemaKeys \cup Acl!Tables \cup Acl!LaterKeys
  <2>1. PICK s \in Schemas : s = k.schema
    BY <1>6, Kinds
  <2>2. k \in Acl!SchemaOf(s) \/ k \in Acl!TablesIn(s) \/ k \in Acl!LaterIn(s)
    BY <1>6, <2>1 DEF Acl!SchemaOf, Acl!TablesIn, Acl!LaterIn
  <2>3. \/ k.kind = "schema" /\ p = "USAGE" /\ (r \in Acl!WritersOf(cf, s) \/ (r = Acl!Transform /\ r \in cf.named))
        \/ /\ k.kind \in {"table", "later"} /\ p \in Acl!Writer
           /\ r \in Acl!WritersOf(cf, s) \/ (r = Acl!Transform /\ r \in cf.named /\ p = "SELECT")
    BY <1>6, <2>1, Kinds DEF Acl!Wanted
  <2>4. \A P : (r \in Acl!WritersOf(cf, s) /\ P = Acl!Writer) \/ (r = Acl!Transform /\ r \in cf.named /\ P = {"SELECT"})
               => \A st \in Acl!RawGrants(r, P, s) : st \in Acl!Statements(cf)
    <3> SUFFICES ASSUME NEW P, NEW st \in Acl!RawGrants(r, P, s),
                        \/ r \in Acl!WritersOf(cf, s) /\ P = Acl!Writer
                        \/ r = Acl!Transform /\ r \in cf.named /\ P = {"SELECT"}
                 PROVE  st \in Acl!Statements(cf)
      OBVIOUS
    <3>1. CASE r = Acl!Transform /\ r \in cf.named /\ P = {"SELECT"}
      BY <3>1, Parts
    <3>2. CASE r \in Acl!WritersOf(cf, s) /\ P = Acl!Writer
      <4>1. CASE r = Acl!Ingest /\ Acl!Ingest \in cf.named /\ ~ Acl!Confined(cf, s)
        BY <3>2, <4>1, Parts
      <4>2. CASE r = cf.remote[s]
        <5>1. cf.remote[s] # Nobody
          BY <4>2 DEF Acl!RolesDiffer
        <5> QED  BY <3>2, <4>2, <5>1, Parts
      <4> QED  BY <3>2, <4>1, <4>2 DEF Acl!WritersOf
    <3> QED  BY <3>1, <3>2
  <2>5. PICK P : /\ \A st \in Acl!RawGrants(r, P, s) : st \in Acl!Statements(cf)
                 /\ k.kind = "schema" \/ p \in P
    <3>1. CASE r \in Acl!WritersOf(cf, s)
      <4>1. \A st \in Acl!RawGrants(r, Acl!Writer, s) : st \in Acl!Statements(cf)
        BY <2>4, <3>1
      <4> QED  BY <2>3, <4>1
    <3>2. CASE r = Acl!Transform /\ r \in cf.named /\ r \notin Acl!WritersOf(cf, s)
      <4>1. \A st \in Acl!RawGrants(r, {"SELECT"}, s) : st \in Acl!Statements(cf)
        BY <2>4, <3>2
      <4> QED  BY <2>3, <3>2, <4>1
    <3> QED  BY <2>3, <3>1, <3>2
  <2>6. CASE k \in Acl!SchemaOf(s)
    <3>1. p = "USAGE"
      BY <2>3, <2>6, Kinds DEF Acl!SchemaOf
    <3>2. Acl!Grant(r, {"USAGE"}, Acl!SchemaOf(s)) \in Acl!Statements(cf)
      BY <2>5 DEF Acl!RawGrants
    <3> QED  BY <2>6, <3>1, <3>2
  <2>7. CASE k \in Acl!TablesIn(s) \cup Acl!LaterIn(s)
    <3>1. p \in P
      BY <2>5, <2>7, Kinds DEF Acl!TablesIn, Acl!LaterIn
    <3>2. /\ Acl!Grant(r, P, Acl!TablesIn(s)) \in Acl!Statements(cf)
          /\ Acl!Grant(r, P, Acl!LaterIn(s)) \in Acl!Statements(cf)
      BY <2>5 DEF Acl!RawGrants
    <3> QED  BY <2>7, <3>1, <3>2
  <2> QED  BY <2>2, <2>6, <2>7
<1> QED  BY <1>4, <1>5, <1>6 DEF Acl!Keys

\* Whatever the configuration must not give, some statement revokes.
LEMMA RevokesAll ==
  ASSUME Acl!RolesDiffer, NEW cf \in Acl!Configs, NEW k \in Acl!Keys, NEW r \in Acl!Roles,
         NEW p \in Acl!Unwanted(cf, r, k)
  PROVE  \E st \in Acl!Statements(cf) : Revoking(st, r, k, p)
<1> USE DEF Revoking, Acl!Revoke
<1>1. \A s \in Schemas : cf.remote[s] \in Remotes \cup {Nobody}
  BY DEF Acl!Configs
<1>2. CASE k \in Acl!ControlKeys
  <2>1. /\ Acl!Serves(cf, r) /\ r \notin {Acl!Read, Acl!Monitor}
        /\ p \in {"INSERT", "UPDATE", "DELETE", "TRUNCATE"}
        /\ p \in {"DELETE", "TRUNCATE"} \/ k.name \notin Acl!Own(r)
    BY <1>2, Kinds DEF Acl!Unwanted, Acl!Privs
  <2>2. \A st \in Acl!ControlGrants(r, Acl!Own(r)) : st \in Acl!Statements(cf)
    <3>1. CASE r = Acl!Ingest /\ r \in cf.named
      <4>1. Acl!Own(r) = IngestWrites
        BY <3>1 DEF Acl!Own, Acl!Writers, Acl!Ingest, Acl!Transform
      <4> QED  BY <3>1, <4>1, Parts
    <3>2. CASE r = Acl!Transform /\ r \in cf.named
      <4>1. Acl!Own(r) = TransformWrites
        BY <3>2 DEF Acl!Own
      <4> QED  BY <3>2, <4>1, Parts
    <3>3. CASE r \in Acl!RemotesOf(cf)
      <4>1. r \in Remotes
        BY <1>1, <3>3 DEF Acl!RemotesOf
      <4>2. Acl!Own(r) = IngestWrites
        BY <4>1 DEF Acl!Own, Acl!Writers, Acl!RolesDiffer, Acl!Fixed
      <4> QED  BY <3>3, <4>2, Parts
    <3>4. cf.named \subseteq Acl!Fixed
      BY DEF Acl!Configs
    <3> QED  BY <2>1, <3>1, <3>2, <3>3, <3>4 DEF Acl!Serves, Acl!Fixed
  <2>3. k.name \in Control
    BY <1>2, Kinds
  <2>4. CASE k.name \in Acl!Own(r)
    BY <1>2, <2>1, <2>2, <2>4 DEF Acl!ControlGrants, Acl!ControlOf
  <2>5. CASE k.name \notin Acl!Own(r)
    BY <1>2, <2>1, <2>2, <2>3, <2>5 DEF Acl!ControlGrants, Acl!ControlOf
  <2> QED  BY <2>4, <2>5
<1>3. CASE k \in Acl!MartKeys
  BY <1>3, Kinds DEF Acl!Unwanted
<1>4. CASE k \in Acl!SchemaKeys \cup Acl!Tables \cup Acl!LaterKeys
  <2>1. PICK s \in Schemas : s = k.schema
    BY <1>4, Kinds
  <2>2. r = Acl!Ingest /\ Acl!Ingest \in cf.named /\ Acl!Confined(cf, s)
    BY <1>4, <2>1, Kinds DEF Acl!Unwanted
  <2>3. \A st \in Acl!RawRevokes(s) : st \in Acl!Statements(cf)
    BY <2>2, Parts
  <2>4. CASE k \in Acl!SchemaKeys
    <3>1. p = "USAGE" /\ k \in Acl!SchemaOf(s)
      BY <2>1, <2>4, Kinds DEF Acl!Unwanted, Acl!SchemaOf
    <3> QED  BY <2>2, <2>3, <3>1 DEF Acl!RawRevokes
  <2>5. CASE k \in Acl!Tables
    <3>1. p \in Acl!Privs /\ k \in Acl!TablesIn(s)
      BY <2>1, <2>5, Kinds DEF Acl!Unwanted, Acl!TablesIn
    <3> QED  BY <2>2, <2>3, <3>1 DEF Acl!RawRevokes
  <2>6. CASE k \in Acl!LaterKeys
    <3>1. p \in Acl!Writer /\ k \in Acl!LaterIn(s)
      BY <2>1, <2>6, Kinds DEF Acl!Unwanted, Acl!LaterIn
    <3> QED  BY <2>2, <2>3, <3>1 DEF Acl!RawRevokes
  <2> QED  BY <1>4, <2>4, <2>5, <2>6
<1> QED  BY <1>2, <1>3, <1>4 DEF Acl!Keys

----------------------------------------------------------------------------
\* Default privileges are a writer's at most: a table that is created has no more
\* than the file knows of.
LaterIsSmall == \A k \in Acl!LaterKeys, r \in Acl!Roles : acl[k][r] \subseteq Acl!Writer

\* What is still to come out as the configuration says is still to be run.
Progress ==
  whole =>
    \A k \in Acl!Live, r \in Acl!Roles :
      /\ \A p \in Acl!Wanted(conf, r, k) : p \in acl[k][r] \/ \E st \in stmts : Granting(st, r, k, p)
      /\ \A p \in Acl!Unwanted(conf, r, k) : p \notin acl[k][r] \/ \E st \in stmts : Revoking(st, r, k, p)

GrantsInv == Acl!TypeOK /\ LaterIsSmall /\ Progress

LEMMA LiveKeys == Acl!Live \subseteq Acl!Keys
  BY DEF Acl!Live

\* What a statement does to one key and role.
LEMMA Effect ==
  ASSUME Acl!TypeOK, NEW st \in stmts, Acl!Execute(st), NEW k \in Acl!Keys, NEW r \in Acl!Roles
  PROVE  acl'[k][r] = IF k \in st.on \cap Acl!Live THEN Acl!Changed(acl[k][r], st, r) ELSE acl[k][r]
  BY DEF Acl!Execute

LEMMA GrantsTypeInit == Acl!Init => Acl!TypeOK
  BY DEF Acl!Init, Acl!TypeOK

LEMMA GrantsTypeStep ==
  ASSUME Acl!RolesDiffer, Acl!TypeOK, [Acl!Next]_(Acl!vars) PROVE Acl!TypeOK'
<1> USE DEF Acl!TypeOK
<1>1. ASSUME NEW cf \in Acl!Configs, Acl!Apply(cf) PROVE Acl!TypeOK'
  BY <1>1 DEF Acl!Apply
<1>2. ASSUME NEW st \in stmts, Acl!Execute(st) PROVE Acl!TypeOK'
  <2>1. Fits(conf, st)
    BY StatementsFit
  <2>2. \A k \in Acl!Keys, r \in Acl!Roles :
          (IF k \in st.on \cap Acl!Live THEN Acl!Changed(acl[k][r], st, r) ELSE acl[k][r]) \in SUBSET Acl!Privs
    BY <2>1 DEF Acl!Changed, Fits
  <2>3. acl' \in [Acl!Keys -> [Acl!Roles -> SUBSET Acl!Privs]]
    BY <1>2, <2>2 DEF Acl!Execute
  <2> QED  BY <1>2, <2>3 DEF Acl!Execute
<1>3. CASE Acl!CutOff
  BY <1>3 DEF Acl!CutOff
<1>4. ASSUME NEW t \in Acl!Tables, NEW by \in Creators, Acl!CreateTable(t, by) PROVE Acl!TypeOK'
  <2>1. [kind |-> "later", schema |-> t.schema, by |-> by] \in Acl!Keys
    BY Kinds DEF Acl!LaterKeys, Acl!Keys
  <2>2. acl' \in [Acl!Keys -> [Acl!Roles -> SUBSET Acl!Privs]]
    BY <1>4, <2>1 DEF Acl!CreateTable
  <2> QED  BY <1>4, <2>2 DEF Acl!CreateTable
<1>5. ASSUME NEW t \in Acl!Tables, Acl!DropTable(t) PROVE Acl!TypeOK'
  BY <1>5 DEF Acl!DropTable
<1>6. CASE UNCHANGED Acl!vars
  BY <1>6 DEF Acl!vars
<1> QED  BY <1>1, <1>2, <1>3, <1>4, <1>5, <1>6 DEF Acl!Next

LEMMA LaterStep ==
  ASSUME Acl!RolesDiffer, Acl!TypeOK, LaterIsSmall, [Acl!Next]_(Acl!vars) PROVE LaterIsSmall'
<1> SUFFICES ASSUME NEW k \in Acl!LaterKeys, NEW r \in Acl!Roles PROVE acl'[k][r] \subseteq Acl!Writer
  BY DEF LaterIsSmall
<1>0. k \in Acl!Keys /\ k \notin Acl!Tables /\ acl[k][r] \subseteq Acl!Writer
  BY Kinds DEF Acl!Keys, LaterIsSmall
<1>1. ASSUME NEW cf \in Acl!Configs, Acl!Apply(cf) PROVE acl'[k][r] \subseteq Acl!Writer
  BY <1>0, <1>1 DEF Acl!Apply
<1>2. ASSUME NEW st \in stmts, Acl!Execute(st) PROVE acl'[k][r] \subseteq Acl!Writer
  <2>1. Fits(conf, st)
    BY StatementsFit DEF Acl!TypeOK
  <2>2. Acl!Wanted(conf, st.role, k) \subseteq Acl!Writer
    BY Kinds DEF Acl!Wanted
  <2>3. acl'[k][r] = IF k \in st.on \cap Acl!Live THEN Acl!Changed(acl[k][r], st, r) ELSE acl[k][r]
    BY <1>0, <1>2, Effect
  <2>4. k \in st.on => Acl!Changed(acl[k][r], st, r) \subseteq acl[k][r] \cup Acl!Writer
    BY <2>1, <2>2 DEF Acl!Changed, Fits
  <2> QED  BY <1>0, <2>3, <2>4
<1>3. CASE Acl!CutOff
  BY <1>0, <1>3 DEF Acl!CutOff
<1>4. ASSUME NEW t \in Acl!Tables, NEW by \in Creators, Acl!CreateTable(t, by)
      PROVE  acl'[k][r] \subseteq Acl!Writer
  BY <1>0, <1>4 DEF Acl!CreateTable, Acl!TypeOK
<1>5. ASSUME NEW t \in Acl!Tables, Acl!DropTable(t) PROVE acl'[k][r] \subseteq Acl!Writer
  BY <1>0, <1>5 DEF Acl!DropTable
<1>6. CASE UNCHANGED Acl!vars
  BY <1>0, <1>6 DEF Acl!vars
<1> QED  BY <1>1, <1>2, <1>3, <1>4, <1>5, <1>6 DEF Acl!Next

\* A table that is created between two applications is what its creator's default
\* privileges say, and those have converged.
LEMMA ProgressOnCreate ==
  ASSUME ~ Beside, Acl!TypeOK, LaterIsSmall, Progress,
         NEW t \in Acl!Tables, NEW by \in Creators, Acl!CreateTable(t, by)
  PROVE  Progress'
<1> SUFFICES ASSUME whole, NEW k \in Acl!Live', NEW r \in Acl!Roles
             PROVE  /\ Acl!Wanted(conf, r, k) \subseteq acl'[k][r]
                    /\ Acl!Unwanted(conf, r, k) \cap acl'[k][r] = {}
  BY DEF Progress, Acl!CreateTable
<1>1. stmts = {}
  BY DEF Acl!CreateTable
<1>2. \A x \in Acl!Live : /\ Acl!Wanted(conf, r, x) \subseteq acl[x][r]
                          /\ Acl!Unwanted(conf, r, x) \cap acl[x][r] = {}
  BY <1>1 DEF Progress
<1>3. CASE k # t
  <2>1. k \in Acl!Live /\ acl'[k][r] = acl[k][r]
    BY <1>3 DEF Acl!CreateTable, Acl!Live, Acl!TypeOK
  <2> QED  BY <1>2, <2>1
<1>4. CASE k = t
  <2> DEFINE later == [kind |-> "later", schema |-> t.schema, by |-> by]
  <2>1. later \in Acl!LaterKeys
    BY Kinds DEF Acl!LaterKeys
  <2>2. later \in Acl!Live /\ later.kind = "later" /\ later.schema = t.schema
    BY <2>1, Kinds DEF Acl!Live, Acl!Keys
  <2>3. t.kind = "table"
    BY Kinds
  <2>4. acl'[k][r] = acl[later][r] /\ acl[later][r] \subseteq Acl!Writer
    BY <1>4, <2>1 DEF Acl!CreateTable, Acl!TypeOK, Acl!Keys, LaterIsSmall
  <2>5. Acl!Wanted(conf, r, t) = Acl!Wanted(conf, r, later)
    BY <2>2, <2>3 DEF Acl!Wanted
  <2>6. Acl!Unwanted(conf, r, t) \cap Acl!Writer \subseteq Acl!Unwanted(conf, r, later)
    BY <2>2, <2>3 DEF Acl!Unwanted
  <2> HIDE DEF later
  <2> QED  BY <1>2, <1>4, <2>2, <2>4, <2>5, <2>6
<1> QED  BY <1>3, <1>4

\* A statement brings about what it stands for and undoes nothing.
LEMMA ProgressOnExecute ==
  ASSUME Acl!RolesDiffer, Acl!TypeOK, Progress, NEW st \in stmts, Acl!Execute(st)
  PROVE  Progress'
<1>1. Fits(conf, st) /\ conf \in Acl!Configs
  BY StatementsFit DEF Acl!TypeOK
<1>2. Acl!Live' = Acl!Live
  BY DEF Acl!Execute, Acl!Live
<1> SUFFICES ASSUME whole, NEW k \in Acl!Live, NEW r \in Acl!Roles
             PROVE  /\ \A p \in Acl!Wanted(conf, r, k) :
                         p \in acl'[k][r] \/ \E x \in stmts' : Granting(x, r, k, p)
                    /\ \A p \in Acl!Unwanted(conf, r, k) :
                         p \notin acl'[k][r] \/ \E x \in stmts' : Revoking(x, r, k, p)
  BY <1>2 DEF Progress, Acl!Execute
<1>3. k \in Acl!Keys /\ Acl!Wanted(conf, r, k) \cap Acl!Unwanted(conf, r, k) = {}
  BY <1>1, LiveKeys, Apart
<1>4. acl'[k][r] = IF k \in st.on THEN Acl!Changed(acl[k][r], st, r) ELSE acl[k][r]
  BY <1>3, Effect
<1>5. stmts' = stmts \ {st}
  BY DEF Acl!Execute
<1>6. ASSUME NEW p \in Acl!Wanted(conf, r, k)
      PROVE  p \in acl'[k][r] \/ \E x \in stmts' : Granting(x, r, k, p)
  <2>1. CASE p \in acl[k][r]
    <3>1. ~ (st.role = r /\ st.op = "REVOKE" /\ k \in st.on /\ p \in st.privs)
      BY <1>1, <1>3 DEF Fits
    <3> QED  BY <1>1, <1>4, <2>1, <3>1 DEF Acl!Changed, Fits
  <2>2. CASE \E x \in stmts : Granting(x, r, k, p)
    <3>1. PICK x \in stmts : Granting(x, r, k, p)
      BY <2>2
    <3>2. CASE x = st
      BY <1>4, <3>1, <3>2 DEF Granting, Acl!Changed
    <3>3. CASE x # st
      BY <1>5, <3>1, <3>3
    <3> QED  BY <3>2, <3>3
  <2> QED  BY <2>1, <2>2 DEF Progress
<1>7. ASSUME NEW p \in Acl!Unwanted(conf, r, k)
      PROVE  p \notin acl'[k][r] \/ \E x \in stmts' : Revoking(x, r, k, p)
  <2>1. CASE p \notin acl[k][r]
    <3>1. ~ (st.role = r /\ st.op = "GRANT" /\ k \in st.on /\ p \in st.privs)
      BY <1>1, <1>3 DEF Fits
    <3> QED  BY <1>1, <1>4, <2>1, <3>1 DEF Acl!Changed, Fits
  <2>2. CASE \E x \in stmts : Revoking(x, r, k, p)
    <3>1. PICK x \in stmts : Revoking(x, r, k, p)
      BY <2>2
    <3>2. CASE x = st
      BY <1>4, <3>1, <3>2 DEF Revoking, Acl!Changed
    <3>3. CASE x # st
      BY <1>5, <3>1, <3>3
    <3> QED  BY <3>2, <3>3
  <2> QED  BY <2>1, <2>2 DEF Progress
<1> QED  BY <1>6, <1>7

LEMMA ProgressStep ==
  ASSUME Acl!RolesDiffer, ~ Beside, GrantsInv, [Acl!Next]_(Acl!vars) PROVE Progress'
<1> USE DEF GrantsInv
<1>1. ASSUME NEW cf \in Acl!Configs, Acl!Apply(cf) PROVE Progress'
  <2>1. conf' = cf /\ stmts' = Acl!Statements(cf) /\ Acl!Live' = Acl!Live
    BY <1>1 DEF Acl!Apply, Acl!Live
  <2> QED  BY <2>1, LiveKeys, GrantsAll, RevokesAll DEF Progress
<1>2. ASSUME NEW st \in stmts, Acl!Execute(st) PROVE Progress'
  BY <1>2, ProgressOnExecute
<1>3. CASE Acl!CutOff
  BY <1>3 DEF Acl!CutOff, Progress
<1>4. ASSUME NEW t \in Acl!Tables, NEW by \in Creators, Acl!CreateTable(t, by) PROVE Progress'
  BY <1>4, ProgressOnCreate
<1>5. ASSUME NEW t \in Acl!Tables, Acl!DropTable(t) PROVE Progress'
  <2>1. Acl!Live' \subseteq Acl!Live
    BY <1>5 DEF Acl!DropTable, Acl!Live
  <2> QED  BY <1>5, <2>1 DEF Acl!DropTable, Progress
<1>6. CASE UNCHANGED Acl!vars
  BY <1>6 DEF Acl!vars, Progress, Acl!Live
<1> QED  BY <1>1, <1>2, <1>3, <1>4, <1>5, <1>6 DEF Acl!Next

\* An application that ran to its end leaves every role with what the
\* configuration gives it and a confined or foreign role with nothing it must not
\* have, whatever was granted before, and tables created later are the same
\* (grants_sql).  It takes that roles differ, and that no raw table is created
\* while the statements run.
THEOREM GrantsConverge ==
  ASSUME Acl!RolesDiffer, ~ Beside
  PROVE  Acl!Spec => []Acl!Converged
<1>1. Acl!Init => GrantsInv
  BY GrantsTypeInit DEF Acl!Init, GrantsInv, LaterIsSmall, Progress
<1>2. GrantsInv /\ [Acl!Next]_(Acl!vars) => GrantsInv'
  BY GrantsTypeStep, LaterStep, ProgressStep DEF GrantsInv
<1>3. GrantsInv => Acl!Converged
  BY DEF GrantsInv, Progress, Acl!Converged
<1> QED  BY <1>1, <1>2, <1>3, PTL DEF Acl!Spec

\* No statement takes from a role what the configuration gives it, so that workers
\* keep writing while the file is applied, tables created beside it or not.
THEOREM NoneIsCutShort ==
  ASSUME Acl!RolesDiffer
  PROVE  Acl!Spec => Acl!NoWindow
<1>1. Acl!Init => Acl!TypeOK
  BY GrantsTypeInit
<1>2. Acl!TypeOK /\ [Acl!Next]_(Acl!vars) => Acl!TypeOK'
  BY GrantsTypeStep
<1>3. Acl!TypeOK /\ [Acl!Next]_(Acl!vars)
      => [\A k \in Acl!Live \cap Acl!Live', r \in Acl!Roles :
            Acl!Wanted(conf', r, k) \cap acl[k][r] \subseteq acl'[k][r]]_(Acl!vars)
  <2> SUFFICES ASSUME Acl!TypeOK, [Acl!Next]_(Acl!vars), NEW k \in Acl!Live \cap Acl!Live', NEW r \in Acl!Roles,
                      NEW p \in Acl!Wanted(conf', r, k) \cap acl[k][r]
               PROVE  p \in acl'[k][r]
    OBVIOUS
  <2>0. k \in Acl!Keys
    BY LiveKeys
  <2>1. ASSUME NEW cf \in Acl!Configs, Acl!Apply(cf) PROVE p \in acl'[k][r]
    BY <2>1 DEF Acl!Apply
  <2>2. ASSUME NEW st \in stmts, Acl!Execute(st) PROVE p \in acl'[k][r]
    <3>1. Fits(conf, st) /\ conf \in Acl!Configs /\ conf' = conf
      BY <2>2, StatementsFit DEF Acl!TypeOK, Acl!Execute
    <3>2. ~ (st.role = r /\ st.op = "REVOKE" /\ k \in st.on /\ p \in st.privs)
      BY <2>0, <3>1, Apart DEF Fits
    <3>3. acl'[k][r] = IF k \in st.on \cap Acl!Live THEN Acl!Changed(acl[k][r], st, r) ELSE acl[k][r]
      BY <2>0, <2>2, Effect
    <3>4. p \in acl[k][r] /\ st.op \in {"GRANT", "REVOKE"}
      BY <3>1 DEF Fits
    <3> QED  BY <3>2, <3>3, <3>4 DEF Acl!Changed
  <2>3. CASE Acl!CutOff
    BY <2>3 DEF Acl!CutOff
  <2>4. ASSUME NEW t \in Acl!Tables, NEW by \in Creators, Acl!CreateTable(t, by) PROVE p \in acl'[k][r]
    <3>1. t \notin Acl!Live
      BY <2>4 DEF Acl!CreateTable, Acl!Live
    <3> QED  BY <2>0, <2>4, <3>1 DEF Acl!CreateTable, Acl!TypeOK
  <2>5. ASSUME NEW t \in Acl!Tables, Acl!DropTable(t) PROVE p \in acl'[k][r]
    BY <2>5 DEF Acl!DropTable
  <2>6. CASE UNCHANGED Acl!vars
    BY <2>6 DEF Acl!vars
  <2> QED  BY <2>1, <2>2, <2>3, <2>4, <2>5, <2>6 DEF Acl!Next
<1> QED  BY <1>1, <1>2, <1>3, PTL DEF Acl!Spec, Acl!NoWindow

----------------------------------------------------------------------------
(* Partitions.                                                             *)

\* Nothing is there before the first application.
MonthsUnmade == ~ dflt => parts = {} /\ strays = {} /\ passed = {} /\ reach <= now

\* From this month to the last one any application was to create, every month
\* was created, or is one that DEFAULT kept from being created.
MonthsFilled == dflt => \A k \in Int : now <= k /\ k <= reach => k \in parts \/ k \in strays

\* Nothing is created beyond that.
MonthsBounded == \A k \in parts : k <= reach

\* Months are vouched for one ahead, and stay until they are over.
MonthsVouched == \A t \in passed : t <= now /\ (t + 1 >= now => t + 1 \in parts)

MonthsInv == Months!TypeOK /\ Months!OneHome /\ MonthsUnmade /\ MonthsFilled /\ MonthsBounded /\ MonthsVouched

LEMMA MonthsInit == Months!Init => MonthsInv
<1> SUFFICES ASSUME Months!Init PROVE MonthsInv
  OBVIOUS
<1>1. dflt = FALSE /\ dflt \in BOOLEAN
  BY Zenon DEF Months!Init
<1> QED  BY <1>1 DEF Months!Init, MonthsInv, Months!TypeOK, Months!OneHome, MonthsUnmade,
            MonthsFilled, MonthsBounded, MonthsVouched

LEMMA MonthsNextMonth == MonthsInv /\ Months!NextMonth => MonthsInv'
  BY DEF Months!NextMonth, MonthsInv, Months!TypeOK, Months!OneHome, MonthsUnmade, MonthsFilled,
     MonthsBounded, MonthsVouched

LEMMA MonthsLand == ASSUME NEW m \in Int, MonthsInv, Months!Land(m) PROVE MonthsInv'
<1>1. Months!TypeOK'
  BY DEF Months!Land, MonthsInv, Months!TypeOK
<1>2. Months!OneHome'
  BY DEF Months!Land, MonthsInv, Months!OneHome
<1>3. MonthsUnmade'
  BY DEF Months!Land, MonthsInv, MonthsUnmade
<1>4. MonthsFilled' /\ MonthsBounded' /\ MonthsVouched'
  BY DEF Months!Land, MonthsInv, MonthsFilled, MonthsBounded, MonthsVouched
<1> QED  BY <1>1, <1>2, <1>3, <1>4 DEF MonthsInv

LEMMA MonthsMoveWindow ==
  ASSUME NEW behind \in Nat, NEW ahead \in Nat, MonthsInv, Months!MoveWindow(behind, ahead)
  PROVE  /\ now' \in Int /\ dflt' = TRUE /\ reach' \in Int
         /\ parts' \subseteq Int /\ own' \subseteq Int /\ strays' \subseteq Int
         /\ Months!OneHome' /\ MonthsFilled' /\ MonthsBounded'
         /\ parts \subseteq parts' /\ now' = now
<1> DEFINE W == now - behind .. now + ahead
<1>1. /\ ahead >= 1 /\ dflt' = TRUE /\ parts' = parts \cup (W \ strays)
      /\ reach' = IF now + ahead > reach THEN now + ahead ELSE reach
      /\ now' = now /\ own' = own /\ strays' = strays
  BY DEF Months!MoveWindow
<1>2. /\ now \in Int /\ reach \in Int /\ parts \subseteq Int
      /\ own \subseteq Int /\ strays \subseteq Int
  BY DEF MonthsInv, Months!TypeOK
<1>3. Months!OneHome'
  BY <1>1 DEF MonthsInv, Months!OneHome
<1>4. MonthsFilled'
  <2> SUFFICES ASSUME NEW k \in Int, now <= k, k <= reach'
               PROVE  k \in parts' \/ k \in strays'
    BY <1>1 DEF MonthsFilled
  <2>1. CASE k <= now + ahead
    BY <1>1, <1>2, <2>1
  <2>2. CASE ~ (k <= now + ahead)
    <3>1. k <= reach /\ now < reach
      BY <1>1, <1>2, <2>2
    <3>2. dflt
      BY <1>2, <3>1 DEF MonthsInv, MonthsUnmade
    <3> QED  BY <1>1, <3>1, <3>2 DEF MonthsInv, MonthsFilled
  <2> QED  BY <2>1, <2>2
<1>5. MonthsBounded'
  BY <1>1, <1>2 DEF MonthsInv, MonthsBounded
<1> QED  BY <1>1, <1>2, <1>3, <1>4, <1>5

LEMMA MonthsApply ==
  ASSUME NEW behind \in Nat, NEW ahead \in Nat, MonthsInv, Months!Apply(behind, ahead) PROVE MonthsInv'
<1>1. Months!MoveWindow(behind, ahead) /\ passed' = passed
  BY DEF Months!Apply
<1>2. Months!TypeOK' /\ Months!OneHome' /\ MonthsFilled' /\ MonthsBounded'
  BY <1>1, MonthsMoveWindow DEF MonthsInv, Months!TypeOK
<1>3. MonthsUnmade'
  BY <1>1, MonthsMoveWindow DEF MonthsUnmade
<1>4. MonthsVouched'
  BY <1>1, MonthsMoveWindow DEF MonthsInv, MonthsVouched
<1> QED  BY <1>2, <1>3, <1>4 DEF MonthsInv

LEMMA MonthsTimer ==
  ASSUME NEW behind \in Nat, NEW ahead \in Nat, MonthsInv, Months!Timer(behind, ahead) PROVE MonthsInv'
<1>1. /\ Months!MoveWindow(behind, ahead)
      /\ passed' = IF now + 1 \in parts' THEN passed \cup {now} ELSE passed
  BY DEF Months!Timer, Months!Reaches
<1>2. Months!TypeOK' /\ Months!OneHome' /\ MonthsFilled' /\ MonthsBounded'
  BY <1>1, MonthsMoveWindow DEF MonthsInv, Months!TypeOK
<1>3. MonthsUnmade'
  BY <1>1, MonthsMoveWindow DEF MonthsUnmade
<1>4. MonthsVouched'
  <2> SUFFICES ASSUME NEW t \in passed'
               PROVE  t <= now' /\ (t + 1 >= now' => t + 1 \in parts')
    BY DEF MonthsVouched
  <2>1. now \in Int /\ now' = now /\ parts \subseteq parts'
    BY <1>1, MonthsMoveWindow DEF MonthsInv, Months!TypeOK
  <2>2. CASE t \in passed
    BY <2>1, <2>2 DEF MonthsInv, MonthsVouched
  <2>3. CASE t \notin passed
    <3>1. t = now /\ now + 1 \in parts'
      BY <1>1, <2>3
    <3> QED  BY <2>1, <3>1
  <2> QED  BY <2>2, <2>3
<1> QED  BY <1>2, <1>3, <1>4 DEF MonthsInv

LEMMA MonthsExpire == ASSUME NEW m \in Int, MonthsInv, Months!Expire(m) PROVE MonthsInv'
  BY DEF Months!Expire, MonthsInv, Months!TypeOK, Months!OneHome, MonthsUnmade, MonthsFilled,
     MonthsBounded, MonthsVouched

LEMMA MonthsMoveByHand == ASSUME NEW m \in Int, MonthsInv, Months!MoveByHand(m) PROVE MonthsInv'
  BY DEF Months!MoveByHand, MonthsInv, Months!TypeOK, Months!OneHome, MonthsUnmade,
     MonthsFilled, MonthsBounded, MonthsVouched

LEMMA MonthsStep == MonthsInv /\ [Months!Next]_(Months!vars) => MonthsInv'
<1> SUFFICES ASSUME MonthsInv, [Months!Next]_(Months!vars) PROVE MonthsInv'
  OBVIOUS
<1>1. CASE Months!NextMonth
  BY <1>1, MonthsNextMonth
<1>2. CASE \E m \in Int : Months!Land(m) \/ Months!Expire(m) \/ Months!MoveByHand(m)
  BY <1>2, MonthsLand, MonthsExpire, MonthsMoveByHand
<1>3. CASE \E behind, ahead \in Nat : Months!Apply(behind, ahead) \/ Months!Timer(behind, ahead)
  BY <1>3, MonthsApply, MonthsTimer
<1>4. CASE UNCHANGED Months!vars
  BY <1>4 DEF Months!vars, MonthsInv, Months!TypeOK, Months!OneHome, MonthsUnmade, MonthsFilled,
     MonthsBounded, MonthsVouched
<1> QED  BY <1>1, <1>2, <1>3, <1>4 DEF Months!Next

THEOREM MonthsInvariance == Months!Spec => []MonthsInv
  BY MonthsInit, MonthsStep, PTL DEF Months!Spec

\* The variables keep their types, and the rows of a month are in one place:
\* its own partition, with which they are dropped, or DEFAULT.
THEOREM MonthsHaveOneHome == Months!Spec => [](Months!TypeOK /\ Months!OneHome)
<1>1. MonthsInv => Months!TypeOK /\ Months!OneHome
  BY DEF MonthsInv
<1> QED  BY <1>1, MonthsInvariance, PTL

\* A month for which the timer's check passed the month before has a partition
\* when it begins, whatever else was applied, skipped or dropped
\* (partition_check_sql).
THEOREM CheckVouches == Months!Spec => []Months!PassedMeansReady
<1>1. MonthsInv => Months!PassedMeansReady
  <2> SUFFICES ASSUME MonthsInv, now - 1 \in passed PROVE now \in parts
    BY DEF Months!PassedMeansReady
  <2>1. now \in Int /\ (now - 1) + 1 = now /\ now >= now
    BY DEF MonthsInv, Months!TypeOK
  <2> QED  BY <2>1 DEF MonthsInv, MonthsVouched
<1> QED  BY <1>1, MonthsInvariance, PTL

\* An empty DEFAULT and a covered_until past next month leave no hole below it
\* (partition_health).
THEOREM HealthTellsAll == Months!Spec => []Months!HealthIsEnough
<1>1. MonthsInv => Months!HealthIsEnough
  <2> SUFFICES ASSUME MonthsInv, strays = {}, NEW k \in parts, k > now
               PROVE  now \in parts /\ now + 1 \in parts
    BY DEF Months!HealthIsEnough, Months!DefaultIsEmpty, Months!CoveredPast
  <2>1. now \in Int /\ reach \in Int /\ k \in Int /\ k <= reach
    BY DEF MonthsInv, Months!TypeOK, MonthsBounded
  <2>2. dflt
    BY DEF MonthsInv, MonthsUnmade
  <2> QED  BY <2>1, <2>2 DEF MonthsInv, MonthsFilled
<1> QED  BY <1>1, MonthsInvariance, PTL

\* While the window is kept ahead of the event times, only months that are over
\* have rows in DEFAULT, so that no month is ever refused a partition for being
\* there already (the DO block's warning).  Moving the window late is enough to
\* break it: it need not be widened backwards.
THEOREM DefaultHoldsThePast ==
  ASSUME Kept, Early \in Nat
  PROVE  Months!Spec => []Months!DefaultIsThePast
<1> DEFINE K == MonthsInv /\ Months!DefaultIsThePast /\ (dflt => now + Early <= reach)
<1>1. Months!Init => K
  BY MonthsInit DEF Months!Init, Months!DefaultIsThePast
<1>2. K /\ [Months!Next]_(Months!vars) => K'
  <2> SUFFICES ASSUME K, [Months!Next]_(Months!vars)
               PROVE  Months!DefaultIsThePast' /\ (dflt => now + Early <= reach)'
    BY MonthsStep
  <2>0. now \in Int /\ reach \in Int /\ strays \subseteq Int
    BY DEF MonthsInv, Months!TypeOK
  <2>1. CASE Months!NextMonth
    BY <2>0, <2>1 DEF Months!NextMonth, Months!DefaultIsThePast
  <2>2. ASSUME NEW m \in Int, Months!Land(m)
        PROVE  Months!DefaultIsThePast' /\ (dflt => now + Early <= reach)'
    <3>1. /\ m <= now + Early /\ now' = now /\ reach' = reach /\ dflt' = dflt
          /\ m \in parts => strays' = strays
          /\ m \notin parts => dflt /\ strays' = strays \cup {m}
      BY <2>2 DEF Months!Land
    <3>2. m \notin parts => m < now
      BY <2>0, <3>1 DEF MonthsInv, MonthsFilled, Months!DefaultIsThePast
    <3> QED  BY <3>1, <3>2 DEF Months!DefaultIsThePast
  <2>3. ASSUME NEW m \in Int, Months!Expire(m) \/ Months!MoveByHand(m)
        PROVE  Months!DefaultIsThePast' /\ (dflt => now + Early <= reach)'
    BY <2>3 DEF Months!Expire, Months!MoveByHand, Months!DefaultIsThePast
  <2>4. ASSUME NEW behind \in Nat, NEW ahead \in Nat,
               Months!Apply(behind, ahead) \/ Months!Timer(behind, ahead)
        PROVE  Months!DefaultIsThePast' /\ (dflt => now + Early <= reach)'
    <3>1. Months!MoveWindow(behind, ahead)
      BY <2>4 DEF Months!Apply, Months!Timer, Months!Reaches
    <3>2. /\ ahead >= Early /\ now' = now /\ strays' = strays
          /\ reach' = IF now + ahead > reach THEN now + ahead ELSE reach
      BY <3>1 DEF Months!MoveWindow
    <3>3. Months!DefaultIsThePast'
      BY <3>2 DEF Months!DefaultIsThePast
    <3>4. now' + Early <= reach'
      BY <2>0, <3>2
    <3> QED  BY <3>3, <3>4
  <2>5. CASE UNCHANGED Months!vars
    BY <2>5 DEF Months!vars, Months!DefaultIsThePast
  <2> QED  BY <2>1, <2>2, <2>3, <2>4, <2>5 DEF Months!Next
<1>3. K => Months!DefaultIsThePast
  OBVIOUS
<1> QED  BY <1>1, <1>2, <1>3, PTL DEF Months!Spec

=============================================================================
