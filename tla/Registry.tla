------------------------------ MODULE Registry ------------------------------
(***************************************************************************)
(* Pack discovery (packs/registry.py, packs/version.py), as every process  *)
(* of a host does it when it starts: load the installed entry points in    *)
(* the order they come in, judge the packs by name, and collect what each  *)
(* declares.  Between two processes an operator installs, upgrades or      *)
(* removes a distribution, or upgrades the core.                           *)
(*                                                                         *)
(* A pack declares sources and targets; both are called claims here, and   *)
(* one claim stands for a source and a target of that name.  Whether the   *)
(* names of its targets are identifiers is only looked at when they are    *)
(* collected (spelled).                                                    *)
(***************************************************************************)
EXTENDS Integers, Sequences, FiniteSets

CONSTANTS
  Points,       \* entry points that may be installed
  Packs,        \* what an entry point may load: packs
  Absent,       \* not installed
  Refused,      \* its distribution is not in the allowlist
  Broken,       \* it does not load, or is no Pack
  Names,        \* names third-party packs have
  Claims,       \* names of sources and targets
  CoreClaims,   \* those of the core pack
  CoreVersions, \* versions of the core: sequences of numbers
  Ranges,       \* requires_core: sequences of clauses [op, v]
  MaxChanges    \* bound: changes by the operator

Core == "core"
None == "none"

ASSUME NamesAssumption ==
  /\ Core \notin Names /\ CoreClaims \subseteq Claims
  /\ {Core, None} \cap Points = {}
  /\ Packs \subseteq [name : Names \cup {Core}, requires : Ranges,
                      claims : SUBSET Claims, spelled : BOOLEAN]
  /\ {Absent, Refused, Broken} \cap Packs = {}
  /\ IsFiniteSet(Points) /\ MaxChanges \in Nat

VARIABLES
  inst,       \* per entry point: a pack, or why it is none
  version,    \* of the core
  pc,         \* the process: idle, load, judge, collect
  left,       \* entry points, then names, then packs not dealt with
  cand,       \* packs that loaded
  found,      \* packs that are usable
  owner,      \* per claim: the pack that made it first
  colliding,  \* claims made twice
  known, runs, \* of the last process: packs it found, who runs a target
  was,        \* history: what that process found installed
  changes

setup   == <<inst, version, changes>>
locals  == <<left, cand, found, owner, colliding>>
result  == <<known, runs, was>>
vars    == <<setup, pc, locals, result>>

CoreOnly == [c \in Claims |-> IF c \in CoreClaims THEN Core ELSE None]

NoOwner  == [c \in Claims |-> None]

Now == [inst |-> inst, version |-> version]

Init ==
  /\ inst = [p \in Points |-> Absent]
  /\ version \in CoreVersions
  /\ pc = "idle" /\ left = {} /\ cand = {} /\ found = {}
  /\ owner = NoOwner /\ colliding = {}
  /\ known = {} /\ runs = CoreOnly
  /\ was = Now /\ changes = 0

----------------------------------------------------------------------------
(* The operator.                                                           *)

Changed == pc = "idle" /\ changes < MaxChanges /\ changes' = changes + 1

Install(p) ==
  /\ Changed
  /\ \E d \in Packs \cup {Absent, Refused, Broken} :
       d # inst[p] /\ inst' = [inst EXCEPT ![p] = d]
  /\ UNCHANGED <<version, pc, locals, result>>

UpgradeCore ==
  /\ Changed
  /\ version' \in CoreVersions \ {version}
  /\ UNCHANGED <<inst, pc, locals, result>>

----------------------------------------------------------------------------
(* Versions.                                                               *)

\* The shorter one is padded with zeros: 0.2 and 0.2.0 compare equal.
Aligned(v, n) == [i \in 1 .. n |-> IF i <= Len(v) THEN v[i] ELSE 0]

Before(v, w) ==
  LET n == IF Len(v) > Len(w) THEN Len(v) ELSE Len(w)
      a == Aligned(v, n)  b == Aligned(w, n)
  IN  \E i \in 1 .. n : a[i] < b[i] /\ \A j \in 1 .. i - 1 : a[j] = b[j]

Holds(v, clause) ==
  CASE clause.op = ">=" -> ~ Before(v, clause.v)
    [] clause.op = "<=" -> ~ Before(clause.v, v)
    [] clause.op = "==" -> ~ Before(v, clause.v) /\ ~ Before(clause.v, v)
    [] clause.op = ">"  -> Before(clause.v, v)
    [] clause.op = "<"  -> Before(v, clause.v)

\* An empty range is outside the grammar, and a pack that has one is skipped.
Matches(v, range) == range # << >> /\ \A i \in 1 .. Len(range) : Holds(v, range[i])

----------------------------------------------------------------------------
(* discover(): every candidate is loaded first, and only then are names    *)
(* compared.                                                               *)

Installed == {p \in Points : inst[p] # Absent}

Discover ==
  /\ pc = "idle"
  /\ pc' = "load" /\ left' = Installed /\ cand' = {} /\ found' = {}
  /\ UNCHANGED <<setup, owner, colliding, result>>

\* Decided from metadata, before anything of it is loaded.
MayLoad(p) == inst[p] # Refused

\* Mutation: what an entry point loads is not looked at.
LoadAny(p) ==
  /\ pc = "load" /\ p \in left
  /\ left' = left \ {p}
  /\ cand' = IF MayLoad(p) THEN cand \cup {p} ELSE cand
  /\ UNCHANGED <<setup, pc, found, owner, colliding, result>>

CoreNamed(p) == inst[p] \in Packs /\ inst[p].name = Core

\* Core wins its own name, whatever the order.
Load(p) ==
  /\ pc = "load" /\ p \in left
  /\ left' = left \ {p}
  /\ cand' = IF MayLoad(p) /\ inst[p] \in Packs /\ ~ CoreNamed(p) THEN cand \cup {p} ELSE cand
  /\ UNCHANGED <<setup, pc, found, owner, colliding, result>>

Loaded ==
  /\ pc = "load" /\ left = {}
  /\ pc' = "judge" /\ left' = {inst[p].name : p \in cand}
  /\ UNCHANGED <<setup, cand, found, owner, colliding, result>>

Claiming(n) == {p \in cand : inst[p].name = n}

\* Mutation: one of two packs with one name is preferred.
JudgeOne(n) ==
  /\ pc = "judge" /\ n \in left
  /\ left' = left \ {n}
  /\ \E p \in Claiming(n) :
       found' = IF Matches(version, inst[p].requires) THEN found \cup {p} ELSE found
  /\ UNCHANGED <<setup, pc, cand, owner, colliding, result>>

\* A name registered more than once: all of them are skipped.
Judge(n) ==
  /\ pc = "judge" /\ n \in left
  /\ left' = left \ {n}
  /\ found' = found \cup {p \in Claiming(n) :
                           Claiming(n) = {p} /\ Matches(version, inst[p].requires)}
  /\ UNCHANGED <<setup, pc, cand, owner, colliding, result>>

----------------------------------------------------------------------------
(* all_targets() with skip_collisions, over the core and what was found.   *)

Judged ==
  /\ pc = "judge" /\ left = {}
  /\ pc' = "collect" /\ left' = found
  /\ owner' = CoreOnly /\ colliding' = {}
  /\ UNCHANGED <<setup, cand, found, result>>

\* Mutation: a claim that collides is free again.
CollectFreeing(p) ==
  /\ pc = "collect" /\ p \in left /\ inst[p].spelled
  /\ left' = left \ {p}
  /\ owner' = [c \in Claims |->
                 IF c \notin inst[p].claims THEN owner[c]
                 ELSE IF owner[c] = None THEN p ELSE None]
  /\ UNCHANGED <<setup, pc, cand, found, colliding, result>>

\* Mutation: the first pack that made a claim keeps it.
CollectFirst(p) ==
  /\ pc = "collect" /\ p \in left /\ inst[p].spelled
  /\ left' = left \ {p}
  /\ owner' = [c \in Claims |->
                 IF c \in inst[p].claims /\ owner[c] = None THEN p ELSE owner[c]]
  /\ UNCHANGED <<setup, pc, cand, found, colliding, result>>

Collect(p) ==
  /\ pc = "collect" /\ p \in left /\ inst[p].spelled
  /\ left' = left \ {p}
  /\ colliding' = colliding \cup {c \in inst[p].claims : owner[c] # None}
  /\ owner' = [c \in Claims |->
                 IF c \in inst[p].claims /\ owner[c] = None THEN p ELSE owner[c]]
  /\ UNCHANGED <<setup, pc, cand, found, result>>

\* The process is over and leaves these targets running.
Over(targets) ==
  /\ pc' = "idle" /\ left' = {} /\ cand' = {} /\ found' = {}
  /\ owner' = NoOwner /\ colliding' = {}
  /\ known' = found /\ runs' = targets /\ was' = Now
  /\ UNCHANGED <<setup>>

\* A target whose name is no identifier: the error leaves main(), and the
\* worker runs no target at all.
Misspelled(p) ==
  /\ pc = "collect" /\ p \in left /\ ~ inst[p].spelled
  /\ Over(NoOwner)

\* The collisions are dropped, and the process goes on with what it has.
Collected ==
  /\ pc = "collect" /\ left = {}
  /\ Over([c \in Claims |-> IF c \in colliding THEN None ELSE owner[c]])

Next ==
  \/ \E p \in Points : Install(p) \/ Load(p) \/ Collect(p) \/ Misspelled(p)
  \/ \E n \in Names : Judge(n)
  \/ UpgradeCore \/ Discover \/ Loaded \/ Judged \/ Collected

Spec == Init /\ [][Next]_vars

----------------------------------------------------------------------------
(* resolve_source() for a bare name: an error when two packs claim it.     *)

Hits(c) == {p \in known : c \in inst[p].claims} \cup (IF c \in CoreClaims THEN {Core} ELSE {})

ResolveSource(c) == IF Cardinality(Hits(c)) = 1 THEN CHOOSE p \in Hits(c) : TRUE ELSE None

----------------------------------------------------------------------------
(* Properties.                                                             *)

\* Types of the variables; only packs become candidates, and only candidates
\* that are not called core are found.
TypeOK ==
  /\ inst \in [Points -> Packs \cup {Absent, Refused, Broken}]
  /\ version \in CoreVersions /\ pc \in {"idle", "load", "judge", "collect"}
  /\ left \subseteq IF pc = "judge" THEN Names ELSE Points
  /\ cand \subseteq {p \in Points : inst[p] \in Packs} /\ found \subseteq cand
  /\ owner \in [Claims -> Points \cup {Core, None}] /\ colliding \subseteq Claims
  /\ known \subseteq Points /\ runs \in [Claims -> Points \cup {Core, None}]
  /\ was.version \in CoreVersions /\ changes \in 0 .. MaxChanges

\* Nothing changed since the last process started.
Fresh == pc = "idle" /\ was = Now

\* A version as one number, for versions of three parts below ten.
Number(v) == LET part(i) == IF i <= Len(v) THEN v[i] ELSE 0
             IN  part(1) * 100 + part(2) * 10 + part(3)

InRange(v, range) ==
  range # << >> /\ \A i \in 1 .. Len(range) :
    LET n == Number(v)  m == Number(range[i].v)  o == range[i].op
    IN  \/ o \in {">=", "<=", "=="} /\ n = m
        \/ o \in {">=", ">"} /\ n > m
        \/ o \in {"<=", "<"} /\ n < m

Rivals(p) == {q \in Points \ {p} : inst[q] \in Packs /\ inst[q].name = inst[p].name}

\* What a process finds depends on what is installed and on nothing else, the
\* order of the entry points least of all: every pack with a name of its own
\* that wants this core, so that no broken, refused or colliding neighbour
\* takes another pack down (registry.py:6-18).
FoundIsExact ==
  Fresh => known = {p \in Points : /\ inst[p] \in Packs /\ inst[p].name # Core
                                   /\ Rivals(p) = {}
                                   /\ InRange(version, inst[p].requires)}

\* The worker runs a target for the pack that a bare source name of the same
\* spelling resolves to, and neither when two packs claim it; the two are
\* written apart, one as a scan with owners and one as a list of hits.  One
\* target name that is no identifier leaves the worker with none.
RunsWhatResolves ==
  Fresh => \A c \in Claims :
    runs[c] = IF \A p \in known : inst[p].spelled THEN ResolveSource(c) ELSE None

\* A target of the core is never run by another pack, and that of another pack
\* passes to a third one only when the pack itself or the core changed, or a
\* second pack with its name made both of them unusable.
NoTakeover ==
  [][ pc = "collect" /\ pc' = "idle" =>
        \A c \in Claims :
          \/ runs[c] = None \/ runs'[c] \in {runs[c], None}
          \/ /\ runs[c] # Core
             /\ \/ inst[runs[c]] # was.inst[runs[c]] \/ version # was.version
                \/ Rivals(runs[c]) # {} ]_vars

\* "one broken pack must not take down every other pack's timers"
\* (registry.py:6-8); a target name that is no identifier does.
OthersKeepRunning ==
  Fresh => \A c \in CoreClaims :
    (\A p \in known : c \notin inst[p].claims) => runs[c] = Core

=============================================================================
