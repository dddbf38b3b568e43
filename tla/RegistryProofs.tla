--------------------------- MODULE RegistryProofs ---------------------------
(***************************************************************************)
(* Theorems about Registry, for any packs, claims, versions and changes,   *)
(* and any order in which packs are loaded, judged and collected: what a   *)
(* process finds is what is installed, and what it runs is what resolves.  *)
(***************************************************************************)
EXTENDS Registry, FiniteSetTheorems, TLAPS

\* What Registry assumes of its constants.
LEMMA NamesDiffer ==
  /\ Core \notin Names /\ CoreClaims \subseteq Claims
  /\ Core \notin Points /\ None \notin Points /\ Core # None
  /\ Packs \subseteq [name : Names \cup {Core}, requires : Ranges,
                      claims : SUBSET Claims, spelled : BOOLEAN]
  /\ {Absent, Refused, Broken} \cap Packs = {}
  /\ IsFiniteSet(Points) /\ MaxChanges \in Nat
<1>1. Core # None
  BY DEF Core, None
<1> QED  BY <1>1, NamesAssumption

\* Entry point p alone loads a pack of its name, and that pack wants core v.
Loads(i, p)  == i[p] \in Packs /\ i[p].name # Core
Alone(i, p)  == \A q \in Points : i[q] \in Packs /\ i[q].name = i[p].name => q = p
Usable(i, v, p) == Loads(i, p) /\ Alone(i, p) /\ Matches(v, i[p].requires)

HitsOf(i, K, c) == {p \in K : c \in i[p].claims} \cup (IF c \in CoreClaims THEN {Core} ELSE {})

\* The one of a set that has one.
TheOne(H) == IF Cardinality(H) = 1 THEN CHOOSE p \in H : TRUE ELSE None

\* What the last process left, told by what it found installed.
LeftBehind ==
  /\ was.inst \in [Points -> Packs \cup {Absent, Refused, Broken}]
  /\ known = {p \in Points : Usable(was.inst, was.version, p)}
  /\ \A c \in Claims :
       runs[c] = IF \A p \in known : was.inst[p].spelled
                 THEN TheOne(HitsOf(was.inst, known, c)) ELSE None

\* Past loading, the candidates are all that loads; judging leaves those of the
\* names it has dealt with, and collecting all of the usable ones.
JudgedSoFar ==
  /\ pc = "idle" => cand = {} /\ found = {} /\ left = {}
  /\ \A p \in Points : pc = "load" => (p \in cand <=> p \notin left /\ Loads(inst, p))
  /\ pc = "load" => found = {}
  /\ \A p \in Points : pc \in {"judge", "collect"} => (p \in cand <=> Loads(inst, p))
  /\ \A p \in Points : pc = "judge" =>
       (p \in found <=> Usable(inst, version, p) /\ inst[p].name \notin left)
  /\ pc = "collect" => left \subseteq found
  /\ \A p \in Points : pc = "collect" => (p \in found <=> Usable(inst, version, p))

\* A claim has an owner once it is made, and collides once another makes it.
Dealt == found \ left
ClaimsSoFar ==
  pc = "collect" =>
    /\ \A p \in Dealt : inst[p].spelled
    /\ \A c \in Claims :
         /\ c \in CoreClaims <=> owner[c] = Core
         /\ owner[c] \in Points => owner[c] \in Dealt /\ c \in inst[owner[c]].claims
         /\ owner[c] = None => \A p \in Dealt : c \notin inst[p].claims
         /\ c \in colliding <=> \E p \in Dealt : c \in inst[p].claims /\ p # owner[c]

RegistryInv == TypeOK /\ LeftBehind /\ JudgedSoFar /\ ClaimsSoFar

\* A claim resolves when exactly one makes it.
LEMMA OneHit == ASSUME NEW H, NEW p \in H, \A q \in H : q = p PROVE TheOne(H) = p
<1>1. H = {p} /\ Cardinality({p}) = 1
  BY FS_Singleton
<1>2. (CHOOSE q \in {p} : TRUE) = p
  OBVIOUS
<1> QED  BY <1>1, <1>2, Zenon DEF TheOne

LEMMA NoHit == TheOne({}) = None
<1>1. Cardinality({}) # 1
  BY FS_EmptySet
<1> QED  BY <1>1 DEF TheOne

LEMMA TwoHits ==
  ASSUME NEW H, IsFiniteSet(H), NEW p \in H, NEW q \in H, p # q PROVE TheOne(H) = None
<1>1. Cardinality(H) # 1
  <2> SUFFICES ASSUME Cardinality(H) = 1 PROVE FALSE
    OBVIOUS
  <2>1. PICK x : H = {x}
    BY FS_Singleton
  <2> QED  BY <2>1
<1> QED  BY <1>1 DEF TheOne

LEMMA RegistryInit == Init => RegistryInv
<1> SUFFICES ASSUME Init PROVE RegistryInv
  OBVIOUS
<1> USE NamesDiffer DEF Init, Now
<1>1. TypeOK
  BY DEF TypeOK, CoreOnly, NoOwner
<1>2. \A p \in Points : ~ Usable(was.inst, was.version, p)
  BY DEF Usable, Loads
<1>3. known = {p \in Points : Usable(was.inst, was.version, p)}
  BY <1>2
<1>4. ASSUME NEW c \in Claims
      PROVE  runs[c] = TheOne(HitsOf(was.inst, known, c))
  <2>1. HitsOf(was.inst, known, c) = IF c \in CoreClaims THEN {Core} ELSE {}
    BY DEF HitsOf
  <2>2. TheOne({Core}) = Core
    BY OneHit
  <2>3. runs[c] = IF c \in CoreClaims THEN Core ELSE None
    BY DEF CoreOnly
  <2> QED  BY <2>1, <2>2, <2>3, NoHit
<1>5. LeftBehind
  BY <1>3, <1>4 DEF LeftBehind
<1> QED  BY <1>1, <1>5 DEF RegistryInv, JudgedSoFar, ClaimsSoFar

LEMMA RegistryTypeStep ==
  RegistryInv /\ [Next]_vars => TypeOK'
<1> SUFFICES ASSUME TypeOK, JudgedSoFar, [Next]_vars
             PROVE  TypeOK'
  BY DEF RegistryInv
<1> USE NamesDiffer DEF TypeOK, setup, locals, result
<1>1. ASSUME NEW p \in Points, Install(p) PROVE TypeOK'
  BY <1>1 DEF Install, Changed, JudgedSoFar
<1>2. ASSUME NEW p \in Points, Load(p) PROVE TypeOK'
  BY <1>2 DEF Load
<1>3. ASSUME NEW p \in Points, Collect(p) PROVE TypeOK'
  <2>1. owner' \in [Claims -> Points \cup {Core, None}]
    BY <1>3 DEF Collect
  <2>2. p \in cand
    BY <1>3 DEF Collect, JudgedSoFar
  <2>4. inst[p].claims \subseteq Claims
    BY <2>2
  <2>3. colliding' \subseteq Claims
    BY <1>3, <2>4 DEF Collect
  <2> QED  BY <1>3, <2>1, <2>3 DEF Collect
<1>4. ASSUME NEW p \in Points, Misspelled(p) PROVE TypeOK'
  BY <1>4 DEF Misspelled, Over, NoOwner, Now
<1>5. ASSUME NEW n \in Names, Judge(n) PROVE TypeOK'
  BY <1>5 DEF Judge, Claiming
<1>6. CASE UpgradeCore
  BY <1>6 DEF UpgradeCore, Changed
<1>7. CASE Discover
  BY <1>7 DEF Discover, Installed
<1>8. CASE Loaded
  <2>1. \A p \in cand : inst[p] \in Packs /\ inst[p].name # Core
    BY <1>8 DEF Loaded, JudgedSoFar, Loads
  <2>2. {inst[p].name : p \in cand} \subseteq Names
    BY <2>1
  <2> QED  BY <1>8, <2>2 DEF Loaded
<1>9. CASE Judged
  BY <1>9 DEF Judged, CoreOnly
<1>10. CASE Collected
  BY <1>10 DEF Collected, Over, NoOwner, Now
<1>11. CASE UNCHANGED vars
  BY <1>11 DEF vars
<1> HIDE DEF TypeOK, setup, locals, result
<1> QED
  BY <1>1, <1>2, <1>3, <1>4, <1>5, <1>6, <1>7, <1>8, <1>9, <1>10, <1>11 DEF Next

LEMMA JudgedStep ==
  RegistryInv /\ [Next]_vars => JudgedSoFar'
<1> SUFFICES ASSUME TypeOK, JudgedSoFar, [Next]_vars
             PROVE  JudgedSoFar'
  BY DEF RegistryInv
<1> USE NamesDiffer DEF JudgedSoFar, setup, locals, result
<1>0. inst \in [Points -> Packs \cup {Absent, Refused, Broken}] /\ cand \subseteq Points
  BY DEF TypeOK
<1>1. ASSUME NEW p \in Points, Install(p) PROVE JudgedSoFar'
  BY <1>1 DEF Install, Changed
<1>2. ASSUME NEW p \in Points, Load(p) PROVE JudgedSoFar'
  <2>1. \A q \in Points : q \in cand' <=> q \notin left' /\ Loads(inst, q)
    BY <1>0, <1>2 DEF Load, MayLoad, CoreNamed, Loads
  <2> QED  BY <1>2, <2>1 DEF Load, Loads
<1>3. ASSUME NEW p \in Points, Collect(p) PROVE JudgedSoFar'
  BY <1>3 DEF Collect, Loads, Usable, Alone
<1>4. ASSUME NEW p \in Points, Misspelled(p) PROVE JudgedSoFar'
  BY <1>4 DEF Misspelled, Over
<1>5. ASSUME NEW n \in Names, Judge(n) PROVE JudgedSoFar'
  <2>1. \A q \in Points : inst[q] \in Packs /\ inst[q].name = n <=> q \in Claiming(n)
    BY <1>0, <1>5 DEF Judge, Claiming, Loads
  <2>2. \A q \in Points : Loads(inst, q) /\ inst[q].name = n =>
          (Claiming(n) = {q} <=> Alone(inst, q))
    BY <1>0, <2>1 DEF Alone, Loads, Claiming
  <2>3. \A q \in Points : q \in found' <=> Usable(inst, version, q) /\ inst[q].name \notin left'
    BY <1>0, <1>5, <2>1, <2>2 DEF Judge, Claiming, Usable, Loads
  <2> QED  BY <1>5, <2>3 DEF Judge, Loads, Usable, Alone
<1>6. CASE UpgradeCore
  BY <1>6 DEF UpgradeCore, Changed
<1>7. CASE Discover
  BY <1>0, <1>7 DEF Discover, Installed, Loads
<1>8. CASE Loaded
  <2>1. \A p \in Points : p \in cand' <=> Loads(inst, p)
    BY <1>8 DEF Loaded
  <2>2. \A p \in Points : Usable(inst, version, p) => inst[p].name \in left'
    BY <1>8, <2>1 DEF Loaded, Usable
  <2> QED  BY <1>8, <2>1, <2>2 DEF Loaded, Loads, Usable, Alone
<1>9. CASE Judged
  BY <1>9 DEF Judged, Loads, Usable, Alone
<1>10. CASE Collected
  BY <1>10 DEF Collected, Over
<1>11. CASE UNCHANGED vars
  BY <1>11 DEF vars, Loads, Usable, Alone
<1> HIDE DEF JudgedSoFar, setup, locals, result
<1> QED
  BY <1>1, <1>2, <1>3, <1>4, <1>5, <1>6, <1>7, <1>8, <1>9, <1>10, <1>11 DEF Next

LEMMA ClaimsStep ==
  RegistryInv /\ [Next]_vars => ClaimsSoFar'
<1> SUFFICES ASSUME TypeOK, JudgedSoFar, ClaimsSoFar,
                    [Next]_vars, pc' = "collect"
             PROVE  ClaimsSoFar'
  BY DEF RegistryInv, ClaimsSoFar
<1> USE NamesDiffer DEF ClaimsSoFar, Dealt, setup, locals, result
<1>0. /\ inst \in [Points -> Packs \cup {Absent, Refused, Broken}] /\ found \subseteq Points
      /\ owner \in [Claims -> Points \cup {Core, None}] /\ colliding \subseteq Claims
  BY DEF TypeOK
<1>1. ASSUME NEW p \in Points, Collect(p) PROVE ClaimsSoFar'
  <2>1. p \in found /\ p \in left /\ inst[p].spelled /\ p # Core /\ p # None
    BY <1>0, <1>1 DEF Collect, JudgedSoFar
  <2>2. inst[p].claims \subseteq Claims
    BY <2>1 DEF TypeOK
  <2>3. Dealt' = Dealt \cup {p} /\ p \notin Dealt /\ inst' = inst /\ pc = "collect"
    BY <1>1, <2>1 DEF Collect
  <2>4. \A c \in Claims :
          /\ owner'[c] = IF c \in inst[p].claims /\ owner[c] = None THEN p ELSE owner[c]
          /\ c \in colliding' <=> c \in colliding \/ (c \in inst[p].claims /\ owner[c] # None)
    BY <1>0, <1>1 DEF Collect
  <2>5. \A c \in Claims : owner[c] # p
    BY <1>0, <2>3 DEF TypeOK
  <2>6. ASSUME NEW c \in Claims
        PROVE  /\ c \in CoreClaims <=> owner'[c] = Core
               /\ owner'[c] \in Points => owner'[c] \in Dealt' /\ c \in inst[owner'[c]].claims
               /\ owner'[c] = None => \A q \in Dealt' : c \notin inst[q].claims
    BY <1>0, <2>1, <2>3, <2>4
  <2>7. ASSUME NEW c \in Claims
        PROVE  c \in colliding' <=> \E q \in Dealt' : c \in inst[q].claims /\ q # owner'[c]
    BY <1>0, <2>1, <2>3, <2>4, <2>5
  <2> QED  BY <2>1, <2>3, <2>6, <2>7
<1>2. CASE Judged
  BY <1>0, <1>2 DEF Judged, CoreOnly
<1>3. CASE UNCHANGED vars
  BY <1>3 DEF vars
<1> HIDE DEF ClaimsSoFar, Dealt
<1> QED
  BY <1>1, <1>2, <1>3 DEF Next, Install, Changed, UpgradeCore, Discover, Load, Loaded,
     Judge, Misspelled, Collected, Over

\* What a process collected without colliding is what resolves.
LEMMA CollectedResolves ==
  ASSUME TypeOK, ClaimsSoFar, pc = "collect", left = {}, NEW c \in Claims
  PROVE  TheOne(HitsOf(inst, found, c)) = IF c \in colliding THEN None ELSE owner[c]
<1> DEFINE H == HitsOf(inst, found, c)
<1>1. Dealt = found
  BY DEF Dealt
<1>2. IsFiniteSet(H)
  <2>1. H \subseteq Points \cup {Core}
    BY DEF HitsOf, TypeOK
  <2>2. IsFiniteSet(Points \cup {Core})
    BY FS_AddElement, NamesDiffer
  <2> QED  BY <2>1, <2>2, FS_Subset
<1>3. \A p \in H : (p \in found /\ c \in inst[p].claims) \/ (p = Core /\ c \in CoreClaims)
  BY DEF HitsOf
<1>4. owner[c] = None => H = {}
  <2> SUFFICES ASSUME owner[c] = None PROVE H = {}
    OBVIOUS
  <2>1. c \notin CoreClaims /\ \A p \in found : c \notin inst[p].claims
    BY <1>1, NamesDiffer DEF ClaimsSoFar
  <2> QED  BY <2>1, <1>3
<1>5. owner[c] # None => owner[c] \in H
  BY <1>1 DEF ClaimsSoFar, HitsOf, TypeOK
<1>6. c \in colliding <=> \E p \in found : c \in inst[p].claims /\ p # owner[c]
  BY <1>1 DEF ClaimsSoFar
<1>7. CASE owner[c] = None
  <2>1. H = {} /\ c \notin colliding
    BY <1>4, <1>6, <1>7, <1>1 DEF ClaimsSoFar
  <2> QED  BY <2>1, <1>7, NoHit
<1>8. CASE owner[c] # None /\ c \in colliding
  <2>1. PICK p \in found : c \in inst[p].claims /\ p # owner[c]
    BY <1>6, <1>8
  <2>2. p \in H
    BY <2>1 DEF HitsOf
  <2>3. TheOne(H) = None
    BY <1>2, <1>5, <1>8, <2>1, <2>2, TwoHits
  <2> QED  BY <1>8, <2>3
<1>9. CASE owner[c] # None /\ c \notin colliding
  <2>1. \A p \in H : p = owner[c]
    BY <1>3, <1>6, <1>9 DEF ClaimsSoFar
  <2>2. TheOne(H) = owner[c]
    BY <1>5, <1>9, <2>1, OneHit
  <2> QED  BY <1>9, <2>2
<1> QED  BY <1>7, <1>8, <1>9

LEMMA LeftStep ==
  RegistryInv /\ [Next]_vars => LeftBehind'
<1> SUFFICES ASSUME RegistryInv, [Next]_vars PROVE LeftBehind'
  OBVIOUS
<1>0. /\ inst \in [Points -> Packs \cup {Absent, Refused, Broken}] /\ found \subseteq Points
      /\ TypeOK /\ LeftBehind /\ JudgedSoFar /\ ClaimsSoFar
  BY DEF RegistryInv, TypeOK
<1>1. pc = "collect" => found = {p \in Points : Usable(inst, version, p)}
  BY <1>0 DEF JudgedSoFar
<1>2. ASSUME NEW p \in Points, Misspelled(p) PROVE LeftBehind'
  <2>1. /\ pc = "collect" /\ p \in found /\ ~ inst[p].spelled
        /\ known' = found /\ runs' = [c \in Claims |-> None]
        /\ was' = [inst |-> inst, version |-> version]
    BY <1>0, <1>2 DEF Misspelled, Over, NoOwner, Now, JudgedSoFar
  <2>2. was'.inst = inst /\ was'.version = version
    BY <2>1
  <2>3. ~ \A q \in known' : was'.inst[q].spelled
    BY <2>1, <2>2
  <2>4. known' = {q \in Points : Usable(was'.inst, was'.version, q)}
    BY <1>1, <2>1, <2>2
  <2> QED  BY <1>0, <2>1, <2>2, <2>3, <2>4 DEF LeftBehind
<1>3. CASE Collected
  <2>1. /\ pc = "collect" /\ left = {} /\ known' = found
        /\ runs' = [c \in Claims |-> IF c \in colliding THEN None ELSE owner[c]]
        /\ was' = [inst |-> inst, version |-> version]
    BY <1>3 DEF Collected, Over, Now
  <2>2. was'.inst = inst /\ was'.version = version
    BY <2>1
  <2>3. \A q \in known' : was'.inst[q].spelled
    BY <1>0, <2>1, <2>2 DEF ClaimsSoFar, Dealt
  <2>4. known' = {q \in Points : Usable(was'.inst, was'.version, q)}
    BY <1>1, <2>1, <2>2
  <2>5. ASSUME NEW c \in Claims
        PROVE  runs'[c] = TheOne(HitsOf(was'.inst, known', c))
    BY <1>0, <2>1, <2>2, CollectedResolves
  <2> QED  BY <1>0, <2>2, <2>3, <2>4, <2>5 DEF LeftBehind
<1>4. CASE UNCHANGED result
  BY <1>0, <1>4 DEF LeftBehind, result
<1> QED
  BY <1>2, <1>3, <1>4 DEF Next, Install, Load, Collect, Judge, UpgradeCore, Discover,
     Loaded, Judged, result, vars

LEMMA RegistryInvariance == Spec => []RegistryInv
<1>1. RegistryInv /\ [Next]_vars => RegistryInv'
  BY RegistryTypeStep, JudgedStep, ClaimsStep, LeftStep DEF RegistryInv
<1> QED  BY RegistryInit, <1>1, PTL DEF Spec

\* The types of Registry's variables; only packs become candidates.
THEOREM TypeCorrect ==
  Spec => []TypeOK
<1>1. RegistryInv => TypeOK
  BY DEF RegistryInv
<1> QED  BY <1>1, RegistryInvariance, PTL

\* The targets the worker runs are those that bare source names resolve to, the
\* scan of all_targets() and the list of resolve_source() agreeing for any packs,
\* and none when one of the packs found has a misspelled target.
THEOREM RunsResolve ==
  Spec => []RunsWhatResolves
<1>1. RegistryInv => RunsWhatResolves
  <2> SUFFICES ASSUME RegistryInv, Fresh, NEW c \in Claims
               PROVE  runs[c] = IF \A p \in known : inst[p].spelled
                                THEN ResolveSource(c) ELSE None
    BY DEF RunsWhatResolves
  <2>1. was.inst = inst
    BY DEF Fresh, Now
  <2>2. TheOne(HitsOf(inst, known, c)) = ResolveSource(c)
    BY DEF TheOne, HitsOf, ResolveSource, Hits
  <2> QED  BY <2>1, <2>2 DEF RegistryInv, LeftBehind
<1> QED  BY <1>1, RegistryInvariance, PTL

\* A target of the core is never run by another pack, and that of another pack
\* passes to a third one only when the pack or the core changed or a second pack
\* took its name: installing a rival cannot take a target over.
THEOREM NothingTakenOver ==
  Spec => NoTakeover
<1> DEFINE A == pc = "collect" /\ pc' = "idle" =>
        \A c \in Claims :
          \/ runs[c] = None \/ runs'[c] \in {runs[c], None}
          \/ /\ runs[c] # Core
             /\ \/ inst[runs[c]] # was.inst[runs[c]] \/ version # was.version
                \/ Rivals(runs[c]) # {}
<1>1. RegistryInv /\ [Next]_vars => [A]_vars
  <2> SUFFICES ASSUME RegistryInv, Next, pc = "collect", pc' = "idle",
                      NEW c \in Claims, runs[c] # None, runs'[c] # runs[c], runs'[c] # None
               PROVE  /\ runs[c] # Core
                      /\ \/ inst[runs[c]] # was.inst[runs[c]] \/ version # was.version
                         \/ Rivals(runs[c]) # {}
    OBVIOUS
  <2>1. Collected
    BY DEF Next, Install, Changed, UpgradeCore, Discover, Load, Loaded, Judge, Judged,
       Collect, Misspelled, Over, NoOwner
  <2>2. left = {} /\ c \notin colliding /\ runs'[c] = owner[c]
    BY <2>1 DEF Collected, Over
  <2>3. runs[c] \in HitsOf(was.inst, known, c)
    <3>1. runs[c] = TheOne(HitsOf(was.inst, known, c))
      BY DEF RegistryInv, LeftBehind
    <3> QED  BY <3>1, FS_EmptySet DEF TheOne
  <2>4. runs[c] # Core
    <3>1. runs[c] = Core => c \in CoreClaims
      BY <2>3, NamesDiffer DEF HitsOf, RegistryInv, TypeOK
    <3> QED  BY <2>2, <3>1 DEF RegistryInv, ClaimsSoFar
  <2>5. runs[c] \in known /\ c \in was.inst[runs[c]].claims
    BY <2>3, <2>4 DEF HitsOf
  <2> SUFFICES ASSUME inst[runs[c]] = was.inst[runs[c]], version = was.version,
                      Rivals(runs[c]) = {}
               PROVE  FALSE
    BY <2>4
  <2>6. runs[c] \in Points /\ Usable(was.inst, was.version, runs[c])
    BY <2>5 DEF RegistryInv, LeftBehind
  <2>7. Usable(inst, version, runs[c])
    BY <2>6 DEF Usable, Loads, Alone, Rivals
  <2>8. runs[c] \in found
    BY <2>6, <2>7 DEF RegistryInv, JudgedSoFar
  <2> QED  BY <2>2, <2>5, <2>8 DEF RegistryInv, ClaimsSoFar, Dealt
<1> QED  BY <1>1, RegistryInvariance, PTL DEF Spec, NoTakeover

\* Versions of which Number makes one number, and the five comparisons.
SmallVersion(v) == v \in Seq(0 .. 9) /\ Len(v) <= 3
SmallVersions ==
  /\ \A v \in CoreVersions : SmallVersion(v)
  /\ \A range \in Ranges : \A i \in 1 .. Len(range) :
       /\ SmallVersion(range[i].v)
       /\ range[i].op \in {">=", "<=", "==", ">", "<"}

Digit(v, i) == IF i <= Len(v) THEN v[i] ELSE 0

LEMMA Digits ==
  ASSUME NEW v, SmallVersion(v)
  PROVE  /\ \A i \in 1 .. 3 : Digit(v, i) \in 0 .. 9 /\ (i > Len(v) => Digit(v, i) = 0)
         /\ Number(v) = Digit(v, 1) * 100 + Digit(v, 2) * 10 + Digit(v, 3)
         /\ Len(v) \in 0 .. 3 /\ Number(v) \in Int
<1>1. Len(v) \in 0 .. 3 /\ \A i \in 1 .. Len(v) : v[i] \in 0 .. 9
  <2>1. v \in Seq(0 .. 9) /\ Len(v) <= 3
    BY DEF SmallVersion
  <2>2. Len(v) \in Nat /\ v \in [1 .. Len(v) -> 0 .. 9]
    BY <2>1
  <2>3. \A i \in 1 .. Len(v) : v[i] \in 0 .. 9
    BY <2>2
  <2> QED  BY <2>1, <2>2, <2>3
<1>2. \A i \in 1 .. 3 : Digit(v, i) \in 0 .. 9 /\ (i > Len(v) => Digit(v, i) = 0)
  BY <1>1 DEF Digit
<1>3. Number(v) = Digit(v, 1) * 100 + Digit(v, 2) * 10 + Digit(v, 3)
  BY DEF Number, Digit
<1>4. /\ Digit(v, 1) \in Int /\ Digit(v, 2) \in Int /\ Digit(v, 3) \in Int
  BY <1>2
<1>5. Number(v) \in Int
  BY ONLY <1>3, <1>4
<1> QED  BY <1>1, <1>2, <1>3, <1>5

\* Padding with zeros and comparing part by part is comparing the numbers.
LEMMA BeforeIsLess ==
  ASSUME NEW v, NEW w, SmallVersion(v), SmallVersion(w)
  PROVE  Before(v, w) <=> Number(v) < Number(w)
<1> DEFINE n == IF Len(v) > Len(w) THEN Len(v) ELSE Len(w)
           a(i) == Digit(v, i)
           b(i) == Digit(w, i)
<1>1. /\ n \in 0 .. 3 /\ Len(v) \in 0 .. 3 /\ Len(w) \in 0 .. 3
      /\ \A i \in 1 .. 3 : a(i) \in 0 .. 9 /\ b(i) \in 0 .. 9 /\ (i > n => a(i) = b(i))
  BY Digits
<1>2. Before(v, w) <=> \E i \in 1 .. n : a(i) < b(i) /\ \A j \in 1 .. i - 1 : a(j) = b(j)
  <2>1. \A i \in 1 .. n : Aligned(v, n)[i] = a(i) /\ Aligned(w, n)[i] = b(i)
    BY DEF Aligned, Digit
  <2>2. Before(v, w) <=>
          \E i \in 1 .. n : /\ Aligned(v, n)[i] < Aligned(w, n)[i]
                           /\ \A j \in 1 .. i - 1 :
                                Aligned(v, n)[j] = Aligned(w, n)[j]
    BY DEF Before
  <2> HIDE DEF n, a, b
  <2>3. \A i \in 1 .. n : \A j \in 1 .. i - 1 : j \in 1 .. n
    BY <1>1
  <2> QED  BY <2>1, <2>2, <2>3
<1>3. Number(v) = a(1) * 100 + a(2) * 10 + a(3)
      /\ Number(w) = b(1) * 100 + b(2) * 10 + b(3)
  BY Digits
<1> HIDE DEF n, a, b
<1>4. (\E i \in 1 .. n : a(i) < b(i) /\ \A j \in 1 .. i - 1 : a(j) = b(j))
      <=> \/ a(1) < b(1)
          \/ a(1) = b(1) /\ a(2) < b(2)
          \/ a(1) = b(1) /\ a(2) = b(2) /\ a(3) < b(3)
  BY <1>1
<1>5. \/ a(1) < b(1)
      \/ a(1) = b(1) /\ a(2) < b(2)
      \/ a(1) = b(1) /\ a(2) = b(2) /\ a(3) < b(3)
      <=> a(1) * 100 + a(2) * 10 + a(3) < b(1) * 100 + b(2) * 10 + b(3)
  <2>1. /\ a(1) \in 0 .. 9 /\ a(2) \in 0 .. 9 /\ a(3) \in 0 .. 9
        /\ b(1) \in 0 .. 9 /\ b(2) \in 0 .. 9 /\ b(3) \in 0 .. 9
    BY <1>1
  <2>2. PICK x \in 0 .. 9, y \in 0 .. 9, z \in 0 .. 9, p \in 0 .. 9, q \in 0 .. 9, r \in 0 .. 9 :
          x = a(1) /\ y = a(2) /\ z = a(3) /\ p = b(1) /\ q = b(2) /\ r = b(3)
    BY <2>1
  <2>3. (x < p \/ (x = p /\ y < q) \/ (x = p /\ y = q /\ z < r))
          <=> x * 100 + y * 10 + z < p * 100 + q * 10 + r
    OBVIOUS
  <2> QED  BY ONLY <2>2, <2>3
<1> QED  BY <1>2, <1>3, <1>4, <1>5

LEMMA MatchesIsInRange ==
  ASSUME SmallVersions, NEW v \in CoreVersions, NEW range \in Ranges
  PROVE  Matches(v, range) <=> InRange(v, range)
<1>1. ASSUME NEW i \in 1 .. Len(range)
      PROVE  Holds(v, range[i]) <=>
               LET n == Number(v)  m == Number(range[i].v)  o == range[i].op
               IN  \/ o \in {">=", "<=", "=="} /\ n = m
                   \/ o \in {">=", ">"} /\ n > m
                   \/ o \in {"<=", "<"} /\ n < m
  <2>1. SmallVersion(v) /\ SmallVersion(range[i].v)
        /\ range[i].op \in {">=", "<=", "==", ">", "<"}
    BY DEF SmallVersions
  <2>2. /\ Before(v, range[i].v) <=> Number(v) < Number(range[i].v)
        /\ Before(range[i].v, v) <=> Number(range[i].v) < Number(v)
    BY <2>1, BeforeIsLess
  <2>3. Number(v) \in Int /\ Number(range[i].v) \in Int
    BY <2>1, Digits
  <2>4. CASE range[i].op = ">="
    BY <2>2, <2>3, <2>4 DEF Holds
  <2>5. CASE range[i].op = "<="
    BY <2>2, <2>3, <2>5 DEF Holds
  <2>6. CASE range[i].op = "=="
    BY <2>2, <2>3, <2>6 DEF Holds
  <2>7. CASE range[i].op = ">"
    BY <2>2, <2>3, <2>7 DEF Holds
  <2>8. CASE range[i].op = "<"
    BY <2>2, <2>3, <2>8 DEF Holds
  <2> QED  BY <2>1, <2>4, <2>5, <2>6, <2>7, <2>8
<1> QED  BY <1>1 DEF Matches, InRange

\* What a process finds depends on what is installed and on nothing else: every
\* pack with a name of its own that wants this core, for any number of packs
\* loaded in any order.  It takes versions of at most three parts below ten, which
\* the property compares as numbers; the code compares them part by part.
THEOREM FindsExactly ==
  ASSUME SmallVersions PROVE Spec => []FoundIsExact
<1>1. RegistryInv => FoundIsExact
  <2> SUFFICES ASSUME RegistryInv, Fresh, NEW p \in Points
               PROVE  p \in known <=> /\ inst[p] \in Packs /\ inst[p].name # Core
                                      /\ Rivals(p) = {}
                                      /\ InRange(version, inst[p].requires)
    BY DEF FoundIsExact, RegistryInv, LeftBehind
  <2>1. was.inst = inst /\ was.version = version
    BY DEF Fresh, Now
  <2>2. p \in known <=> Usable(inst, version, p)
    BY <2>1 DEF RegistryInv, LeftBehind
  <2>3. Alone(inst, p) <=> Rivals(p) = {}
    BY DEF Alone, Rivals
  <2>4. inst[p] \in Packs =>
          (Matches(version, inst[p].requires)
             <=> InRange(version, inst[p].requires))
    BY MatchesIsInRange, NamesDiffer DEF RegistryInv, TypeOK
  <2> QED  BY <2>2, <2>3, <2>4 DEF Usable, Loads
<1> QED  BY <1>1, RegistryInvariance, PTL

=============================================================================
