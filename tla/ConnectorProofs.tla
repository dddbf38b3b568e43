-------------------------- MODULE ConnectorProofs --------------------------
(***************************************************************************)
(* The connectors with a watermark implement the promise of a source,      *)
(* SourceFeed, and a run of one that reads all misses nothing without      *)
(* saying so (PageWalk), for any number of records, any page size and any  *)
(* length of history.  PageWalk is extended and the other three are        *)
(* instantiated: a name that more than one of them has is shared, and each *)
(* theorem is about one of them.                                           *)
(***************************************************************************)
EXTENDS PageWalk, FiniteSetTheorems, SequenceTheorems, WellFoundedInduction, TLAPS

CONSTANTS N, PageSize, Lead, MaxClock,                              \* shared
          MinPageSize, ShrinkFactor, GrowAfter, Skew, DeleteUnderScan, \* DojoScan
          Grain, Silent, MaxStops,                                  \* CortexScan
          Lag, Delay, RunTime, MinPages, Backfill, Burst            \* LagScan

VARIABLES clock, mod, landed, wm, high, since, frm,                 \* shared
          newest, present, cap, offset, size, successes, growAfter, \* DojoScan
          pin, stops,                                               \* CortexScan
          keyset, det, visible, base, began, read, last, ceiling    \* LagScan

Dojo   == INSTANCE DojoScan
Cortex == INSTANCE CortexScan
Lagged == INSTANCE LagScan

\* A part of a finite set of numbers has no more elements than the whole.
LEMMA Fewer ==
  ASSUME NEW n \in Nat, NEW S \in SUBSET (1 .. n), NEW T \in SUBSET S
  PROVE  /\ IsFiniteSet(S) /\ IsFiniteSet(T)
         /\ Cardinality(S) \in Nat /\ Cardinality(T) \in Nat
         /\ Cardinality(T) <= Cardinality(S)
         /\ Cardinality(T) = Cardinality(S) => T = S
<1>1. IsFiniteSet(1 .. n)
  BY FS_Interval
<1>2. IsFiniteSet(S)
  BY <1>1, FS_Subset
<1>3. IsFiniteSet(T) /\ Cardinality(T) <= Cardinality(S)
      /\ (Cardinality(S) = Cardinality(T) => S = T)
  BY <1>2, FS_Subset
<1> QED
  BY <1>2, <1>3, FS_CardinalityType

----------------------------------------------------------------------------
(* DojoScan.  What the cap vouches for must not be disturbed under a scan: *)
(* a finding that changes is stamped above the cap, and none below it      *)
(* steps onto a place that was read.  A worker whose clock is within the   *)
(* skew and a server that deletes nothing under a scan give that: whatever *)
(* is there only moves back in the order the pages are read in.            *)

DojoSizes ==
  /\ N \in Nat \ {0} /\ MinPageSize \in Nat \ {0} /\ PageSize \in Nat
  /\ MinPageSize <= PageSize /\ ShrinkFactor \in Nat /\ ShrinkFactor > 1
  /\ GrowAfter \in Nat /\ Skew \in Nat /\ Lead \in Nat
  /\ MaxClock \in Nat /\ MaxFaults \in Nat

Above(i) == Cardinality({j \in present : j > i})

\* Of what the cap of the scan vouches for, nothing changes under it, and
\* nothing that is still to be read steps over the offset.
DojoKeepsItsPlace ==
  pc = "page" => \A i \in present' : mod'[i] <= cap =>
    mod'[i] = mod[i] /\ (Above(i)' < offset => Above(i) < offset)
DojoUndisturbed == [][DojoKeepsItsPlace]_(Dojo!vars)

DojoTimesOK ==
  /\ present \subseteq 1 .. newest
  /\ \A i \in Dojo!Ids : landed[i] <= mod[i] /\ mod[i] <= clock
  /\ wm <= clock
  /\ pc = "page" => high <= clock

\* The pages before the offset have landed, as far as the cap vouches for them.
DojoPagesOK ==
  pc = "page" => \A i \in present :
    wm < mod[i] /\ mod[i] <= cap /\ Above(i) < offset => landed[i] = mod[i]

DojoInv == Dojo!TypeOK /\ DojoTimesOK /\ DojoPagesOK

\* Cardinality is the same operator in the specification and here.
LEMMA DojoCounts == \A S : Dojo!Cardinality(S) = Cardinality(S)
  BY DEF Dojo!Cardinality, Cardinality, IsFiniteSet, Dojo!IsFiniteSet

\* A page that is cut is not cut to more than it was, and one that grows does
\* not become smaller.
LEMMA Quotient == ASSUME NEW a \in Nat, NEW f \in Nat, f > 1
                  PROVE  a \div f \in Nat /\ a \div f <= a
<1>1. a \div f \in Int /\ a = f * (a \div f) + (a % f) /\ a % f >= 0 /\ a % f < f
  OBVIOUS
<1> QED
  BY <1>1

LEMMA Product == ASSUME NEW a \in Nat, NEW f \in Nat, f > 1
                 PROVE  a * f \in Nat /\ a <= a * f
<1>1. a * f = a + a * (f - 1) /\ a * (f - 1) \in Nat
  OBVIOUS
<1> QED
  BY <1>1

LEMMA DojoTypeStep ==
  ASSUME DojoSizes
  PROVE  Dojo!TypeOK /\ [Dojo!Next]_(Dojo!vars) => Dojo!TypeOK'
<1> SUFFICES ASSUME Dojo!TypeOK, [Dojo!Next]_(Dojo!vars) PROVE Dojo!TypeOK'
  OBVIOUS
<1> USE DEF Dojo!TypeOK, DojoSizes, Dojo!Ids, Dojo!server, Dojo!run, Dojo!policy, Dojo!Fault
<1>1. CASE Dojo!Create
  BY <1>1 DEF Dojo!Create, Dojo!Touch
<1>2. CASE Dojo!Modify
  BY <1>2 DEF Dojo!Modify, Dojo!Touch
<1>3. CASE Dojo!Delete
  BY <1>3 DEF Dojo!Delete
<1>9. CASE Dojo!Pass
  BY <1>9 DEF Dojo!Pass
<1>4. CASE Dojo!Begin
  BY <1>4 DEF Dojo!Begin, Dojo!Cap
<1>5. CASE Dojo!Timeout
  <2>0. size \in Nat /\ ShrinkFactor \in Nat /\ ShrinkFactor > 1
    OBVIOUS
  <2>1. size \div ShrinkFactor \in Nat /\ size \div ShrinkFactor <= size
    BY ONLY <2>0, Quotient
  <2>2. Dojo!Shrunk \in MinPageSize .. PageSize
    BY <2>1 DEF Dojo!Shrunk, Dojo!Larger
  <2> QED
    BY <1>5, <2>2 DEF Dojo!Timeout
<1>6. CASE Dojo!GiveUp
  BY <1>6 DEF Dojo!GiveUp
<1>7. CASE Dojo!Scan
  <2>1. high' \in Nat /\ landed' \in [1 .. N -> Nat]
    <3>1. Dojo!Yield
      BY <1>7 DEF Dojo!Scan, Dojo!Page, Dojo!LastPage
    <3>2. Dojo!Fresh(Dojo!Rows) \subseteq 1 .. N
      BY DEF Dojo!Fresh, Dojo!Rows
    <3> QED
      BY <3>1, <3>2 DEF Dojo!Yield
  <2>2. CASE Dojo!Page
    <3>0. size \in Nat /\ ShrinkFactor \in Nat /\ ShrinkFactor > 1
      OBVIOUS
    <3>1. size * ShrinkFactor \in Nat /\ size <= size * ShrinkFactor
      BY ONLY <3>0, Product
    <3>2. Dojo!Grown \in MinPageSize .. PageSize
      BY <3>1 DEF Dojo!Grown, Dojo!Smaller
    <3> QED
      BY <2>1, <2>2, <3>2 DEF Dojo!Page, Dojo!Regrow, Dojo!NextOffset
  <2>3. CASE Dojo!LastPage
    BY <2>1, <2>3 DEF Dojo!LastPage, Dojo!Smaller
  <2> QED
    BY <1>7, <2>2, <2>3 DEF Dojo!Scan
<1>8. CASE UNCHANGED Dojo!vars
  BY <1>8 DEF Dojo!vars
<1> QED
  BY <1>1, <1>2, <1>3, <1>4, <1>5, <1>6, <1>7, <1>8, <1>9 DEF Dojo!Next

LEMMA DojoTypeInit == ASSUME DojoSizes PROVE Dojo!Init => Dojo!TypeOK
  BY DEF Dojo!Init, Dojo!TypeOK, DojoSizes, Dojo!Ids

\* The variables have their types, and a page stays between the floor and the
\* page size however often it is cut and grows (sources/defectdojo.py,
\* _get_page), whatever the host's clock and with deletions under a scan too.
THEOREM DojoTypeCorrect == ASSUME DojoSizes PROVE Dojo!Spec => []Dojo!TypeOK
<1>1. Dojo!Init => Dojo!TypeOK
  BY DojoTypeInit
<1>2. Dojo!TypeOK /\ [Dojo!Next]_(Dojo!vars) => Dojo!TypeOK'
  BY DojoTypeStep
<1> QED
  BY <1>1, <1>2, PTL DEF Dojo!Spec

\* A page brings what it says: of the rows at the offset, those that are newer
\* than the cursor are landed as they are, and no other row is touched.
LEMMA DojoPageLands ==
  ASSUME DojoSizes, DojoInv, Dojo!Yield
  PROVE  /\ \A i \in Dojo!Ids : landed'[i] = landed[i] \/ (i \in present /\ landed'[i] = mod[i])
         /\ \A i \in present : wm < mod[i] /\ offset <= Above(i) /\ Above(i) < offset + size
                               => landed'[i] = mod[i]
<1>1. present \subseteq Dojo!Ids
  BY DEF DojoInv, Dojo!TypeOK
<1>2. landed' = [i \in Dojo!Ids |-> IF i \in Dojo!Fresh(Dojo!Rows) THEN mod[i] ELSE landed[i]]
  BY DEF Dojo!Yield
<1>3. Dojo!Rows = {i \in present : offset <= Above(i) /\ Above(i) < offset + size}
  BY DojoCounts DEF Dojo!Rows, Above
<1>4. Dojo!Fresh(Dojo!Rows) = {i \in Dojo!Rows : mod[i] > wm}
  BY DEF Dojo!Fresh
<1> QED
  BY <1>1, <1>2, <1>3, <1>4 DEF DojoInv, Dojo!TypeOK

LEMMA DojoFacts ==
  ASSUME DojoSizes, DojoInv
  PROVE  /\ clock \in Nat /\ wm \in Int /\ cap \in Int /\ offset \in Nat /\ newest \in 0 .. N
         /\ mod \in [1 .. N -> Nat] /\ landed \in [1 .. N -> Nat] /\ present \subseteq 1 .. N
         /\ N \in Nat /\ size \in Nat /\ high \in Nat
         /\ present \subseteq 1 .. newest /\ wm <= clock
         /\ \A i \in 1 .. N : landed[i] <= mod[i] /\ mod[i] <= clock
         /\ pc = "page" => high <= clock
<1>1. /\ clock \in Nat /\ wm \in Int /\ cap \in Int /\ offset \in Nat /\ newest \in 0 .. N
      /\ mod \in [1 .. N -> Nat] /\ landed \in [1 .. N -> Nat] /\ present \subseteq 1 .. N
      /\ N \in Nat /\ size \in Nat /\ high \in Nat
  BY DEF DojoInv, Dojo!TypeOK, Dojo!Ids, DojoSizes
<1>2. /\ present \subseteq 1 .. newest /\ wm <= clock
      /\ \A i \in 1 .. N : landed[i] <= mod[i] /\ mod[i] <= clock
      /\ pc = "page" => high <= clock
  BY DEF DojoInv, DojoTimesOK, Dojo!Ids
<1> QED
  BY <1>1, <1>2

LEMMA DojoRanks ==
  ASSUME DojoSizes, DojoInv
  PROVE  /\ Cardinality(present) \in Nat
         /\ \A i \in present : Above(i) \in Nat /\ Above(i) < Cardinality(present)
<1>1. present \subseteq 1 .. N /\ N \in Nat
  BY DEF DojoInv, Dojo!TypeOK, Dojo!Ids, DojoSizes
<1>2. ASSUME NEW i \in present
      PROVE  Above(i) \in Nat /\ Above(i) < Cardinality(present)
  <2> DEFINE T == {j \in present : j > i}
  <2>1. T \in SUBSET present /\ i \notin T
    BY <1>1
  <2>2. /\ Cardinality(T) \in Nat /\ Cardinality(present) \in Nat
        /\ Cardinality(T) <= Cardinality(present)
        /\ Cardinality(T) = Cardinality(present) => T = present
    BY <1>1, <2>1, Fewer
  <2> QED
    BY <2>1, <2>2 DEF Above
<1>3. Cardinality(present) \in Nat
  BY <1>1, Fewer
<1> QED
  BY <1>2, <1>3

LEMMA DojoInvStep ==
  ASSUME DojoSizes
  PROVE  DojoInv /\ [Dojo!Next]_(Dojo!vars) /\ [DojoKeepsItsPlace]_(Dojo!vars) => DojoInv'
<1> SUFFICES ASSUME DojoInv, [Dojo!Next]_(Dojo!vars), [DojoKeepsItsPlace]_(Dojo!vars)
             PROVE  DojoInv'
  OBVIOUS
<1>0. Dojo!TypeOK'
  BY DojoTypeStep DEF DojoInv
<1>t. /\ clock \in Nat /\ wm \in Int /\ cap \in Int /\ offset \in Nat /\ newest \in 0 .. N
      /\ mod \in [1 .. N -> Nat] /\ landed \in [1 .. N -> Nat] /\ present \subseteq 1 .. N
      /\ N \in Nat /\ size \in Nat /\ high \in Nat
  BY DojoFacts
<1>i. /\ present \subseteq 1 .. newest /\ wm <= clock
      /\ \A i \in 1 .. N : landed[i] <= mod[i] /\ mod[i] <= clock
      /\ pc = "page" => high <= clock
  BY DojoFacts
<1>k. Dojo!Create \/ Dojo!Modify \/ Dojo!Delete => DojoKeepsItsPlace
  <2>1. Dojo!Create \/ Dojo!Modify \/ Dojo!Delete => clock' = clock + 1
    BY DEF Dojo!Create, Dojo!Modify, Dojo!Delete, Dojo!Touch
  <2>2. UNCHANGED Dojo!vars => clock' = clock
    BY DEF Dojo!vars, Dojo!server
  <2> QED
    BY <2>1, <2>2, <1>t
\* What a step of the server leaves of the pages that were read.
<1>p. ASSUME Dojo!Create \/ Dojo!Modify \/ Dojo!Delete, pc = "page",
             UNCHANGED <<landed, wm, cap, offset>>,
             NEW i \in present', i \in present,
             wm < mod'[i], mod'[i] <= cap, Above(i)' < offset
      PROVE  landed'[i] = mod'[i]
  BY <1>k, <1>p DEF DojoInv, DojoPagesOK, DojoKeepsItsPlace
<1>1. CASE Dojo!Create
  <2>1. /\ newest' = newest + 1 /\ newest + 1 \in 1 .. N /\ present' = present \cup {newest + 1}
        /\ clock' = clock + 1 /\ mod' = [mod EXCEPT ![newest + 1] = clock + 1]
        /\ UNCHANGED <<landed, wm, pc, cap, offset, high>>
    BY <1>1, <1>t DEF Dojo!Create, Dojo!Touch, Dojo!run
  <2>2. DojoTimesOK'
    BY <2>1, <1>t, <1>i DEF DojoTimesOK, Dojo!Ids
  <2>3. DojoPagesOK'
    <3>1. ASSUME NEW i \in present', mod'[i] = mod[i] PROVE i \in present
      BY <2>1, <3>1, <1>t, <1>i
    <3> QED
      BY <1>1, <1>k, <1>p, <2>1, <3>1 DEF DojoPagesOK, DojoKeepsItsPlace
  <2> QED
    BY <1>0, <2>2, <2>3 DEF DojoInv
<1>2. CASE Dojo!Modify
  <2>1. PICK i \in present : clock' = clock + 1 /\ mod' = [mod EXCEPT ![i] = clock + 1]
    BY <1>2 DEF Dojo!Modify, Dojo!Touch
  <2>2. UNCHANGED <<newest, present, landed, wm, pc, cap, offset, high>>
    BY <1>2 DEF Dojo!Modify, Dojo!run
  <2>3. DojoTimesOK'
    BY <2>1, <2>2, <1>t, <1>i DEF DojoTimesOK, Dojo!Ids
  <2>5. DojoPagesOK'
    BY <1>2, <1>p, <2>2 DEF DojoPagesOK
  <2> QED
    BY <1>0, <2>3, <2>5 DEF DojoInv
<1>3. CASE Dojo!Delete
  <2>1. /\ clock' = clock + 1 /\ present' \subseteq present
        /\ UNCHANGED <<newest, mod, landed, wm, pc, cap, offset, high>>
    BY <1>3 DEF Dojo!Delete, Dojo!run
  <2>2. DojoTimesOK'
    BY <2>1, <1>t, <1>i DEF DojoTimesOK, Dojo!Ids
  <2>3. DojoPagesOK'
    BY <1>3, <1>p, <2>1 DEF DojoPagesOK
  <2> QED
    BY <1>0, <2>2, <2>3 DEF DojoInv
<1>4. CASE Dojo!Pass
  <2>1. clock' = clock + 1 /\ UNCHANGED <<newest, present, mod, landed, wm, pc, cap, offset, high>>
    BY <1>4 DEF Dojo!Pass, Dojo!run
  <2>2. \A k : Above(k)' = Above(k)
    BY <2>1 DEF Above
  <2> QED
    BY <1>0, <2>1, <2>2, <1>t, <1>i DEF DojoInv, DojoTimesOK, DojoPagesOK, Dojo!Ids
<1>5. CASE Dojo!Begin
  <2>1. /\ offset' = 0 /\ high' = 0 /\ pc' = "page"
        /\ UNCHANGED <<clock, newest, present, mod, landed, wm>>
    BY <1>5 DEF Dojo!Begin, Dojo!server
  <2>2. \A i \in present : Above(i)' = Above(i) /\ Above(i) \in Nat
    BY <2>1, DojoRanks DEF Above
  <2> QED
    BY <1>0, <2>1, <2>2, <1>t, <1>i DEF DojoInv, DojoTimesOK, DojoPagesOK, Dojo!Ids
<1>6. CASE Dojo!Timeout \/ Dojo!GiveUp \/ UNCHANGED Dojo!vars
  <2>1. /\ UNCHANGED <<clock, newest, present, mod, landed, wm, cap, offset, high>>
        /\ pc' = pc \/ pc' = "idle"
    BY <1>6 DEF Dojo!Timeout, Dojo!GiveUp, Dojo!vars, Dojo!server, Dojo!run
  <2>2. \A k : Above(k)' = Above(k)
    BY <2>1 DEF Above
  <2> QED
    BY <1>0, <2>1, <2>2, <1>t, <1>i DEF DojoInv, DojoTimesOK, DojoPagesOK, Dojo!Ids
<1>7. CASE Dojo!Scan
  <2>1. UNCHANGED <<clock, newest, present, mod, cap>> /\ Dojo!Yield /\ pc = "page"
    BY <1>7 DEF Dojo!Scan, Dojo!Page, Dojo!LastPage, Dojo!server
  <2>2. \A i \in 1 .. N : landed'[i] = landed[i] \/ landed'[i] = mod[i]
    BY <2>1, DojoPageLands DEF Dojo!Ids
  <2>h. high' \in Nat /\ high' <= clock
    <3>1. high' \in {high} \cup {mod[i] : i \in 1 .. N}
      BY <2>1, <1>t DEF Dojo!Yield, Dojo!Fresh, Dojo!Rows
    <3> QED
      BY <2>1, <3>1, <1>t, <1>i
  <2>3. CASE Dojo!Page
    <3>1. UNCHANGED <<wm, pc>> /\ offset' = offset + size
      BY <2>3 DEF Dojo!Page, Dojo!NextOffset
    <3>2. \A i \in present : Above(i)' = Above(i) /\ Above(i) \in Nat
      BY <2>1, DojoRanks DEF Above
    <3>3. DojoPagesOK'
      <4> SUFFICES ASSUME NEW i \in present, wm < mod[i], mod[i] <= cap, Above(i) < offset + size
                   PROVE  landed'[i] = mod[i]
        BY <2>1, <3>1, <3>2 DEF DojoPagesOK
      <4>1. CASE Above(i) < offset
        BY <2>1, <2>2, <4>1, <1>t DEF DojoInv, DojoPagesOK
      <4>2. CASE ~ Above(i) < offset
        BY <2>1, <3>2, <4>2, <1>t, DojoPageLands
      <4> QED
        BY <4>1, <4>2
    <3>4. \A i \in 1 .. N : landed'[i] <= mod'[i] /\ mod'[i] <= clock'
      BY <2>1, <2>2, <1>t, <1>i
    <3>5. DojoTimesOK'
      BY <2>1, <2>h, <3>1, <3>4, <1>i DEF DojoTimesOK, Dojo!Ids
    <3> QED
      BY <1>0, <3>3, <3>5 DEF DojoInv
  <2>4. CASE Dojo!LastPage
    <3>1. pc' = "idle" /\ (wm' = wm \/ wm' <= high') /\ wm' \in Int
      BY <2>4, <2>h, <1>0, <1>t DEF Dojo!LastPage, Dojo!Smaller, Dojo!TypeOK
    <3>2. wm' <= clock
      BY <2>h, <3>1, <1>t, <1>i
    <3>4. \A i \in 1 .. N : landed'[i] <= mod'[i] /\ mod'[i] <= clock'
      BY <2>1, <2>2, <1>t, <1>i
    <3>3. DojoTimesOK'
      BY <2>1, <3>1, <3>2, <3>4, <1>i DEF DojoTimesOK, Dojo!Ids
    <3> QED
      BY <1>0, <3>1, <3>3 DEF DojoInv, DojoPagesOK
  <2> QED
    BY <1>7, <2>3, <2>4 DEF Dojo!Scan
<1> QED
  BY <1>1, <1>2, <1>3, <1>4, <1>5, <1>6, <1>7 DEF Dojo!Next

LEMMA DojoInit == ASSUME DojoSizes
                  PROVE  Dojo!Init => DojoInv /\ Dojo!Promise!Init
<1> SUFFICES ASSUME Dojo!Init PROVE DojoInv /\ Dojo!Promise!Init
  OBVIOUS
<1> USE DEF Dojo!Init, DojoSizes, Dojo!Ids
<1>2. Dojo!TypeOK
  BY DojoTypeInit
<1>3. DojoTimesOK /\ DojoPagesOK
  BY DEF DojoTimesOK, DojoPagesOK
<1>4. Dojo!Promise!Init
  <2>1. present \subseteq 1 .. N
    OBVIOUS
  <2> QED
    BY <2>1 DEF Dojo!Promise!Init
<1> QED
  BY <1>2, <1>3, <1>4 DEF DojoInv

\* A finding that is created or changes is due again.
LEMMA DojoChanges ==
  ASSUME DojoSizes, DojoInv, NEW k \in 1 .. N,
         mod' = [mod EXCEPT ![k] = clock + 1], present' = present \cup {k},
         UNCHANGED <<landed, wm>>
  PROVE  Dojo!Promise!Change
<1>1. /\ clock \in Nat /\ wm <= clock /\ wm \in Int /\ present \subseteq 1 .. N
      /\ mod \in [1 .. N -> Nat] /\ \A i \in 1 .. N : mod[i] <= clock
  BY DEF DojoInv, DojoTimesOK, Dojo!TypeOK, Dojo!Ids
<1> DEFINE was == [i \in 1 .. N |-> IF i \in present THEN mod[i] ELSE 0]
           is  == [i \in 1 .. N |-> IF i \in present' THEN mod'[i] ELSE 0]
<1>2. was \in [1 .. N -> Nat] /\ is \in [1 .. N -> Nat]
  BY <1>1
<1>3. is[k] > was[k] /\ \A i \in (1 .. N) \ {k} : is[i] = was[i]
  BY <1>1
<1>4. {i \in present' : mod'[i] > wm'} = {i \in present : mod[i] > wm} \cup {k}
  BY <1>1
<1> HIDE DEF was, is
<1>5. \E R \in SUBSET (1 .. N) :
         /\ \A r \in R : is[r] > was[r]
         /\ \A r \in (1 .. N) \ R : is[r] = was[r]
         /\ {i \in present' : mod'[i] > wm'} = {i \in present : mod[i] > wm} \cup R
         /\ {} = {} \ R
  <2>1. {k} \in SUBSET (1 .. N)
    OBVIOUS
  <2> QED
    BY <1>3, <1>4, <2>1
<1> QED
  BY <1>2, <1>5 DEF Dojo!Promise!Change, Dojo!Promise!table, Dojo!Ids, was, is

\* A page lands rows forward; the last one moves the watermark past findings
\* that have landed as they are and past no other.
LEMMA DojoIngests ==
  ASSUME DojoSizes, DojoInv, DojoInv', Dojo!Scan
  PROVE  Dojo!Promise!Ingest
<1>1. /\ UNCHANGED <<present, mod>> /\ Dojo!Yield /\ pc = "page"
  BY DEF Dojo!Scan, Dojo!Page, Dojo!LastPage, Dojo!server
<1>2. /\ wm \in Int /\ cap \in Int /\ present \subseteq 1 .. N
      /\ offset \in Nat /\ size \in Nat
      /\ mod \in [1 .. N -> Nat] /\ landed \in [1 .. N -> Nat]
      /\ \A i \in 1 .. N : landed[i] <= mod[i]
      /\ wm' \in Int /\ landed' \in [1 .. N -> Nat]
  <2>1. wm' \in Int /\ landed' \in [1 .. N -> Nat]
    BY DEF DojoInv, Dojo!TypeOK, Dojo!Ids
  <2> QED
    BY <2>1, DojoFacts
<1>3. \A i \in 1 .. N : landed'[i] = landed[i] \/ (i \in present /\ landed'[i] = mod[i])
  BY <1>1, DojoPageLands DEF Dojo!Ids
<1>4. ASSUME NEW i \in present, mod[i] > wm, ~ (mod[i] > wm') PROVE landed'[i] = mod[i]
  <2>1. Dojo!LastPage
    BY <1>1, <1>4 DEF Dojo!Scan, Dojo!Page
  <2>2. wm' <= cap /\ Cardinality(present) <= offset + size
    BY <2>1, <1>2, <1>4, DojoCounts DEF Dojo!LastPage, Dojo!Smaller
  <2>3. Above(i) \in Nat /\ Above(i) < offset + size
    BY <2>2, <1>2, DojoRanks
  <2>4. CASE Above(i) < offset
    <3>1. landed[i] = mod[i]
      BY <1>1, <1>2, <1>4, <2>2, <2>4 DEF DojoInv, DojoPagesOK
    <3> QED
      BY <3>1, <1>2, <1>3
  <2>5. CASE ~ Above(i) < offset
    BY <1>1, <1>2, <1>4, <2>3, <2>5, DojoPageLands
  <2> QED
    BY <2>4, <2>5
<1> DEFINE content == [i \in 1 .. N |-> IF i \in present THEN mod[i] ELSE 0]
<1>5. \A i \in 1 .. N : landed'[i] = landed[i] \/ (landed[i] < landed'[i] /\ landed'[i] <= content[i])
  BY <1>2, <1>3
<1>6. \A i \in {j \in present : mod[j] > wm} \ {j \in present' : mod'[j] > wm'} :
        landed'[i] = content[i]
  BY <1>1, <1>2, <1>4
<1>7. content' = content
  BY <1>1
<1>8. {j \in present' : mod'[j] > wm'} \subseteq 1 .. N
  BY <1>1, <1>2
<1> QED
  BY <1>2, <1>5, <1>6, <1>7, <1>8
  DEF Dojo!Promise!Ingest, Dojo!Promise!Forward, Dojo!Promise!Settled, Dojo!Ids

LEMMA DojoStep ==
  ASSUME DojoSizes, DojoInv, DojoInv', [Dojo!Next]_(Dojo!vars)
  PROVE  [Dojo!Promise!Next]_(Dojo!Promise!vars)
<1> USE DEF Dojo!Promise!Next
<1>1. CASE Dojo!Create
  <2>1. newest + 1 \in 1 .. N
    BY <1>1 DEF Dojo!Create, DojoInv, Dojo!TypeOK, DojoSizes
  <2> QED
    BY <1>1, <2>1, DojoChanges DEF Dojo!Create, Dojo!Touch
<1>2. CASE Dojo!Modify
  <2>1. PICK i \in present : mod' = [mod EXCEPT ![i] = clock + 1]
    BY <1>2 DEF Dojo!Modify, Dojo!Touch
  <2>2. i \in 1 .. N /\ present' = present \cup {i} /\ UNCHANGED <<landed, wm>>
    BY <1>2 DEF Dojo!Modify, DojoInv, Dojo!TypeOK, Dojo!Ids
  <2> QED
    BY <2>1, <2>2, DojoChanges
<1>3. CASE Dojo!Delete
  <2>1. PICK i \in present : present' = present \ {i}
    BY <1>3 DEF Dojo!Delete
  <2>2. UNCHANGED <<mod, landed, wm>> /\ present \subseteq 1 .. N /\ i \in 1 .. N
    BY <1>3 DEF Dojo!Delete, DojoInv, Dojo!TypeOK, Dojo!Ids
  <2>3. [j \in 1 .. N |-> IF j \in present' THEN mod'[j] ELSE 0]
        = [[j \in 1 .. N |-> IF j \in present THEN mod[j] ELSE 0] EXCEPT ![i] = 0]
    BY <2>1, <2>2
  <2>4. {j \in present' : mod'[j] > wm'} = {j \in present : mod[j] > wm} \ {i}
    BY <2>1, <2>2
  <2>5. Dojo!Promise!Remove
    BY <2>2, <2>3, <2>4 DEF Dojo!Promise!Remove, Dojo!Promise!table, Dojo!Ids
  <2> QED
    BY <2>5
<1>4. CASE Dojo!Pass \/ Dojo!Begin \/ Dojo!Timeout \/ Dojo!GiveUp \/ UNCHANGED Dojo!vars
  <2>1. UNCHANGED <<present, mod, landed, wm>>
    BY <1>4 DEF Dojo!Pass, Dojo!Begin, Dojo!Timeout, Dojo!GiveUp, Dojo!vars, Dojo!server
  <2> QED
    BY <2>1 DEF Dojo!Promise!vars, Dojo!Promise!table
<1>5. CASE Dojo!Scan
  BY <1>5, DojoIngests
<1> QED
  BY <1>1, <1>2, <1>3, <1>4, <1>5 DEF Dojo!Next

\* The DefectDojo connector keeps the promise of a source: the watermark passes
\* no finding that is not landed as it is, however findings are created, changed
\* and deleted and however its pages are cut, while what its cap vouches for is
\* not disturbed under the scan (sources/defectdojo.py, fetch; the cap is what
\* _capped_watermark of common/run.py lets it vouch for).
THEOREM DojoKeepsPromise ==
  ASSUME DojoSizes PROVE Dojo!Spec /\ DojoUndisturbed => Dojo!KeepsPromise
<1>1. Dojo!Init => DojoInv /\ Dojo!Promise!Init
  BY DojoInit
<1>2. DojoInv /\ [Dojo!Next]_(Dojo!vars) /\ [DojoKeepsItsPlace]_(Dojo!vars) => DojoInv'
  BY DojoInvStep
<1>3. DojoInv /\ DojoInv' /\ [Dojo!Next]_(Dojo!vars) => [Dojo!Promise!Next]_(Dojo!Promise!vars)
  BY DojoStep
<1> QED
  BY <1>1, <1>2, <1>3, PTL
  DEF Dojo!Spec, DojoUndisturbed, Dojo!KeepsPromise, Dojo!Promise!Spec

\* It is enough that no finding is deleted under a scan and that the worker's
\* clock leads the server's by no more than the skew: the cap is in the past when
\* the scan begins, and a new finding goes to the front.
THEOREM DojoSkewIsEnough ==
  ASSUME DojoSizes, DeleteUnderScan = FALSE, Lead <= Skew
  PROVE  Dojo!Spec => DojoUndisturbed
<1> DEFINE I == /\ Dojo!TypeOK /\ present \subseteq 1 .. newest
                /\ pc = "page" => cap <= clock
<1>1. Dojo!Init => I
  BY DojoTypeInit DEF Dojo!Init, DojoSizes
<1>2. I /\ [Dojo!Next]_(Dojo!vars) => I'
  <2> SUFFICES ASSUME I, [Dojo!Next]_(Dojo!vars) PROVE I'
    OBVIOUS
  <2>1. Dojo!TypeOK'
    BY DojoTypeStep
  <2>t. clock \in Nat /\ newest \in Nat /\ Lead \in Nat /\ Skew \in Nat /\ cap \in Int
    BY DEF Dojo!TypeOK, DojoSizes
  <2>2. \/ newest' = newest /\ present' \subseteq present
        \/ newest' = newest + 1 /\ present' = present \cup {newest + 1}
    BY DEF Dojo!Next, Dojo!Create, Dojo!Modify, Dojo!Delete, Dojo!Pass, Dojo!Begin,
       Dojo!Timeout, Dojo!GiveUp, Dojo!Scan, Dojo!Page, Dojo!LastPage, Dojo!vars, Dojo!server
  <2>3. pc' = "page" =>
          \/ pc = "page" /\ cap' = cap /\ clock' \in {clock, clock + 1}
          \/ cap' = clock + Lead - Skew /\ clock' = clock
    BY DEF Dojo!Next, Dojo!Create, Dojo!Touch, Dojo!Modify, Dojo!Delete, Dojo!Pass, Dojo!Begin,
       Dojo!Cap, Dojo!Timeout, Dojo!GiveUp, Dojo!Scan, Dojo!Page, Dojo!LastPage, Dojo!vars,
       Dojo!server, Dojo!run
  <2>4. present' \subseteq 1 .. newest'
    <3>1. \A k \in present : k \in 1 .. newest
      OBVIOUS
    <3>2. CASE newest' = newest /\ present' \subseteq present
      BY <3>1, <3>2
    <3>3. CASE newest' = newest + 1 /\ present' = present \cup {newest + 1}
      <4>1. \A k \in 1 .. newest : k \in 1 .. newest + 1
        BY <2>t
      <4>2. newest + 1 \in 1 .. newest + 1
        BY <2>t
      <4> QED
        BY ONLY <3>1, <3>3, <4>1, <4>2
    <3> QED
      BY <2>2, <3>2, <3>3
  <2> QED
    BY <2>1, <2>3, <2>4, <2>t
<1>3. I /\ [Dojo!Next]_(Dojo!vars) => [DojoKeepsItsPlace]_(Dojo!vars)
  <2> SUFFICES ASSUME I, Dojo!Next, pc = "page", NEW i \in present', mod'[i] <= cap
               PROVE  mod'[i] = mod[i] /\ (Above(i)' < offset => Above(i) < offset)
    BY DEF DojoKeepsItsPlace
  <2>t. /\ clock \in Nat /\ newest \in 0 .. N /\ cap \in Int /\ cap <= clock /\ offset \in Nat
        /\ present \subseteq 1 .. N /\ mod \in [1 .. N -> Nat] /\ N \in Nat
    BY DEF Dojo!TypeOK, Dojo!Ids, DojoSizes
  <2>1. ~ Dojo!Delete
    BY DEF Dojo!Delete
  <2>2. \/ present' = present /\ mod' = mod
        \/ present' = present /\ \E k \in present : mod' = [mod EXCEPT ![k] = clock + 1]
        \/ /\ newest + 1 \in 1 .. N /\ present' = present \cup {newest + 1}
           /\ mod' = [mod EXCEPT ![newest + 1] = clock + 1]
    BY <2>1, <2>t DEF Dojo!Next, Dojo!Create, Dojo!Touch, Dojo!Modify, Dojo!Pass, Dojo!Begin,
       Dojo!Timeout, Dojo!GiveUp, Dojo!Scan, Dojo!Page, Dojo!LastPage, Dojo!server
  <2>3. i \in 1 .. N /\ present \subseteq present' /\ present' \subseteq 1 .. N
    BY <2>2, <2>t
  <2>5. mod'[i] = mod[i]
    <3>1. ASSUME NEW k \in 1 .. N, mod' = [mod EXCEPT ![k] = clock + 1] PROVE k # i
      BY <2>t, <2>3, <3>1
    <3> QED
      BY <2>2, <2>t, <2>3, <3>1
  <2>4. /\ Above(i) \in Nat /\ Above(i)' \in Nat /\ Above(i) <= Above(i)'
    <3> DEFINE T == {j \in present : j > i}  S == {j \in present' : j > i}
    <3>1. T \in SUBSET S /\ S \in SUBSET (1 .. N)
      BY <2>3
    <3>2. Cardinality(T) \in Nat /\ Cardinality(S) \in Nat /\ Cardinality(T) <= Cardinality(S)
      BY <3>1, <2>t, Fewer
    <3> QED
      BY <3>2 DEF Above
  <2> QED
    BY <2>4, <2>5, <2>t
<1> QED
  BY <1>1, <1>2, <1>3, PTL DEF Dojo!Spec, DojoUndisturbed

----------------------------------------------------------------------------
(* CortexScan.  While what changes under a scan is stamped past its pin,   *)
(* as it is on a host that does not lead the vendor's clock, the window    *)
(* only ever loses records.  While its total is that of the page before,   *)
(* it is the same window, and its first rows have landed; when it is less, *)
(* nothing more is read, and what is below the highest mark has landed.    *)
(* A reply without a total leaves two gaps, before it and after it, which  *)
(* nothing may leave the window through.                                   *)

CortexSizes ==
  /\ N \in Nat \ {0} /\ PageSize \in Nat \ {0} /\ Grain \in Nat \ {0} /\ Lead \in Nat
  /\ MaxClock \in Nat /\ MaxStops \in Nat /\ Silent \in BOOLEAN

\* A record that changes under a scan leaves its window.
CortexPastThePin ==
  pc = "scan" => \A i \in 1 .. N : mod'[i] # mod[i] => mod'[i] > pin
CortexStampedPast == [][CortexPastThePin]_(Cortex!vars)

CortexCount == Cardinality(Cortex!Window)

CortexRank(i) == Cardinality({j \in Cortex!Window :
                                mod[j] < mod[i] \/ (mod[j] = mod[i] /\ j < i)})

\* No record leaves the window where no two totals are compared: behind a page
\* that gave none, or in front of one.
CortexAllSeen ==
  pc = "scan" =>
    /\ total = 0 /\ frm > 0 => \A i \in Cortex!Window : mod'[i] = mod[i]
    /\ total > 0 /\ total' = 0 => CortexCount = total
CortexNothingUnseen == [][CortexAllSeen]_(Cortex!vars)

LEMMA CortexCounts == \A S : Cortex!Cardinality(S) = Cardinality(S)
  BY DEF Cortex!Cardinality, Cardinality, IsFiniteSet, Cortex!IsFiniteSet

CortexTypes ==
  /\ clock \in Nat /\ mod \in [1 .. N -> Nat] /\ landed \in [1 .. N -> Nat]
  /\ wm \in Nat /\ since \in Nat /\ pin \in Nat /\ frm \in Nat /\ total \in Nat /\ high \in Nat

CortexTimesOK ==
  /\ \A i \in 1 .. N : landed[i] <= mod[i] /\ mod[i] <= clock
  /\ wm <= clock
  /\ pc = "scan" => since = Cortex!FloorToSecond(wm) /\ high <= pin /\ high <= clock

CortexRowsOK ==
  pc = "scan" =>
    /\ total = 0 \/ CortexCount <= total
    /\ \A i \in Cortex!Window : mod[i] < high => landed[i] = mod[i]
    /\ total = 0 \/ CortexCount = total =>
         \A i \in Cortex!Window : CortexRank(i) < frm => landed[i] = mod[i]

CortexInv == CortexTypes /\ CortexTimesOK /\ CortexRowsOK

LEMMA Floor ==
  ASSUME CortexSizes, NEW t \in Nat
  PROVE  Cortex!FloorToSecond(t) \in Nat /\ Cortex!FloorToSecond(t) <= t
<1>1. /\ t % Grain \in Nat /\ t \div Grain \in Int
      /\ t = Grain * (t \div Grain) + (t % Grain) /\ t % Grain < Grain
  BY DEF CortexSizes
<1>2. t \div Grain >= 0
  BY <1>1 DEF CortexSizes
<1>3. Grain * (t \div Grain) \in Nat
  BY <1>1, <1>2 DEF CortexSizes
<1>4. t - (t % Grain) \in Nat /\ t - (t % Grain) <= t
  BY <1>1, <1>3
<1> QED
  BY <1>4 DEF Cortex!FloorToSecond

\* A whole number of pages, and one more.
LEMMA WholePages ==
  ASSUME NEW p \in Nat \ {0}, NEW f \in Nat, f % p = 0
  PROVE  (f + p) % p = 0
<1>1. f = p * (f \div p) /\ f \div p \in Int
  OBVIOUS
<1> DEFINE g == f + p  r == g % p  d == (f \div p) + 1 - (g \div p)
<1>2. g = p * (g \div p) + r /\ g \div p \in Int /\ r \in Int /\ 0 <= r /\ r < p
  OBVIOUS
<1>3. d \in Int /\ r = p * d
  BY <1>1, <1>2
<1> HIDE DEF g, r, d
<1>4. ~ d >= 1
  <2>1. d >= 1 => p * d >= p
    BY <1>3
  <2> QED
    BY <1>2, <1>3, <2>1
<1>5. ~ d <= -1
  <2>1. d <= -1 => p * d < 0
    BY <1>3
  <2> QED
    BY <1>2, <1>3, <2>1
<1>6. d = 0
  BY <1>3, <1>4, <1>5
<1>7. r = 0
  BY <1>3, <1>6
<1> QED
  BY <1>7 DEF g, r

CortexNumbers ==
  /\ CortexTypes /\ pc \in {"idle", "scan"} /\ frm % PageSize = 0 /\ total \in 0 .. N
  /\ stops \in Nat

LEMMA CortexTypesAre ==
  ASSUME CortexSizes PROVE Cortex!TypeOK <=> CortexNumbers /\ partial \in BOOLEAN
<1>1. total \in 0 .. N => total \in Nat
  BY DEF CortexSizes
<1> QED
  BY <1>1, Zenon DEF Cortex!TypeOK, CortexNumbers, CortexTypes, Cortex!Records

LEMMA CortexNumbersInit == ASSUME CortexSizes PROVE Cortex!Init => CortexNumbers
<1>1. 0 % PageSize = 0
  BY DEF CortexSizes
<1> QED
  BY <1>1 DEF Cortex!Init, CortexNumbers, CortexTypes, CortexSizes, Cortex!Records

LEMMA CortexNumbersStep ==
  ASSUME CortexSizes
  PROVE  CortexNumbers /\ [Cortex!Next]_(Cortex!vars) => CortexNumbers'
<1> SUFFICES ASSUME CortexNumbers, [Cortex!Next]_(Cortex!vars) PROVE CortexNumbers'
  OBVIOUS
<1>t. /\ clock \in Nat /\ mod \in [1 .. N -> Nat] /\ landed \in [1 .. N -> Nat]
      /\ wm \in Nat /\ since \in Nat /\ pin \in Nat /\ frm \in Nat /\ total \in Nat /\ high \in Nat
      /\ pc \in {"idle", "scan"} /\ frm % PageSize = 0 /\ total \in 0 .. N /\ stops \in Nat
      /\ N \in Nat /\ PageSize \in Nat \ {0} /\ Lead \in Nat
  BY DEF CortexNumbers, CortexTypes, CortexSizes
<1> USE DEF CortexNumbers, CortexTypes
<1>1. CASE Cortex!Modify
  <2>1. mod' \in [1 .. N -> Nat] /\ clock' \in Nat
    BY <1>1, <1>t DEF Cortex!Modify, Cortex!Records
  <2> QED
    BY <1>1, <2>1 DEF Cortex!Modify
<1>2. CASE Cortex!Begin
  <2>1. since' \in Nat /\ pin' \in Nat
    BY <1>2, <1>t, Floor DEF Cortex!Begin, Cortex!Since
  <2>2. 0 % PageSize = 0
    BY <1>t
  <2>3. /\ UNCHANGED <<clock, mod, landed, wm, stops>> /\ frm' = 0 /\ total' = 0 /\ high' = 0
        /\ pc' = "scan"
    BY <1>2 DEF Cortex!Begin, Cortex!vendor
  <2> QED
    BY <1>t, <2>1, <2>2, <2>3
<1>3. CASE Cortex!EmptyPage \/ Cortex!StopAtShrunk \/ Cortex!Stop
  <2>1. /\ UNCHANGED <<clock, mod, landed, since, pin, frm, total, high>>
        /\ pc' = "idle" /\ wm' \in {wm, high}
        /\ stops' = stops \/ stops' = stops + 1
    BY <1>3 DEF Cortex!EmptyPage, Cortex!StopAtShrunk, Cortex!Stop, Cortex!Close, Cortex!vendor
  <2> QED
    BY <1>t, <2>1
<1>4. CASE Cortex!Page
  <2>1. /\ UNCHANGED <<clock, mod, since, pin, stops>>
        /\ landed' = [i \in 1 .. N |-> IF i \in Cortex!Rows THEN mod[i] ELSE landed[i]]
        /\ high' \in {mod[i] : i \in Cortex!Rows} /\ total' \in {0, Cardinality(Cortex!Window)}
    BY <1>4, CortexCounts DEF Cortex!Page, Cortex!TotalsGiven, CortexSizes, Cortex!vendor,
                              Cortex!Records
  <2>2. Cortex!Window \in SUBSET (1 .. N) /\ Cortex!Rows \subseteq 1 .. N
    BY DEF Cortex!Rows, Cortex!Window, Cortex!Records
  <2>3. total' \in 0 .. N
    <3>1. Cardinality(1 .. N) = N
      BY <1>t, FS_Interval
    <3>2. Cardinality(Cortex!Window) \in Nat /\ Cardinality(Cortex!Window) <= Cardinality(1 .. N)
      BY <1>t, <2>2, Fewer
    <3> QED
      BY <1>t, <2>1, <3>1, <3>2
  <2>4. landed' \in [1 .. N -> Nat] /\ high' \in Nat
    BY <1>t, <2>1, <2>2
  <2>5. (frm + PageSize) % PageSize = 0
    <3>1. frm \in Nat /\ PageSize \in Nat \ {0} /\ frm % PageSize = 0
      BY <1>t
    <3> QED
      BY ONLY <3>1, WholePages
  <2>6. \/ pc' = "idle" /\ frm' = frm /\ wm' = IF high' = 0 THEN wm ELSE high'
        \/ pc' = pc /\ frm' = frm + PageSize /\ wm' = wm
    BY <1>4 DEF Cortex!Page, Cortex!Close, Cortex!NextOffset
  <2>7. /\ frm' \in Nat /\ frm' % PageSize = 0 /\ wm' \in Nat /\ pc' \in {"idle", "scan"}
        /\ total' \in Nat
    <3>1. frm + PageSize \in Nat
      BY <1>t
    <3> QED
      BY <1>t, <2>3, <2>4, <2>5, <2>6, <3>1
  <2>8. CortexTypes'
    BY <1>t, <2>1, <2>4, <2>7
  <2> QED
    BY <1>t, <2>1, <2>3, <2>7, <2>8
<1>5. CASE UNCHANGED Cortex!vars
  BY <1>5 DEF Cortex!vars, Cortex!vendor
<1> QED
  BY <1>1, <1>2, <1>3, <1>4, <1>5 DEF Cortex!Next, Cortex!Scan

LEMMA CortexNoteStep ==
  partial \in BOOLEAN /\ [Cortex!Next]_(Cortex!vars) => partial' \in BOOLEAN
<1> SUFFICES ASSUME partial \in BOOLEAN, [Cortex!Next]_(Cortex!vars) PROVE partial' \in BOOLEAN
  OBVIOUS
<1>1. partial' = TRUE \/ partial' = FALSE \/ partial' = partial
  BY Zenon DEF Cortex!Next, Cortex!vars, Cortex!Modify, Cortex!Begin, Cortex!Scan,
               Cortex!EmptyPage, Cortex!StopAtShrunk, Cortex!Page, Cortex!Stop, Cortex!Close
<1> QED
  BY <1>1, Zenon

\* The variables have their types, and an offset is a whole number of pages
\* however the scan was stopped (sources/xdr.py, sources/xsoar.py, fetch).
THEOREM CortexTypeCorrect == ASSUME CortexSizes PROVE Cortex!Spec => []Cortex!TypeOK
<1>1. Cortex!Init => CortexNumbers
  BY CortexNumbersInit
<1>2. Cortex!Init => partial \in BOOLEAN
  BY Zenon DEF Cortex!Init
<1>3. CortexNumbers /\ [Cortex!Next]_(Cortex!vars) => CortexNumbers'
  BY CortexNumbersStep
<1>4. partial \in BOOLEAN /\ [Cortex!Next]_(Cortex!vars) => (partial \in BOOLEAN)'
  BY CortexNoteStep
<1>5. CortexNumbers /\ partial \in BOOLEAN => Cortex!TypeOK
  BY CortexTypesAre
<1> QED
  BY <1>1, <1>2, <1>3, <1>4, <1>5, PTL DEF Cortex!Spec

LEMMA CortexRanks ==
  ASSUME CortexSizes, CortexInv
  PROVE  /\ CortexCount \in Nat /\ Cortex!Window \subseteq 1 .. N
         /\ \A i \in Cortex!Window : CortexRank(i) \in Nat
         /\ \A i, k \in Cortex!Window : mod[i] < mod[k] => CortexRank(i) <= CortexRank(k)
<1> DEFINE Before(i) == {j \in Cortex!Window : mod[j] < mod[i] \/ (mod[j] = mod[i] /\ j < i)}
<1>1. Cortex!Window \subseteq 1 .. N /\ N \in Nat
  BY DEF Cortex!Window, Cortex!Records, CortexSizes
<1>2. \A i : Before(i) \in SUBSET (1 .. N)
  BY <1>1
<1>3. ASSUME NEW i \in Cortex!Window PROVE CortexRank(i) \in Nat
  BY <1>1, <1>2, Fewer DEF CortexRank
<1>4. ASSUME NEW i \in Cortex!Window, NEW k \in Cortex!Window, mod[i] < mod[k]
      PROVE  CortexRank(i) <= CortexRank(k)
  <2>1. \A j \in Cortex!Window : mod[j] \in Nat
    BY <1>1 DEF CortexInv, CortexTypes
  <2>2. \A j \in Cortex!Window : mod[j] < mod[i] \/ mod[j] = mod[i] => mod[j] < mod[k]
    BY <1>4, <2>1
  <2>3. Before(i) \in SUBSET Before(k)
    BY <2>2
  <2> QED
    BY <1>1, <1>2, <2>3, Fewer DEF CortexRank
<1>5. CortexCount \in Nat
  BY <1>1, Fewer DEF CortexCount
<1> QED
  BY <1>1, <1>3, <1>4, <1>5

\* A page that is not behind a shrunk window lands all of the window up to its
\* last row.
LEMMA CortexPageLands ==
  ASSUME CortexSizes, CortexInv, Cortex!Page, CortexAllSeen
  PROVE  /\ \A i \in 1 .. N : landed'[i] = landed[i] \/ landed'[i] = mod[i]
         /\ \A i \in Cortex!Window : CortexRank(i) < frm + PageSize => landed'[i] = mod[i]
         /\ \A i \in Cortex!Window : mod[i] < high' => landed'[i] = mod[i]
         /\ high' \in Nat /\ high' <= pin /\ high' <= clock
<1>1. /\ pc = "scan" /\ ~ (total > 0 /\ total' > 0 /\ total' < total)
      /\ total' \in {0, CortexCount}
      /\ landed' = [i \in 1 .. N |-> IF i \in Cortex!Rows THEN mod[i] ELSE landed[i]]
      /\ high' \in {mod[i] : i \in Cortex!Rows}
  BY CortexCounts DEF Cortex!Page, Cortex!WindowShrank, Cortex!TotalsGiven, Cortex!Records,
                      CortexSizes, CortexCount
<1>2. Cortex!Rows = {i \in Cortex!Window : frm <= CortexRank(i) /\ CortexRank(i) < frm + PageSize}
  BY CortexCounts DEF Cortex!Rows, Cortex!Rank, CortexRank
<1>3. /\ Cortex!Window \subseteq 1 .. N /\ CortexCount \in Nat
      /\ \A i \in Cortex!Window : CortexRank(i) \in Nat /\ mod[i] \in Nat /\ mod[i] <= pin
      /\ \A i \in 1 .. N : mod[i] <= clock
      /\ \A i, k \in Cortex!Window : mod[i] < mod[k] => CortexRank(i) <= CortexRank(k)
      /\ total \in Nat /\ frm \in Nat /\ PageSize \in Nat
  BY CortexRanks DEF CortexInv, CortexTypes, CortexTimesOK, Cortex!Window, CortexSizes
<1>4. \A i \in 1 .. N : landed'[i] = landed[i] \/ landed'[i] = mod[i]
  BY <1>1
<1>5. ASSUME NEW i \in Cortex!Window, CortexRank(i) < frm + PageSize PROVE landed'[i] = mod[i]
  <2>1. CASE CortexRank(i) < frm
    <3>1. total = 0 \/ CortexCount = total
      BY <1>1, <1>3 DEF CortexInv, CortexRowsOK, CortexAllSeen
    <3>2. landed[i] = mod[i]
      BY <1>1, <2>1, <3>1 DEF CortexInv, CortexRowsOK
    <3> QED
      BY <1>3, <1>4, <3>2
  <2>2. CASE ~ CortexRank(i) < frm
    BY <1>1, <1>2, <1>3, <1>5, <2>2
  <2> QED
    BY <2>1, <2>2
<1>6. PICK k \in Cortex!Window : high' = mod[k] /\ CortexRank(k) < frm + PageSize
  BY <1>1, <1>2
<1>7. \A i \in Cortex!Window : mod[i] < high' => landed'[i] = mod[i]
  BY <1>3, <1>5, <1>6
<1> QED
  BY <1>3, <1>4, <1>5, <1>6, <1>7

\* Records that change leave the window, and what stays in it is as it was.
LEMMA CortexModifies ==
  ASSUME CortexSizes, CortexInv, Cortex!Modify, pc = "scan", CortexPastThePin, CortexAllSeen
  PROVE  CortexRowsOK'
<1>1. PICK S \in SUBSET (1 .. N) : mod' = [i \in 1 .. N |-> IF i \in S THEN clock + 1 ELSE mod[i]]
  BY DEF Cortex!Modify, Cortex!Records
<1>2. UNCHANGED <<landed, since, pin, frm, total, high, pc>>
  BY DEF Cortex!Modify
<1>3. /\ pin \in Nat /\ total \in Nat /\ mod \in [1 .. N -> Nat] /\ N \in Nat
      /\ clock + 1 \in Nat /\ \A i \in S : clock + 1 > pin
  <2>1. /\ clock \in Nat /\ pin \in Nat /\ total \in Nat /\ mod \in [1 .. N -> Nat] /\ N \in Nat
        /\ \A i \in 1 .. N : mod[i] <= clock
    BY DEF CortexInv, CortexTypes, CortexTimesOK, CortexSizes
  <2>2. \A i \in S : mod'[i] = clock + 1 /\ mod'[i] # mod[i]
    BY <1>1, <2>1
  <2> QED
    BY <2>1, <2>2 DEF CortexPastThePin
<1>4. Cortex!Window' = Cortex!Window \ S
  BY <1>1, <1>2, <1>3 DEF Cortex!Window, Cortex!Records
<1>5. \A i \in Cortex!Window' : i \in Cortex!Window /\ mod'[i] = mod[i]
  BY <1>1, <1>4 DEF Cortex!Window, Cortex!Records
<1>6. /\ CortexCount \in Nat /\ CortexCount' \in Nat /\ CortexCount' <= CortexCount
      /\ CortexCount' = CortexCount => Cortex!Window' = Cortex!Window
  <2>1. Cortex!Window \in SUBSET (1 .. N) /\ Cortex!Window' \in SUBSET Cortex!Window
    BY <1>4, CortexRanks
  <2> QED
    BY <1>3, <2>1, Fewer DEF CortexCount
<1>7. total' = 0 \/ CortexCount' <= total'
  BY <1>2, <1>3, <1>6 DEF CortexInv, CortexRowsOK
<1>8. \A i \in Cortex!Window' : mod'[i] < high' => landed'[i] = mod'[i]
  BY <1>2, <1>5 DEF CortexInv, CortexRowsOK
<1>9. ASSUME total' = 0 \/ CortexCount' = total', NEW i \in Cortex!Window', CortexRank(i)' < frm'
      PROVE  landed'[i] = mod'[i]
  <2>1. (total = 0 \/ CortexCount = total) /\ Cortex!Window' = Cortex!Window
    <3>1. CASE total = 0
      <4>1. frm \in Nat /\ CortexRank(i)' \in Nat
        <5>1. {j \in Cortex!Window' : mod'[j] < mod'[i] \/ (mod'[j] = mod'[i] /\ j < i)}
              \in SUBSET (1 .. N)
          BY <1>4, CortexRanks
        <5> QED
          BY <1>3, <5>1, Fewer DEF CortexRank, CortexInv, CortexTypes
      <4>2. \A j \in Cortex!Window : mod'[j] = mod[j]
        BY <1>2, <1>9, <3>1, <4>1 DEF CortexAllSeen
      <4>3. \A j \in Cortex!Window : j \notin S
        <5> SUFFICES ASSUME NEW j \in Cortex!Window, j \in S PROVE FALSE
          OBVIOUS
        <5>1. mod[j] \in Nat /\ mod[j] <= pin /\ mod'[j] = clock + 1
          BY <1>1, <1>3 DEF Cortex!Window, Cortex!Records
        <5> QED
          BY <1>3, <4>2, <5>1
      <4> QED
        BY <1>4, <3>1, <4>3
    <3>2. CASE total # 0
      BY <1>2, <1>3, <1>6, <1>9, <3>2 DEF CortexInv, CortexRowsOK
    <3> QED
      BY <3>1, <3>2
  <2>2. CortexRank(i)' = CortexRank(i)
    BY <1>5, <2>1 DEF CortexRank
  <2> QED
    BY <1>2, <1>5, <1>9, <2>1, <2>2 DEF CortexInv, CortexRowsOK
<1> QED
  BY <1>7, <1>8, <1>9 DEF CortexRowsOK

LEMMA CortexInvStep ==
  ASSUME CortexSizes
  PROVE  CortexInv /\ [Cortex!Next]_(Cortex!vars) /\ [CortexPastThePin]_(Cortex!vars)
         /\ [CortexAllSeen]_(Cortex!vars) => CortexInv'
<1> SUFFICES ASSUME CortexInv, [Cortex!Next]_(Cortex!vars), [CortexPastThePin]_(Cortex!vars),
                    [CortexAllSeen]_(Cortex!vars)
             PROVE  CortexInv'
  OBVIOUS
<1>t. CortexTypes /\ N \in Nat /\ PageSize \in Nat
  BY DEF CortexInv, CortexSizes
<1>i. /\ \A i \in 1 .. N : landed[i] <= mod[i] /\ mod[i] <= clock
      /\ wm <= clock
      /\ pc = "scan" => since = Cortex!FloorToSecond(wm) /\ high <= pin /\ high <= clock
  BY DEF CortexInv, CortexTimesOK
<1>1. CASE Cortex!Modify
  <2>1. PICK S \in SUBSET (1 .. N) : mod' = [i \in 1 .. N |-> IF i \in S THEN clock + 1 ELSE mod[i]]
    BY <1>1 DEF Cortex!Modify, Cortex!Records
  <2>2. clock' = clock + 1 /\ UNCHANGED <<landed, wm, since, pin, frm, total, high, pc>>
    BY <1>1 DEF Cortex!Modify
  <2>3. CortexTypes'
    BY <1>t, <2>1, <2>2 DEF CortexTypes
  <2>4. \A i \in 1 .. N : landed'[i] <= mod'[i] /\ mod'[i] <= clock'
    BY <1>t, <1>i, <2>1, <2>2 DEF CortexTypes
  <2>5. CortexTimesOK'
    BY <1>t, <1>i, <2>2, <2>4 DEF CortexTypes, CortexTimesOK, Cortex!FloorToSecond
  <2>6. CortexRowsOK'
    <3>1. CortexPastThePin /\ CortexAllSeen
      BY <1>t, <2>2 DEF Cortex!vars, Cortex!vendor, CortexTypes
    <3> QED
      BY <1>1, <2>2, <3>1, CortexModifies DEF CortexRowsOK
  <2> QED
    BY <2>3, <2>5, <2>6 DEF CortexInv
<1>2. CASE Cortex!Begin
  <2>1. /\ UNCHANGED <<clock, mod, landed, wm>> /\ since' = Cortex!FloorToSecond(wm)
        /\ pin' = Cortex!FloorToSecond(clock + Lead) /\ frm' = 0 /\ total' = 0 /\ high' = 0
    BY <1>2 DEF Cortex!Begin, Cortex!Since, Cortex!vendor
  <2>2. since' \in Nat /\ pin' \in Nat
    <3>1. wm \in Nat /\ clock + Lead \in Nat
      BY <1>t DEF CortexTypes, CortexSizes
    <3> QED
      BY <2>1, <3>1, Floor
  <2>3. CortexTypes'
    BY <1>t, <2>1, <2>2 DEF CortexTypes
  <2>4. CortexTimesOK'
    BY <1>t, <1>i, <2>1, <2>2 DEF CortexTypes, CortexTimesOK, Cortex!FloorToSecond
  <2>5. \A i \in Cortex!Window' : mod'[i] \in Nat
    BY <2>3 DEF CortexTypes, Cortex!Window, Cortex!Records
  <2>6. \A i \in Cortex!Window' : CortexRank(i)' \in Nat
    <3> TAKE i \in Cortex!Window'
    <3>1. Cortex!Window' \in SUBSET (1 .. N)
      BY DEF Cortex!Window, Cortex!Records
    <3>2. {j \in Cortex!Window' : mod'[j] < mod'[i] \/ (mod'[j] = mod'[i] /\ j < i)}
          \in SUBSET (1 .. N)
      BY <3>1
    <3> QED
      BY <3>2, Fewer DEF CortexRank, CortexSizes
  <2>7. CortexRowsOK'
    BY <2>1, <2>5, <2>6 DEF CortexRowsOK
  <2> QED
    BY <2>3, <2>4, <2>7 DEF CortexInv
<1>3. CASE Cortex!EmptyPage \/ Cortex!StopAtShrunk \/ Cortex!Stop
  <2>1. /\ UNCHANGED <<clock, mod, landed, since, pin, frm, total, high>>
        /\ pc = "scan" /\ pc' = "idle" /\ wm' \in {wm, high}
    BY <1>3 DEF Cortex!EmptyPage, Cortex!StopAtShrunk, Cortex!Stop, Cortex!Close, Cortex!vendor
  <2>2. wm' \in Nat /\ wm' <= clock
    BY <1>t, <1>i, <2>1 DEF CortexTypes
  <2> QED
    BY <1>t, <1>i, <2>1, <2>2 DEF CortexInv, CortexTypes, CortexTimesOK, CortexRowsOK
<1>4. CASE Cortex!Page
  <2>0. CortexAllSeen
    <3>1. wm' # wm \/ pc' # pc \/ frm' # frm
      BY <1>4, <1>t DEF Cortex!Page, Cortex!Close, Cortex!NextOffset, CortexSizes, CortexTypes
    <3> QED
      BY <3>1 DEF Cortex!vars
  <2>1. /\ UNCHANGED <<clock, mod, since, pin>> /\ total' \in {0, CortexCount} /\ pc = "scan"
        /\ high' \in {mod[i] : i \in Cortex!Rows}
        /\ landed' = [i \in 1 .. N |-> IF i \in Cortex!Rows THEN mod[i] ELSE landed[i]]
    BY <1>4, CortexCounts DEF Cortex!Page, Cortex!TotalsGiven, CortexSizes, Cortex!vendor,
                              CortexCount, Cortex!Records
  <2>2. \/ pc' = "idle" /\ frm' = frm /\ wm' = IF high' = 0 THEN wm ELSE high'
        \/ pc' = pc /\ frm' = frm + PageSize /\ wm' = wm
    BY <1>4 DEF Cortex!Page, Cortex!Close, Cortex!NextOffset
  <2>3. /\ high' \in Nat /\ high' <= pin /\ high' <= clock
        /\ \A i \in 1 .. N : landed'[i] = landed[i] \/ landed'[i] = mod[i]
        /\ CortexCount \in Nat
    BY <1>4, <1>i, <2>0, <2>1, CortexPageLands, CortexRanks
  <2>4. CortexTypes'
    <3>1. landed' \in [1 .. N -> Nat]
      BY <1>t, <2>1 DEF CortexTypes
    <3>2. frm' \in Nat /\ wm' \in Nat
      BY <1>t, <2>2, <2>3 DEF CortexTypes
    <3> QED
      BY <1>t, <2>1, <2>3, <3>1, <3>2 DEF CortexTypes
  <2>5. \A i \in 1 .. N : landed'[i] <= mod'[i] /\ mod'[i] <= clock'
    BY <1>t, <1>i, <2>1, <2>3 DEF CortexTypes
  <2>w. Cortex!Window' = Cortex!Window
    BY <2>1 DEF Cortex!Window, Cortex!Records
  <2>6. CortexTimesOK'
    <3>1. wm' <= clock'
      BY <1>t, <1>i, <2>1, <2>2, <2>3 DEF CortexTypes
    <3>2. CASE pc' = "idle"
      BY <2>5, <3>1, <3>2 DEF CortexTimesOK
    <3>3. CASE pc' = pc /\ frm' = frm + PageSize /\ wm' = wm
      BY <1>i, <2>1, <2>3, <2>5, <3>1, <3>3 DEF CortexTimesOK, Cortex!FloorToSecond
    <3> QED
      BY <2>2, <3>2, <3>3
  <2>7. CortexRowsOK'
    <3> SUFFICES ASSUME pc' = "scan" PROVE CortexRowsOK'
      BY DEF CortexRowsOK
    <3>1. frm' = frm + PageSize
      BY <2>2
    <3>2. CortexCount' = CortexCount /\ \A i : CortexRank(i)' = CortexRank(i)
      BY <2>1, <2>w DEF CortexCount, CortexRank
    <3>3. /\ \A i \in Cortex!Window : CortexRank(i) < frm + PageSize => landed'[i] = mod[i]
          /\ \A i \in Cortex!Window : mod[i] < high' => landed'[i] = mod[i]
      BY <1>4, <2>0, CortexPageLands
    <3> QED
      BY <2>1, <2>3, <2>w, <3>1, <3>2, <3>3 DEF CortexRowsOK
  <2> QED
    BY <2>4, <2>6, <2>7 DEF CortexInv
<1>5. CASE UNCHANGED Cortex!vars
  <2>1. UNCHANGED <<clock, mod, landed, wm, pc, since, pin, frm, total, high>>
    BY <1>5 DEF Cortex!vars, Cortex!vendor
  <2>2. Cortex!Window' = Cortex!Window
    BY <2>1 DEF Cortex!Window, Cortex!Records
  <2>3. CortexCount' = CortexCount /\ \A i : CortexRank(i)' = CortexRank(i)
    BY <2>1, <2>2 DEF CortexCount, CortexRank
  <2>4. CortexTypes' /\ CortexTimesOK'
    BY <1>t, <1>i, <2>1 DEF CortexTypes, CortexTimesOK, Cortex!FloorToSecond
  <2>5. CortexRowsOK'
    BY <2>1, <2>2, <2>3 DEF CortexInv, CortexRowsOK
  <2> QED
    BY <2>4, <2>5 DEF CortexInv
<1> QED
  BY <1>1, <1>2, <1>3, <1>4, <1>5 DEF Cortex!Next, Cortex!Scan

LEMMA CortexInit ==
  ASSUME CortexSizes PROVE Cortex!Init => CortexInv /\ Cortex!Promise!Init
<1> SUFFICES ASSUME Cortex!Init PROVE CortexInv /\ Cortex!Promise!Init
  OBVIOUS
<1>1. /\ clock = 1 /\ mod = [i \in 1 .. N |-> 1] /\ landed = [i \in 1 .. N |-> 0]
      /\ wm = 0 /\ pc = "idle" /\ since = 0 /\ pin = 0 /\ frm = 0 /\ total = 0 /\ high = 0
  BY DEF Cortex!Init, Cortex!Records
<1>2. CortexInv
  BY <1>1 DEF CortexInv, CortexTypes, CortexTimesOK, CortexRowsOK
<1>3. Cortex!Since = 0
  BY <1>1, Floor DEF Cortex!Since, CortexSizes
<1>4. {i \in 1 .. N : mod[i] >= Cortex!Since} = {i \in 1 .. N : mod[i] # 0}
  BY <1>1, <1>3
<1>5. Cortex!Promise!Init
  BY <1>1, <1>4 DEF Cortex!Promise!Init, Cortex!Records
<1> QED
  BY <1>2, <1>5

\* Records that are modified are above the watermark, so they are due.
LEMMA CortexChanges ==
  ASSUME CortexSizes, CortexInv, Cortex!Modify
  PROVE  Cortex!Promise!Change
<1>1. PICK S \in SUBSET (1 .. N) : mod' = [i \in 1 .. N |-> IF i \in S THEN clock + 1 ELSE mod[i]]
  BY DEF Cortex!Modify, Cortex!Records
<1>2. UNCHANGED <<landed, wm>>
  BY DEF Cortex!Modify
<1>3. /\ clock \in Nat /\ wm \in Nat /\ wm <= clock /\ mod \in [1 .. N -> Nat]
      /\ \A i \in 1 .. N : mod[i] <= clock
  BY DEF CortexInv, CortexTypes, CortexTimesOK
<1>4. Cortex!Since \in Nat /\ Cortex!Since <= clock /\ Cortex!Since' = Cortex!Since
  BY <1>2, <1>3, Floor DEF Cortex!Since, Cortex!FloorToSecond, CortexSizes
<1>5. {i \in 1 .. N : mod'[i] >= Cortex!Since'} = {i \in 1 .. N : mod[i] >= Cortex!Since} \cup S
  <2>1. \A i \in 1 .. N : mod'[i] >= Cortex!Since' <=> mod[i] >= Cortex!Since \/ i \in S
    <3> SUFFICES ASSUME NEW i \in 1 .. N
                 PROVE  mod'[i] >= Cortex!Since' <=> mod[i] >= Cortex!Since \/ i \in S
      OBVIOUS
    <3>1. mod'[i] = IF i \in S THEN clock + 1 ELSE mod[i]
      BY <1>1
    <3>2. CASE i \in S
      BY <1>3, <1>4, <3>1, <3>2
    <3>3. CASE i \notin S
      BY <1>4, <3>1, <3>3
    <3> QED
      BY <3>2, <3>3
  <2> QED
    BY <2>1
<1>6. mod' \in [1 .. N -> Nat] /\ (\A i \in S : mod'[i] > mod[i])
      /\ (\A i \in (1 .. N) \ S : mod'[i] = mod[i])
  BY <1>1, <1>3
<1> QED
  BY <1>2, <1>5, <1>6 DEF Cortex!Promise!Change, Cortex!Promise!table, Cortex!Records

\* A watermark is written that the landed part of the window vouches for: what
\* is truncated away below it has landed as it is.
LEMMA CortexWrites ==
  ASSUME CortexSizes, CortexInv, CortexInv', pc = "scan", UNCHANGED mod,
         wm' = wm \/ (high' <= pin /\ high' # 0 /\ wm' = high'),
         \A i \in 1 .. N : landed'[i] = landed[i] \/ landed'[i] = mod[i],
         \A i \in Cortex!Window : mod[i] < high' => landed'[i] = mod[i]
  PROVE  Cortex!Promise!Ingest
<1>1. /\ mod \in [1 .. N -> Nat] /\ landed \in [1 .. N -> Nat] /\ landed' \in [1 .. N -> Nat]
      /\ wm \in Nat /\ wm' \in Nat /\ high' \in Nat /\ pin \in Nat
      /\ since = Cortex!FloorToSecond(wm)
      /\ \A i \in 1 .. N : landed[i] <= mod[i]
  BY DEF CortexInv, CortexTypes, CortexTimesOK
<1>2. Cortex!Since \in Nat /\ Cortex!Since = since
  BY <1>1, Floor DEF Cortex!Since, CortexSizes
<1>3. Cortex!Since' \in Nat /\ Cortex!Since' <= wm'
  BY <1>1, Floor DEF Cortex!Since, Cortex!FloorToSecond, CortexSizes
<1>4. ASSUME NEW i \in 1 .. N, mod[i] >= Cortex!Since, ~ (mod[i] >= Cortex!Since')
      PROVE  landed'[i] = mod[i]
  <2>1. wm' # wm
    BY <1>4 DEF Cortex!Since, Cortex!FloorToSecond
  <2>2. wm' = high' /\ high' <= pin
    BY <2>1
  <2>3. mod[i] < high' /\ since <= mod[i] /\ mod[i] <= pin
    BY <1>1, <1>2, <1>3, <1>4, <2>2
  <2> QED
    BY <2>3 DEF Cortex!Window, Cortex!Records
<1>5. \A i \in 1 .. N : landed'[i] = landed[i] \/ (landed[i] < landed'[i] /\ landed'[i] <= mod[i])
  BY <1>1
<1>6. \A i \in {j \in 1 .. N : mod[j] >= Cortex!Since} \ {j \in 1 .. N : mod'[j] >= Cortex!Since'} :
        landed'[i] = mod'[i]
  BY <1>4
<1>7. wm # 0 => wm' # 0
  OBVIOUS
<1> QED
  BY <1>1, <1>5, <1>6, <1>7
  DEF Cortex!Promise!Ingest, Cortex!Promise!Forward, Cortex!Promise!Settled, Cortex!Records

LEMMA CortexStep ==
  ASSUME CortexSizes, CortexInv, CortexInv', [Cortex!Next]_(Cortex!vars),
         [CortexAllSeen]_(Cortex!vars)
  PROVE  [Cortex!Promise!Next]_(Cortex!Promise!vars)
<1> USE DEF Cortex!Promise!Next
<1>1. CASE Cortex!Modify
  BY <1>1, CortexChanges
<1>2. CASE Cortex!Begin \/ UNCHANGED Cortex!vars
  <2>1. UNCHANGED <<mod, landed, wm>>
    BY <1>2 DEF Cortex!Begin, Cortex!vars, Cortex!vendor
  <2> QED
    BY <2>1 DEF Cortex!Promise!vars, Cortex!Promise!table, Cortex!Since, Cortex!FloorToSecond
<1>3. CASE Cortex!EmptyPage \/ Cortex!StopAtShrunk \/ Cortex!Stop
  <2>1. /\ UNCHANGED <<mod, landed, high>> /\ pc = "scan"
        /\ wm' = wm \/ (high # 0 /\ wm' = high)
    BY <1>3 DEF Cortex!EmptyPage, Cortex!StopAtShrunk, Cortex!Stop, Cortex!Close, Cortex!vendor
  <2>2. high <= pin /\ \A i \in Cortex!Window : mod[i] < high => landed[i] = mod[i]
    BY <2>1 DEF CortexInv, CortexTimesOK, CortexRowsOK
  <2>3. Cortex!Promise!Ingest
    BY <2>1, <2>2, CortexWrites
  <2> QED
    BY <2>3
<1>4. CASE Cortex!Page
  <2>1. /\ UNCHANGED mod /\ pc = "scan"
        /\ wm' = wm \/ (high' # 0 /\ wm' = high')
    BY <1>4 DEF Cortex!Page, Cortex!Close, Cortex!vendor
  <2>0. CortexAllSeen
    <3>1. wm' # wm \/ pc' # pc \/ frm' # frm
      BY <1>4 DEF Cortex!Page, Cortex!Close, Cortex!NextOffset, CortexSizes, CortexInv, CortexTypes
    <3> QED
      BY <3>1 DEF Cortex!vars
  <2>2. Cortex!Promise!Ingest
    BY <1>4, <2>0, <2>1, CortexPageLands, CortexWrites
  <2> QED
    BY <2>2
<1> QED
  BY <1>1, <1>2, <1>3, <1>4 DEF Cortex!Next, Cortex!Scan

\* The modification-ordered connectors keep the promise of a source: whatever is
\* modified under the scan, no watermark they write passes a record that is not
\* landed as it is, if what is modified under a scan is stamped past its pin and
\* nothing leaves the window where a reply gave no total to compare
\* (sources/xdr.py, sources/xsoar.py, fetch, with the check of
\* sources/_cortex.py, window_shrank, which makes no claim without two totals).
THEOREM CortexKeepsPromise ==
  ASSUME CortexSizes
  PROVE  Cortex!Spec /\ CortexStampedPast /\ CortexNothingUnseen => Cortex!KeepsPromise
<1>1. Cortex!Init => CortexInv /\ Cortex!Promise!Init
  BY CortexInit
<1>2. CortexInv /\ [Cortex!Next]_(Cortex!vars) /\ [CortexPastThePin]_(Cortex!vars)
      /\ [CortexAllSeen]_(Cortex!vars) => CortexInv'
  BY CortexInvStep
<1>3. CortexInv /\ CortexInv' /\ [Cortex!Next]_(Cortex!vars) /\ [CortexAllSeen]_(Cortex!vars)
      => [Cortex!Promise!Next]_(Cortex!Promise!vars)
  BY CortexStep
<1> QED
  BY <1>1, <1>2, <1>3, PTL
  DEF Cortex!Spec, CortexStampedPast, CortexNothingUnseen, Cortex!KeepsPromise,
      Cortex!Promise!Spec

\* It is enough for the second that every reply carries its total: then every page
\* behind the first has one to be compared with (sources/_cortex.py, window_shrank).
THEOREM CortexTotalsAreEnough ==
  ASSUME CortexSizes, Silent = FALSE PROVE Cortex!Spec => CortexNothingUnseen
<1> DEFINE I == CortexNumbers /\ (pc = "scan" /\ total = 0 => frm = 0)
<1>0. ASSUME CortexNumbers, Cortex!Page PROVE total' # 0 /\ pc = "scan"
  <2>1. /\ Cortex!Rows # {} /\ Cortex!Rows \subseteq Cortex!Window
        /\ total' = Cardinality(Cortex!Window)
    BY <1>0, CortexCounts DEF Cortex!Page, Cortex!Rows, Cortex!TotalsGiven
  <2>2. Cortex!Window \in SUBSET (1 .. N) /\ N \in Nat
    BY DEF Cortex!Window, Cortex!Records, CortexSizes
  <2>3. IsFiniteSet(Cortex!Window) /\ Cortex!Window # {}
    <3>1. IsFiniteSet(Cortex!Window)
      BY <2>2, Fewer
    <3> QED
      BY <2>1, <3>1
  <2> QED
    BY <1>0, <2>1, <2>3, FS_EmptySet DEF Cortex!Page
<1>1. Cortex!Init => I
  BY CortexNumbersInit DEF Cortex!Init
<1>2. I /\ [Cortex!Next]_(Cortex!vars) => I'
  <2> SUFFICES ASSUME I, [Cortex!Next]_(Cortex!vars) PROVE I'
    OBVIOUS
  <2>1. CortexNumbers'
    BY CortexNumbersStep
  <2>2. CASE Cortex!Page
    BY <1>0, <2>1, <2>2
  <2>3. CASE ~ Cortex!Page
    <3>1. frm' = 0 \/ pc' # "scan" \/ (UNCHANGED <<total, frm>> /\ pc = "scan")
      BY <2>3 DEF Cortex!Next, Cortex!Scan, Cortex!Modify, Cortex!Begin, Cortex!EmptyPage,
         Cortex!StopAtShrunk, Cortex!Stop, Cortex!Close, Cortex!vars
    <3> QED
      BY <2>1, <3>1
  <2> QED
    BY <2>2, <2>3
<1>3. I /\ [Cortex!Next]_(Cortex!vars) => [CortexAllSeen]_(Cortex!vars)
  <2> SUFFICES ASSUME I, Cortex!Next, pc = "scan" PROVE CortexAllSeen
    BY DEF CortexAllSeen
  <2>1. ~ (total = 0 /\ frm > 0)
    OBVIOUS
  <2>2. ~ (total > 0 /\ total' = 0)
    <3>1. Cortex!Page \/ total' = total
      BY DEF Cortex!Next, Cortex!Scan, Cortex!Modify, Cortex!Begin, Cortex!EmptyPage,
         Cortex!StopAtShrunk, Cortex!Stop
    <3> QED
      BY <1>0, <3>1
  <2> QED
    BY <2>1, <2>2 DEF CortexAllSeen
<1> QED
  BY <1>1, <1>2, <1>3, PTL DEF Cortex!Spec, CortexNothingUnseen

\* It is enough that the host does not lead the vendor's clock: the pin is in the
\* past when the scan begins.
THEOREM CortexNoLeadIsEnough ==
  ASSUME CortexSizes, Lead = 0 PROVE Cortex!Spec => CortexStampedPast
<1> DEFINE I == CortexNumbers /\ (pc = "scan" => pin <= clock)
<1>1. Cortex!Init => I
  BY CortexNumbersInit DEF Cortex!Init
<1>2. I /\ [Cortex!Next]_(Cortex!vars) => I'
  <2> SUFFICES ASSUME I, [Cortex!Next]_(Cortex!vars) PROVE I'
    OBVIOUS
  <2>1. CortexNumbers'
    BY CortexNumbersStep
  <2>2. clock \in Nat /\ pin \in Nat
    BY DEF CortexNumbers, CortexTypes
  <2>3. pc' = "scan" =>
          \/ pc = "scan" /\ pin' = pin /\ clock' \in {clock, clock + 1}
          \/ pin' = Cortex!FloorToSecond(clock + Lead) /\ clock' = clock
    BY DEF Cortex!Next, Cortex!Scan, Cortex!Modify, Cortex!Begin, Cortex!EmptyPage,
       Cortex!StopAtShrunk, Cortex!Page, Cortex!Stop, Cortex!Close, Cortex!vars, Cortex!vendor
  <2>4. clock + Lead = clock /\ Cortex!FloorToSecond(clock) <= clock
    BY <2>2, Floor DEF CortexSizes
  <2> QED
    BY <2>1, <2>2, <2>3, <2>4
<1>3. I /\ [Cortex!Next]_(Cortex!vars) => [CortexPastThePin]_(Cortex!vars)
  <2> SUFFICES ASSUME I, Cortex!Next, pc = "scan", NEW i \in 1 .. N, mod'[i] # mod[i]
               PROVE  mod'[i] > pin
    BY DEF CortexPastThePin
  <2>1. clock \in Nat /\ pin \in Nat /\ pin <= clock
    BY DEF CortexNumbers, CortexTypes
  <2>2. mod'[i] = clock + 1
    <3>1. mod' = mod \/ \E S \in SUBSET (1 .. N) :
                         mod' = [k \in 1 .. N |-> IF k \in S THEN clock + 1 ELSE mod[k]]
      BY DEF Cortex!Next, Cortex!Scan, Cortex!Modify, Cortex!Begin, Cortex!EmptyPage,
         Cortex!StopAtShrunk, Cortex!Page, Cortex!Stop, Cortex!vendor, Cortex!Records
    <3> QED
      BY <3>1
  <2> QED
    BY <2>1, <2>2
<1> QED
  BY <1>1, <1>2, <1>3, PTL DEF Cortex!Spec, CortexStampedPast

----------------------------------------------------------------------------
(* LagScan.  An alert that a run cannot find is at most Delay old when the *)
(* run begins, and the run is over RunTime later: if the lag covers both,  *)
(* the next window still holds it.  The others keep their places before    *)
(* the rows read so far; late ones only push rows to pages still to come.  *)

LagSizes ==
  /\ N \in Nat \ {0} /\ PageSize \in Nat \ {0} /\ MinPages \in Nat /\ Backfill \in Nat
  /\ Lag \in Nat /\ Delay \in Nat /\ RunTime \in Nat
  /\ MaxClock \in Nat \ {0} /\ MaxFaults \in Nat

LagSettings == LagSizes /\ Delay + RunTime <= Lag

LagMarks == {0} \cup {det[i] : i \in raw}

LagTypes ==
  /\ clock \in Nat \ {0} /\ det \in [1 .. N -> Nat]
  /\ visible \subseteq 1 .. N /\ (\A i \in visible : det[i] # 0) /\ raw \subseteq visible
  /\ wm \in LagMarks /\ high \in LagMarks /\ ceiling \in LagMarks /\ ceiling <= high
  /\ base \in Int /\ since \in Int /\ began \in Nat /\ began <= clock
  /\ read \in Nat /\ frm \in Nat /\ last \in Nat

LagTimesOK ==
  /\ \A i, j \in 1 .. N : j < i /\ det[i] # 0 => det[j] # 0 /\ det[j] <= det[i]
  /\ \A i \in 1 .. N : det[i] <= clock
  /\ base <= clock
  /\ \A i \in 1 .. N : det[i] # 0 /\ i \notin visible => clock <= det[i] + Delay
  /\ pc = "scan" => /\ clock <= began + RunTime
                    /\ since = IF wm = 0 THEN base ELSE wm - Lag

\* What the run has left behind is landed, or too young to be passed.
LagRowsOK ==
  pc = "scan" =>
    \A i \in Lagged!Window :
      det[i] < high \/ i \notin Lagged!Behind => i \in raw \/ began <= det[i] + Delay

LagInv == LagTypes /\ LagTimesOK /\ LagRowsOK

LEMMA LagCounts == \A S : Lagged!Cardinality(S) = Cardinality(S)
  BY DEF Lagged!Cardinality, Cardinality, IsFiniteSet, Lagged!IsFiniteSet

\* Numbers are well ordered.
LEMMA Smallest ==
  ASSUME NEW T \in SUBSET Nat, T # {}
  PROVE  \E x \in T : \A y \in T : x <= y
<1> DEFINE R == OpToRel(<, Nat)
<1>1. IsWellFoundedOn(R, Nat)
  BY NatLessThanWellFounded, Zenon
<1>2. \A x, y \in Nat : <<x, y>> \in R <=> x < y
  BY DEF OpToRel
<1> HIDE DEF R
<1>3. PICK x \in T : \A y \in T : ~ (<<y, x>> \in R)
  BY <1>1, WFMin
<1>4. \A y \in T : x <= y
  <2> TAKE y \in T
  <2>1. x \in Nat /\ y \in Nat /\ ~ (<<y, x>> \in R)
    BY <1>3
  <2> QED
    BY <1>2, <2>1
<1> QED
  BY <1>4

LEMMA LagLowest ==
  ASSUME NEW T \in SUBSET Nat, T # {}
  PROVE  Lagged!Lowest(T) \in T /\ \A y \in T : Lagged!Lowest(T) <= y
  BY Smallest DEF Lagged!Lowest

LEMMA LagRanks ==
  ASSUME LagSizes, LagTypes
  PROVE  /\ Lagged!Window \in SUBSET visible /\ Lagged!Behind \in SUBSET Lagged!Window
         /\ Lagged!Window \in SUBSET (1 .. N)
         /\ \A n : Lagged!First(n) \in SUBSET Lagged!Behind
         /\ \A n \in Nat, k \in Lagged!Behind, i \in Lagged!Behind :
              k \in Lagged!First(n) /\ i < k => i \in Lagged!First(n)
<1>1. Lagged!Window \in SUBSET visible /\ Lagged!Window \in SUBSET (1 .. N)
  BY DEF Lagged!Window, LagTypes
<1>2. Lagged!Behind \in SUBSET Lagged!Window
  BY DEF Lagged!Behind
<1>3. \A n : Lagged!First(n) \in SUBSET Lagged!Behind
  BY DEF Lagged!First
<1>4. ASSUME NEW n \in Nat, NEW k \in Lagged!Behind, NEW i \in Lagged!Behind,
             k \in Lagged!First(n), i < k
      PROVE  i \in Lagged!First(n)
  <2> DEFINE Before(x) == {j \in Lagged!Behind : j < x}
  <2>0. i \in 1 .. N /\ k \in 1 .. N /\ N \in Nat /\ Lagged!Behind \in SUBSET (1 .. N)
    BY <1>1, <1>2 DEF LagSizes
  <2>a. \A j \in Lagged!Behind : j < i => j < k
    BY <1>4, <2>0
  <2>1. Before(i) \in SUBSET Before(k) /\ Before(k) \in SUBSET (1 .. N)
    BY <2>0, <2>a
  <2>2. /\ Cardinality(Before(i)) \in Nat /\ Cardinality(Before(k)) \in Nat
        /\ Cardinality(Before(i)) <= Cardinality(Before(k))
    BY <2>0, <2>1, Fewer
  <2>3. Cardinality(Before(k)) < n
    BY <1>4, LagCounts DEF Lagged!First
  <2>4. Cardinality(Before(i)) < n
    BY <2>2, <2>3
  <2> QED
    BY <2>4, LagCounts DEF Lagged!First
<1> QED
  BY <1>1, <1>2, <1>3, <1>4

\* Of the alerts before the rows of the window that the scan has still to read
\* there are as many as its offset says.
LEMMA LagOffset ==
  ASSUME LagSizes, LagTypes, ~ keyset, NEW i \in Lagged!Behind
  PROVE  Cardinality({j \in Lagged!Behind : j < i}) + frm
         <= Cardinality({j \in Lagged!Window : j < i})
<1> DEFINE W == Lagged!Window  Under(S, x) == {j \in S : j < x}
<1>0. /\ N \in Nat /\ frm \in Nat /\ W \in SUBSET (1 .. N) /\ Lagged!Behind \in SUBSET W
      /\ Lagged!Behind = {k \in W : Cardinality(Under(W, k)) >= frm}
  <2>1. Lagged!Behind = {k \in W : Cardinality(Under(W, k)) >= frm}
    BY LagCounts DEF Lagged!Behind
  <2> QED
    BY <2>1, LagRanks DEF LagSizes, LagTypes
<1>a. /\ \A j \in W : j \in Nat /\ j \in 1 .. N
      /\ \A j \in Lagged!Behind : j \in W /\ j \in Nat
  BY <1>0
<1> HIDE DEF W
<1>1. PICK m \in Lagged!Behind : \A k \in Lagged!Behind : m <= k
  <2>1. Lagged!Behind \in SUBSET Nat /\ Lagged!Behind # {}
    BY ONLY <1>a, i \in Lagged!Behind
  <2> QED
    BY ONLY <2>1, Smallest
<1>b. m \in W /\ m \in Nat /\ i \in Nat /\ m <= i /\ \A j \in Nat : j < m => j < i
  BY <1>1, <1>a
<1> DEFINE A == Under(Lagged!Behind, i)  B == Under(W, m)
<1>2. A \in SUBSET (1 .. N) /\ B \in SUBSET (1 .. N) /\ Under(W, i) \in SUBSET (1 .. N)
  BY <1>0
<1>3. A \cap B = {}
  <2> SUFFICES ASSUME NEW j \in A, j \in B PROVE FALSE
    OBVIOUS
  <2>1. j \in Lagged!Behind /\ j < m /\ j \in Nat
    BY ONLY j \in A, j \in B, <1>a
  <2> QED
    BY ONLY <1>1, <1>b, <2>1
<1>4. A \cup B \subseteq Under(W, i)
  BY ONLY <1>a, <1>b
<1>5. Cardinality(B) >= frm
  BY <1>0, <1>1
<1> HIDE DEF A, B
<1>6. /\ IsFiniteSet(A) /\ IsFiniteSet(B) /\ Cardinality(A) \in Nat /\ Cardinality(B) \in Nat
      /\ Cardinality(Under(W, i)) \in Nat /\ Cardinality(A \cup B) <= Cardinality(Under(W, i))
  BY <1>0, <1>2, <1>4, Fewer
<1>7. Cardinality(A \cup B) = Cardinality(A) + Cardinality(B)
  <2>1. Cardinality(A \cup B) = Cardinality(A) + Cardinality(B) - Cardinality({})
    BY <1>3, <1>6, FS_Union
  <2>2. Cardinality({}) = 0
    BY FS_EmptySet
  <2> QED
    BY <1>6, <2>1, <2>2
<1>8. Cardinality(A) + frm <= Cardinality(Under(W, i))
  BY <1>0, <1>5, <1>6, <1>7
<1> QED
  BY <1>8 DEF A, W

\* A full page leaves nothing between the rows before it and those behind it.
LEMMA LagNext ==
  ASSUME LagSizes, LagTypes, Lagged!FullPage, NEW i \in Lagged!Window, i \notin Lagged!Behind'
  PROVE  i \notin Lagged!Behind \/ i \in Lagged!Rows
<1>0. /\ N \in Nat /\ PageSize \in Nat /\ frm \in Nat /\ last \in Nat /\ i \in 1 .. N
      /\ Lagged!Behind \in SUBSET (1 .. N)
  BY LagRanks DEF LagSizes, LagTypes
<1>1. /\ frm' = frm + PageSize /\ last' \in Lagged!Rows /\ (\A k \in Lagged!Rows : k <= last')
      /\ Lagged!Window' = Lagged!Window /\ keyset' = keyset
  BY DEF Lagged!FullPage, Lagged!NextOffset, Lagged!vendor, Lagged!Window
<1>2. SUFFICES ASSUME i \in Lagged!Behind PROVE i \in Lagged!Rows
  OBVIOUS
<1>3. CASE keyset
  <2>1. i <= last' /\ last' \in 1 .. N
    BY <1>0, <1>1, <1>3, LagRanks DEF Lagged!Behind, Lagged!Rows
  <2>2. CASE i = last'
    BY <1>1, <2>2
  <2>3. CASE i < last'
    BY <1>0, <1>1, <1>2, <2>3, LagRanks DEF Lagged!Rows
  <2> QED
    BY <1>0, <2>1, <2>2, <2>3
<1>4. CASE ~ keyset
  <2>1. Cardinality({j \in Lagged!Window : j < i}) < frm + PageSize
    <3>1. Lagged!Behind' = {k \in Lagged!Window : Cardinality({j \in Lagged!Window : j < k}) >= frm + PageSize}
      BY <1>1, <1>4, LagCounts DEF Lagged!Behind
    <3>2. Cardinality({j \in Lagged!Window : j < i}) \in Nat
      <4>1. {j \in Lagged!Window : j < i} \in SUBSET (1 .. N)
        BY LagRanks
      <4> QED
        BY <1>0, <4>1, Fewer
    <3> QED
      BY <1>0, <3>1, <3>2
  <2>2. Cardinality({j \in Lagged!Behind : j < i}) + frm <= Cardinality({j \in Lagged!Window : j < i})
    BY <1>2, <1>4, LagOffset
  <2>3. /\ Cardinality({j \in Lagged!Behind : j < i}) \in Nat
        /\ Cardinality({j \in Lagged!Window : j < i}) \in Nat
    <3>1. /\ {j \in Lagged!Window : j < i} \in SUBSET (1 .. N)
          /\ {j \in Lagged!Behind : j < i} \in SUBSET (1 .. N)
      BY <1>0, LagRanks
    <3> QED
      BY <1>0, <3>1, Fewer
  <2>4. Cardinality({j \in Lagged!Behind : j < i}) < PageSize
    BY <1>0, <2>1, <2>2, <2>3
  <2> QED
    BY <1>2, <2>4, LagCounts DEF Lagged!Rows, Lagged!First
<1> QED
  BY <1>3, <1>4

\* The marks that rows give a run, and its ceiling, are those of landed alerts.
LEMMA LagYields ==
  ASSUME LagSizes, LagTypes, NEW rows \in SUBSET visible, Lagged!Yield(rows)
  PROVE  /\ raw' = raw \cup rows
         /\ high' \in LagMarks \cup {det[i] : i \in rows} /\ high' >= high
         /\ high' \in {high} \cup {det[i] : i \in rows}
         /\ ceiling' \in LagMarks \cup {det[i] : i \in rows} /\ ceiling' <= high'
<1>0. /\ det \in [1 .. N -> Nat] /\ rows \subseteq 1 .. N /\ raw \subseteq 1 .. N /\ LagMarks \subseteq Nat
      /\ high \in LagMarks /\ ceiling \in LagMarks /\ ceiling <= high /\ Lag \in Nat
  BY DEF LagTypes, LagMarks, LagSizes
<1>1. /\ raw' = raw \cup rows /\ high' >= high /\ high' \in {high} \cup {det[i] : i \in rows}
  BY DEF Lagged!Yield
<1> DEFINE far == Lagged!FarBelow(rows)
<1>2. /\ far \in SUBSET {det[i] : i \in rows} /\ far \in SUBSET Nat
      /\ \A m \in far : m <= high
  BY <1>0 DEF Lagged!FarBelow
<1>3. ceiling' = IF far = {} THEN ceiling
                 ELSE IF ceiling = 0 THEN Lagged!Lowest(far) ELSE Lagged!Lowest(far \cup {ceiling})
  BY DEF Lagged!Yield
<1> HIDE DEF far
<1>4. ceiling' \in far \cup {ceiling}
  <2>1. CASE far = {}
    BY <1>3, <2>1
  <2>2. CASE far # {}
    <3>1. far \in SUBSET Nat /\ far \cup {ceiling} \in SUBSET Nat /\ far \cup {ceiling} # {}
      BY <1>0, <1>2, <2>2
    <3>2. Lagged!Lowest(far) \in far /\ Lagged!Lowest(far \cup {ceiling}) \in far \cup {ceiling}
      BY <2>2, <3>1, LagLowest
    <3> QED
      BY <1>3, <2>2, <3>2
  <2> QED
    BY <2>1, <2>2
<1>5. ceiling' <= high /\ ceiling' \in Nat /\ high \in Nat /\ high' \in Nat
  BY <1>0, <1>1, <1>2, <1>4
<1> QED
  BY <1>0, <1>1, <1>2, <1>4, <1>5

LEMMA LagInitial ==
  ASSUME LagSizes PROVE Lagged!Init => LagInv /\ Lagged!Promise!Init
<1> SUFFICES ASSUME Lagged!Init PROVE LagInv /\ Lagged!Promise!Init
  OBVIOUS
<1>1. /\ clock = 1 /\ det = [i \in 1 .. N |-> 0] /\ visible = {} /\ raw = {} /\ wm = 0 /\ base = 0
      /\ pc = "idle" /\ since = 0 /\ began = 0 /\ read = 0 /\ frm = 0 /\ last = 0
      /\ high = 0 /\ ceiling = 0
  BY DEF Lagged!Init, Lagged!Alerts
<1>2. LagInv
  BY <1>1 DEF LagInv, LagTypes, LagMarks, LagTimesOK, LagRowsOK, LagSizes
<1>3. Lagged!Detected = {}
  BY <1>1 DEF Lagged!Detected, Lagged!Alerts
<1>4. Lagged!Promise!Init
  BY <1>1, <1>3 DEF Lagged!Promise!Init, Lagged!Alerts
<1> QED
  BY <1>2, <1>4

LEMMA LagFacts ==
  ASSUME LagSizes, LagTypes
  PROVE  /\ clock \in Nat \ {0} /\ det \in [1 .. N -> Nat] /\ visible \subseteq 1 .. N
         /\ (\A i \in visible : det[i] # 0 /\ det[i] \in Nat) /\ raw \subseteq visible
         /\ wm \in Nat /\ high \in Nat /\ ceiling \in Nat
         /\ base \in Int /\ since \in Int /\ began \in Nat /\ began <= clock
         /\ read \in Nat /\ frm \in Nat /\ last \in Nat
         /\ N \in Nat /\ PageSize \in Nat /\ Lag \in Nat /\ Delay \in Nat /\ RunTime \in Nat
         /\ LagMarks \subseteq Nat
<1>1. LagMarks \subseteq Nat
  BY DEF LagMarks, LagTypes
<1> QED
  BY <1>1 DEF LagTypes, LagSizes

\* The types, one action at a time.
LEMMA LagTypesStep ==
  ASSUME LagSizes
  PROVE  LagTypes /\ [Lagged!Next]_(Lagged!vars) => LagTypes'
<1> SUFFICES ASSUME LagTypes, [Lagged!Next]_(Lagged!vars) PROVE LagTypes'
  OBVIOUS
<1>t. /\ clock \in Nat \ {0} /\ det \in [1 .. N -> Nat] /\ visible \subseteq 1 .. N
      /\ (\A i \in visible : det[i] # 0 /\ det[i] \in Nat) /\ raw \subseteq visible
      /\ wm \in LagMarks /\ high \in LagMarks /\ ceiling \in LagMarks /\ ceiling <= high
      /\ base \in Int /\ since \in Int /\ began \in Nat /\ began <= clock
      /\ read \in Nat /\ frm \in Nat /\ last \in Nat
      /\ N \in Nat /\ PageSize \in Nat /\ Lag \in Nat /\ Backfill \in Nat /\ LagMarks \subseteq Nat
  BY LagFacts DEF LagTypes, LagSizes
<1> USE DEF Lagged!vendor, Lagged!scan, Lagged!place, Lagged!Alerts
<1>1. CASE Lagged!Tick
  BY <1>1, <1>t DEF Lagged!Tick, LagTypes, LagMarks
<1>2. ASSUME NEW i \in 1 .. N, Lagged!Detect(i) PROVE LagTypes'
  <2>1. /\ det[i] = 0 /\ det' = [det EXCEPT ![i] = clock]
        /\ UNCHANGED <<clock, visible, raw, wm, base, high, ceiling, since, began, read, frm, last>>
    BY <1>2 DEF Lagged!Detect
  <2>2. \A k \in visible : det'[k] = det[k]
    BY <1>t, <2>1
  <2>3. LagMarks' = LagMarks
    BY <1>t, <2>1, <2>2 DEF LagMarks
  <2> QED
    BY <1>t, <2>1, <2>2, <2>3 DEF LagTypes
<1>3. ASSUME NEW i \in 1 .. N, Lagged!Index(i) PROVE LagTypes'
  <2>1. /\ visible' = visible \cup {i} /\ det[i] # 0
        /\ UNCHANGED <<clock, det, raw, wm, base, high, ceiling, since, began, read, frm, last>>
    BY <1>3 DEF Lagged!Index, Lagged!Detected
  <2>2. LagMarks' = LagMarks
    BY <2>1 DEF LagMarks
  <2> QED
    BY <1>t, <2>1, <2>2 DEF LagTypes
<1>4. CASE Lagged!Begin
  <2>1. Lagged!Since \in Int
    BY <1>t DEF Lagged!Since, Lagged!Horizon
  <2>2. /\ since' = Lagged!Since /\ base' \in {base, Lagged!Since} /\ began' = clock
        /\ read' = 0 /\ frm' = 0 /\ last' = 0 /\ high' = 0 /\ ceiling' = 0
        /\ UNCHANGED <<clock, det, visible, raw, wm>>
    BY <1>4 DEF Lagged!Begin
  <2>3. LagMarks' = LagMarks /\ 0 \in LagMarks
    BY <2>2 DEF LagMarks
  <2> QED
    BY <1>t, <2>1, <2>2, <2>3 DEF LagTypes
<1>5. ASSUME NEW rows \in SUBSET visible, Lagged!Yield(rows),
             UNCHANGED <<clock, det, visible, base, since, began>>,
             read' \in Nat, frm' \in Nat, last' \in Nat,
             wm' = wm \/ wm' = Lagged!Mark(high', ceiling')
      PROVE  LagTypes'
  <2>1. /\ raw' = raw \cup rows
        /\ high' \in LagMarks \cup {det[i] : i \in rows}
        /\ ceiling' \in LagMarks \cup {det[i] : i \in rows} /\ ceiling' <= high'
    BY <1>5, LagYields
  <2>2. LagMarks' = LagMarks \cup {det[i] : i \in rows}
    BY <1>5, <2>1 DEF LagMarks
  <2>3. wm' \in {wm, high', ceiling'}
    BY <1>5 DEF Lagged!Mark
  <2>4. wm' \in LagMarks'
    BY <1>t, <2>1, <2>2, <2>3
  <2> QED
    BY <1>t, <1>5, <2>1, <2>2, <2>4 DEF LagTypes
<1>r. /\ Lagged!Rows \in SUBSET visible /\ Lagged!Rows \subseteq 1 .. N
      /\ \A n : Lagged!First(n) \in SUBSET visible
  BY LagRanks DEF Lagged!Rows
<1>6. CASE Lagged!FullPage
  <2>1. /\ Lagged!Yield(Lagged!Rows) /\ UNCHANGED <<clock, det, visible, base, since, began, wm>>
        /\ read' = read + 1 /\ frm' = frm + PageSize /\ last' \in Lagged!Rows
    BY <1>6 DEF Lagged!FullPage, Lagged!NextOffset
  <2>2. read' \in Nat /\ frm' \in Nat /\ last' \in Nat
    BY <1>t, <1>r, <2>1
  <2> QED
    BY <1>r, <1>5, <2>1, <2>2
<1>7. CASE Lagged!LastPage \/ Lagged!Stop
  <2>1. PICK n : Lagged!End(Lagged!First(n))
    BY <1>7 DEF Lagged!LastPage, Lagged!Stop, Lagged!Rows
  <2> DEFINE rows == Lagged!First(n)
  <2>2. /\ Lagged!Yield(rows) /\ UNCHANGED <<clock, det, visible, base, since, began, read, frm, last>>
        /\ wm' = Lagged!Mark(high', ceiling') /\ rows \in SUBSET visible
    BY <1>r, <2>1 DEF Lagged!End
  <2> HIDE DEF rows
  <2> QED
    BY <1>t, <1>5, <2>2
<1>8. CASE Lagged!Fail \/ UNCHANGED Lagged!vars
  <2>1. UNCHANGED <<clock, det, visible, raw, wm, base, high, ceiling, since, began, read, frm, last>>
    BY <1>8 DEF Lagged!Fail, Lagged!vars
  <2>2. LagMarks' = LagMarks
    BY <2>1 DEF LagMarks
  <2> QED
    BY <1>t, <2>1, <2>2 DEF LagTypes
<1> QED
  BY <1>1, <1>2, <1>3, <1>4, <1>6, <1>7, <1>8 DEF Lagged!Next, Lagged!Scan

\* The rows of a page, all of them or the first ones, bring everything up to
\* the mark they give, but for what is too young.
LEMMA LagReads ==
  ASSUME LagSizes, LagInv, pc = "scan", NEW n \in Nat, Lagged!Yield(Lagged!First(n)),
         NEW i \in Lagged!Window, det[i] < high'
  PROVE  i \in raw' \/ began <= det[i] + Delay
<1>0. LagTypes /\ Lagged!First(n) \in SUBSET visible /\ i \in visible /\ i \in 1 .. N
  BY LagRanks DEF LagInv
<1>1. /\ raw' = raw \cup Lagged!First(n)
      /\ high' \in {high} \cup {det[k] : k \in Lagged!First(n)}
  BY <1>0, LagYields
<1>2. det[i] < high \/ i \notin Lagged!Behind => i \in raw \/ began <= det[i] + Delay
  BY DEF LagInv, LagRowsOK
<1>3. CASE high' = high
  BY <1>1, <1>2, <1>3
<1>4. ASSUME NEW k \in Lagged!First(n), high' = det[k], i \in Lagged!Behind PROVE i \in raw'
  <2>1. k \in Lagged!Behind /\ k \in 1 .. N /\ k \in visible
    BY <1>0, LagRanks
  <2>2. i < k
    <3>1. det[i] # 0 /\ det[i] \in Nat /\ det[k] \in Nat /\ det[i] < det[k]
      BY <1>0, <1>4, <2>1, LagFacts
    <3>2. ~ (k < i) /\ k # i
      BY <1>0, <2>1, <3>1 DEF LagInv, LagTimesOK
    <3> QED
      BY <1>0, <2>1, <3>2
  <2> QED
    BY <1>0, <1>1, <1>4, <2>1, <2>2, LagRanks
<1> QED
  BY <1>1, <1>2, <1>3, <1>4

LEMMA LagTimesStep ==
  ASSUME LagSettings, LagInv, LagTypes', [Lagged!Next]_(Lagged!vars)
  PROVE  LagTimesOK'
<1>s. LagSizes /\ LagTypes /\ Backfill \in Nat
  BY DEF LagSettings, LagSizes, LagInv
<1>t. /\ clock \in Nat \ {0} /\ det \in [1 .. N -> Nat] /\ visible \subseteq 1 .. N
      /\ (\A i \in visible : det[i] # 0 /\ det[i] \in Nat) /\ wm \in Nat
      /\ base \in Int /\ since \in Int /\ began \in Nat /\ began <= clock
      /\ Lag \in Nat /\ Delay \in Nat /\ RunTime \in Nat /\ Backfill \in Nat /\ N \in Nat
  BY <1>s, LagFacts
<1>i. /\ \A i, j \in 1 .. N : j < i /\ det[i] # 0 => det[j] # 0 /\ det[j] <= det[i]
      /\ \A i \in 1 .. N : det[i] <= clock
      /\ base <= clock
      /\ \A i \in 1 .. N : det[i] # 0 /\ i \notin visible => clock <= det[i] + Delay
      /\ pc = "scan" => clock <= began + RunTime /\ since = IF wm = 0 THEN base ELSE wm - Lag
  BY DEF LagInv, LagTimesOK
<1> USE DEF Lagged!vendor, Lagged!scan, Lagged!place, Lagged!Alerts
<1>1. CASE Lagged!Tick
  <2>1. /\ clock' = clock + 1 /\ (pc = "scan" => clock < began + RunTime)
        /\ \A i \in 1 .. N : det[i] # 0 /\ i \notin visible => clock < det[i] + Delay
        /\ UNCHANGED <<det, visible, wm, base, pc, since, began>>
    BY <1>1 DEF Lagged!Tick, Lagged!MayPass, Lagged!Detected
  <2> QED
    BY <1>t, <1>i, <2>1 DEF LagTimesOK
<1>2. ASSUME NEW k \in 1 .. N, Lagged!Detect(k) PROVE LagTimesOK'
  <2>1. /\ det[k] = 0 /\ det' = [det EXCEPT ![k] = clock] /\ \A j \in 1 .. N : j < k => det[j] # 0
        /\ UNCHANGED <<clock, visible, wm, base, pc, since, began>>
    BY <1>2 DEF Lagged!Detect
  <2>2. \A i \in 1 .. N : det'[i] = IF i = k THEN clock ELSE det[i]
    BY <1>t, <2>1
  <2>3. ASSUME NEW i \in 1 .. N, NEW j \in 1 .. N, j < i, det'[i] # 0
        PROVE  det'[j] # 0 /\ det'[j] <= det'[i]
    BY <1>t, <1>i, <2>1, <2>2, <2>3
  <2>4. \A i \in 1 .. N : det'[i] <= clock
    BY <1>t, <1>i, <2>2
  <2>5. \A i \in 1 .. N : det'[i] # 0 /\ i \notin visible => clock <= det'[i] + Delay
    BY <1>t, <1>i, <2>2
  <2> QED
    BY <1>i, <2>1, <2>3, <2>4, <2>5 DEF LagTimesOK
<1>3. ASSUME NEW k \in 1 .. N, Lagged!Index(k) PROVE LagTimesOK'
  <2>1. visible' = visible \cup {k} /\ UNCHANGED <<clock, det, wm, base, pc, since, began>>
    BY <1>3 DEF Lagged!Index
  <2> QED
    BY <1>i, <2>1 DEF LagTimesOK
<1>4. CASE Lagged!Begin
  <2>1. /\ since' = Lagged!Since /\ base' = (IF wm = 0 THEN Lagged!Since ELSE base) /\ began' = clock
        /\ UNCHANGED <<clock, det, visible, wm>>
    BY <1>4 DEF Lagged!Begin
  <2>2. base' <= clock /\ since' = IF wm' = 0 THEN base' ELSE wm' - Lag
    BY <1>t, <1>i, <2>1 DEF Lagged!Since, Lagged!Horizon
  <2>3. clock' <= began' + RunTime
    BY <1>t, <2>1
  <2> QED
    BY <1>i, <2>1, <2>2, <2>3 DEF LagTimesOK
<1>5. CASE Lagged!FullPage \/ Lagged!LastPage \/ Lagged!Stop \/ Lagged!Fail \/ UNCHANGED Lagged!vars
  <2>1. /\ UNCHANGED <<clock, det, visible, base, since, began>>
        /\ pc' = "idle" \/ UNCHANGED <<wm, pc>>
    BY <1>5 DEF Lagged!FullPage, Lagged!LastPage, Lagged!Stop, Lagged!Fail, Lagged!End, Lagged!vars
  <2> QED
    BY <1>i, <2>1 DEF LagTimesOK
<1> QED
  BY <1>1, <1>2, <1>3, <1>4, <1>5 DEF Lagged!Next, Lagged!Scan

LEMMA LagRowsStep ==
  ASSUME LagSettings, LagInv, LagTypes', [Lagged!Next]_(Lagged!vars)
  PROVE  LagRowsOK'
<1>s. LagSizes /\ LagTypes
  BY DEF LagSettings, LagInv
<1>t. /\ clock \in Nat /\ det \in [1 .. N -> Nat] /\ visible \subseteq 1 .. N /\ raw \subseteq visible
      /\ (\A i \in visible : det[i] # 0 /\ det[i] \in Nat)
      /\ began \in Nat /\ began <= clock /\ Delay \in Nat /\ frm \in Nat /\ N \in Nat
      /\ PageSize \in Nat
  BY <1>s, LagFacts
<1>i. pc = "scan" => \A i \in Lagged!Window :
        det[i] < high \/ i \notin Lagged!Behind => i \in raw \/ began <= det[i] + Delay
  BY DEF LagInv, LagRowsOK
<1> USE DEF Lagged!vendor, Lagged!scan, Lagged!place, Lagged!Alerts
<1>1. CASE Lagged!Tick \/ UNCHANGED Lagged!vars
  <2>1. UNCHANGED <<keyset, det, visible, raw, high, since, began, frm, last, pc>>
    BY <1>1 DEF Lagged!Tick, Lagged!vars
  <2>2. Lagged!Window' = Lagged!Window /\ Lagged!Behind' = Lagged!Behind
    BY <2>1 DEF Lagged!Window, Lagged!Behind
  <2> QED
    BY <1>i, <2>1, <2>2 DEF LagRowsOK
<1>2. ASSUME NEW k \in 1 .. N, Lagged!Detect(k) PROVE LagRowsOK'
  <2>1. /\ det[k] = 0 /\ det' = [det EXCEPT ![k] = clock]
        /\ UNCHANGED <<keyset, visible, raw, high, since, began, frm, last, pc>>
    BY <1>2 DEF Lagged!Detect
  <2>2. \A i \in visible : det'[i] = det[i]
    BY <1>t, <2>1
  <2>3. Lagged!Window' = Lagged!Window /\ Lagged!Window \subseteq visible
    BY <2>1, <2>2 DEF Lagged!Window
  <2>4. Lagged!Behind' = Lagged!Behind
    BY <2>1, <2>3 DEF Lagged!Behind
  <2> QED
    BY <1>i, <2>1, <2>2, <2>3, <2>4 DEF LagRowsOK
<1>3. ASSUME NEW k \in 1 .. N, Lagged!Index(k) PROVE LagRowsOK'
  <2>1. /\ visible' = visible \cup {k} /\ det[k] # 0 /\ k \notin visible
        /\ UNCHANGED <<keyset, det, raw, high, since, began, frm, last, pc>>
    BY <1>3 DEF Lagged!Index, Lagged!Detected
  <2>2. /\ Lagged!Window \subseteq Lagged!Window'
        /\ \A i \in Lagged!Window' : i \in Lagged!Window \/ i = k
    BY <2>1 DEF Lagged!Window
  <2>3. began <= det[k] + Delay
    BY <1>t, <2>1 DEF LagInv, LagTimesOK
  <2>4. ASSUME NEW i \in Lagged!Window, i \notin Lagged!Behind' PROVE i \notin Lagged!Behind
    <3>1. CASE keyset
      BY <2>1, <2>2, <2>4, <3>1 DEF Lagged!Behind
    <3>2. CASE ~ keyset
      <4> DEFINE T == {j \in Lagged!Window : j < i}  U == {j \in Lagged!Window' : j < i}
      <4>1. T \in SUBSET U /\ U \in SUBSET (1 .. N)
        <5>1. Lagged!Window' \in SUBSET (1 .. N)
          BY <1>t, <2>1 DEF Lagged!Window
        <5> QED
          BY <2>2, <5>1
      <4>2. Cardinality(T) \in Nat /\ Cardinality(U) \in Nat /\ Cardinality(T) <= Cardinality(U)
        BY <1>t, <4>1, Fewer
      <4>3. Cardinality(U) < frm
        <5>1. Lagged!Behind' = {m \in Lagged!Window' : Cardinality({j \in Lagged!Window' : j < m}) >= frm}
          BY <2>1, <3>2, LagCounts DEF Lagged!Behind
        <5> QED
          BY <1>t, <2>2, <2>4, <4>2, <5>1
      <4>4. ~ (Cardinality(T) >= frm)
        BY <1>t, <4>2, <4>3
      <4>5. Lagged!Behind = {m \in Lagged!Window : Cardinality({j \in Lagged!Window : j < m}) >= frm}
        BY <3>2, LagCounts DEF Lagged!Behind
      <4> QED
        BY <4>4, <4>5
    <3> QED
      BY <3>1, <3>2
  <2> QED
    BY <1>i, <2>1, <2>2, <2>3, <2>4 DEF LagRowsOK
<1>4. CASE Lagged!Begin
  <2>1. high' = 0 /\ frm' = 0 /\ last' = 0 /\ UNCHANGED <<keyset, det, visible>>
    BY <1>4 DEF Lagged!Begin
  <2>2. Lagged!Window' \in SUBSET (1 .. N) /\ \A i \in Lagged!Window' : det'[i] \in Nat
    BY <1>t, <2>1 DEF Lagged!Window
  <2>3. Lagged!Behind' = Lagged!Window'
    <3>1. CASE keyset
      <4>1. \A i \in Lagged!Window' : i > 0
        BY <1>t, <2>2
      <4>2. Lagged!Behind' = {i \in Lagged!Window' : i > 0}
        BY <2>1, <3>1 DEF Lagged!Behind
      <4> QED
        BY <4>1, <4>2
    <3>2. CASE ~ keyset
      <4>1. \A i : {j \in Lagged!Window' : j < i} \in SUBSET (1 .. N)
        BY <2>2
      <4>2. ASSUME NEW i PROVE Cardinality({j \in Lagged!Window' : j < i}) >= 0
        <5>1. Cardinality({j \in Lagged!Window' : j < i}) \in Nat
          BY <1>t, <4>1, Fewer
        <5> QED
          BY <5>1
      <4> QED
        BY <2>1, <3>2, <4>2, LagCounts DEF Lagged!Behind
    <3> QED
      BY <3>1, <3>2
  <2> QED
    BY <2>1, <2>2, <2>3 DEF LagRowsOK
<1>5. CASE Lagged!FullPage
  <2>1. /\ pc = "scan" /\ UNCHANGED <<det, visible, since, began, pc>>
        /\ Lagged!Yield(Lagged!First(PageSize)) /\ Lagged!Rows = Lagged!First(PageSize)
    BY <1>5 DEF Lagged!FullPage, Lagged!Rows
  <2>2. Lagged!Window' = Lagged!Window
    BY <2>1 DEF Lagged!Window
  <2>3. raw' = raw \cup Lagged!Rows
    BY <2>1 DEF Lagged!Yield
  <2>4. \A i \in Lagged!Window : det[i] < high' => i \in raw' \/ began <= det[i] + Delay
    BY <1>s, <1>t, <2>1, LagReads
  <2>5. \A i \in Lagged!Window : i \notin Lagged!Behind' => i \notin Lagged!Behind \/ i \in Lagged!Rows
    BY <1>s, <1>5, LagNext
  <2> QED
    BY <1>i, <2>1, <2>2, <2>3, <2>4, <2>5 DEF LagRowsOK
<1>6. CASE Lagged!LastPage \/ Lagged!Stop \/ Lagged!Fail
  BY <1>6 DEF Lagged!LastPage, Lagged!Stop, Lagged!Fail, Lagged!End, LagRowsOK
<1> QED
  BY <1>1, <1>2, <1>3, <1>4, <1>5, <1>6 DEF Lagged!Next, Lagged!Scan

LEMMA LagInvStep ==
  ASSUME LagSettings
  PROVE  LagInv /\ [Lagged!Next]_(Lagged!vars) => LagInv'
<1> SUFFICES ASSUME LagInv, [Lagged!Next]_(Lagged!vars) PROVE LagInv'
  OBVIOUS
<1>1. LagTypes'
  BY LagTypesStep DEF LagInv, LagSettings
<1> QED
  BY <1>1, LagTimesStep, LagRowsStep DEF LagInv

\* The alerts that the next run asks for, and the mark it asks from.
LagFloor == IF wm = 0 THEN base ELSE wm - Lag
LagDue   == {i \in 1 .. N : det[i] # 0 /\ det[i] >= LagFloor}

LEMMA LagDueIs ==
  /\ Lagged!Detected = {i \in 1 .. N : det[i] # 0}
  /\ {i \in Lagged!Detected : det[i] >= IF wm = 0 THEN base ELSE wm - Lag} = LagDue
  BY DEF LagDue, LagFloor, Lagged!Detected, Lagged!Alerts

\* A mark is not written past an alert that the run could not find: it is
\* younger than the lag.
LEMMA LagWrites ==
  ASSUME LagSettings, LagInv, LagTypes', pc = "scan", NEW n \in Nat, Lagged!End(Lagged!First(n)),
         NEW i \in LagDue, i \notin LagDue'
  PROVE  i \in raw'
<1>1. /\ Lagged!Yield(Lagged!First(n)) /\ wm' = Lagged!Mark(high', ceiling')
      /\ UNCHANGED <<det, base, visible>>
  BY DEF Lagged!End, Lagged!vendor
<1>2. LagSizes /\ LagTypes
  BY DEF LagSettings, LagInv
<1>3. /\ wm \in Nat /\ det \in [1 .. N -> Nat] /\ clock \in Nat /\ base \in Int /\ since \in Int
      /\ began \in Nat /\ Lag \in Nat /\ Delay \in Nat /\ RunTime \in Nat /\ visible \subseteq 1 .. N
      /\ i \in 1 .. N /\ det[i] # 0 /\ began <= clock
  BY <1>2, LagFacts DEF LagDue
<1>4. wm' \in Nat /\ high' \in Nat /\ ceiling' \in Nat
  <2>1. /\ wm' \in LagMarks' /\ high' \in LagMarks' /\ ceiling' \in LagMarks'
        /\ raw' \subseteq 1 .. N
    BY <1>1, <1>3 DEF LagTypes
  <2>2. LagMarks' \subseteq Nat
    <3>1. det' = det
      BY <1>1
    <3>2. LagMarks' = {0} \cup {det[k] : k \in raw'}
      BY <3>1 DEF LagMarks
    <3>3. \A k \in raw' : det[k] \in Nat
      BY <1>3, <2>1
    <3> QED
      BY <3>2, <3>3
  <2> QED
    BY <2>1, <2>2
<1>5. high' <= clock
  <2>1. high' \in LagMarks \cup {det[k] : k \in Lagged!First(n)} /\ Lagged!First(n) \subseteq 1 .. N
    BY <1>1, <1>2, LagRanks, LagYields
  <2>2. raw \subseteq 1 .. N /\ \A k \in 1 .. N : det[k] <= clock
    BY <1>2, <1>3 DEF LagTypes, LagInv, LagTimesOK
  <2> QED
    BY <1>3, <2>1, <2>2 DEF LagMarks
<1>6. det[i] >= LagFloor /\ ~ (det[i] >= LagFloor') /\ LagFloor \in Int /\ since = LagFloor
  BY <1>1, <1>3 DEF LagDue, LagFloor, LagInv, LagTimesOK
<1>7. high' # 0 /\ wm' # 0 /\ wm' <= high'
  <2>1. high' # 0
    BY <1>1, <1>6 DEF Lagged!Mark, LagFloor
  <2> QED
    BY <1>1, <1>4, <2>1 DEF Lagged!Mark
<1>8. det[i] < high' - Lag /\ det[i] \in Nat
  BY <1>3, <1>4, <1>6, <1>7 DEF LagFloor
<1>9. clock <= began + RunTime /\ Delay + RunTime <= Lag
  BY DEF LagInv, LagTimesOK, LagSettings
<1>10. det[i] + Delay < began
  BY <1>3, <1>4, <1>5, <1>8, <1>9
<1>11. i \in visible
  BY <1>3, <1>8, <1>10 DEF LagInv, LagTimesOK
<1>12. i \in Lagged!Window
  BY <1>6, <1>11 DEF Lagged!Window
<1>13. det[i] < high'
  BY <1>3, <1>4, <1>8
<1>14. i \in raw' \/ began <= det[i] + Delay
  BY <1>1, <1>2, <1>12, <1>13, LagReads
<1> QED
  BY <1>3, <1>8, <1>10, <1>14

\* Rows of the window land, with or without a mark.
LEMMA LagIngests ==
  ASSUME LagSettings, LagInv, LagTypes', pc = "scan", NEW n \in Nat,
         Lagged!Yield(Lagged!First(n)), UNCHANGED <<det, base>>,
         wm' = wm \/ (Lagged!End(Lagged!First(n)))
  PROVE  Lagged!Promise!Ingest
<1>1. LagSizes /\ LagTypes
  BY DEF LagSettings, LagInv
<1>2. /\ raw \subseteq raw' /\ \A i \in raw' \ raw : i \in visible /\ i \in 1 .. N
      /\ raw' \subseteq Lagged!Detected /\ raw \subseteq Lagged!Detected
  <2>1. raw' = raw \cup Lagged!First(n) /\ Lagged!First(n) \in SUBSET visible
    BY <1>1, LagRanks, LagYields
  <2> QED
    BY <1>1, <2>1 DEF LagTypes, Lagged!Detected, Lagged!Alerts
<1>3. \A i \in LagDue \ LagDue' : i \in raw'
  <2>1. CASE wm' = wm
    BY <2>1 DEF LagDue, LagFloor
  <2>2. CASE Lagged!End(Lagged!First(n))
    BY <2>2, LagWrites
  <2> QED
    BY <2>1, <2>2
<1>4. wm # 0 => wm' # 0
  <2>1. wm' = wm \/ wm' = Lagged!Mark(high', ceiling')
    BY DEF Lagged!End
  <2> QED
    BY <2>1 DEF Lagged!Mark
<1>5. Lagged!Detected' = Lagged!Detected
  BY DEF Lagged!Detected
<1> DEFINE content == [i \in 1 .. N |-> IF i \in Lagged!Detected THEN 1 ELSE 0]
           was == [i \in 1 .. N |-> IF i \in raw THEN 1 ELSE 0]
           is == [i \in 1 .. N |-> IF i \in raw' THEN 1 ELSE 0]
<1>6. /\ is \in [1 .. N -> Nat]
      /\ \A i \in 1 .. N : is[i] = was[i] \/ (was[i] < is[i] /\ is[i] <= content[i])
  BY <1>2
<1>7. \A i \in LagDue \ LagDue' : is[i] = content[i]
  BY <1>2, <1>3 DEF LagDue
<1>8. content' = content /\ LagDue' \subseteq 1 .. N
  BY <1>5 DEF LagDue
<1>9. {i \in Lagged!Detected' : det'[i] >= IF wm' = 0 THEN base' ELSE wm' - Lag} = LagDue'
  BY <1>5 DEF LagDue, LagFloor, Lagged!Detected, Lagged!Alerts
<1>10. {i \in Lagged!Detected' : det'[i] < base'} = {i \in Lagged!Detected : det[i] < base}
  BY <1>5
<1> QED
  BY <1>4, <1>6, <1>7, <1>8, <1>9, <1>10, LagDueIs
  DEF Lagged!Promise!Ingest, Lagged!Promise!Forward, Lagged!Promise!Settled, Lagged!Alerts

\* A new alert is above both marks.
LEMMA LagDetects ==
  ASSUME LagSettings, LagInv, NEW k \in 1 .. N, Lagged!Detect(k)
  PROVE  Lagged!Promise!Change
<1>1. /\ det[k] = 0 /\ det' = [det EXCEPT ![k] = clock] /\ UNCHANGED <<raw, wm, base>>
  BY DEF Lagged!Detect
<1>2. /\ clock \in Nat \ {0} /\ det \in [1 .. N -> Nat] /\ wm \in Nat /\ base \in Int /\ Lag \in Nat
      /\ raw \subseteq visible
  BY LagFacts DEF LagSettings, LagInv
<1>3. base <= clock /\ wm <= clock
  <2>1. base <= clock /\ (\A i \in 1 .. N : det[i] <= clock) /\ wm \in LagMarks /\ raw \subseteq 1 .. N
    BY DEF LagInv, LagTypes, LagTimesOK
  <2> QED
    BY <1>2, <2>1 DEF LagMarks
<1>4. LagFloor <= clock /\ LagFloor' = LagFloor /\ LagFloor \in Int
  BY <1>1, <1>2, <1>3 DEF LagFloor
<1>5. \A i \in 1 .. N : det'[i] = IF i = k THEN clock ELSE det[i]
  BY <1>1, <1>2
<1>6. Lagged!Detected' = Lagged!Detected \cup {k} /\ k \notin Lagged!Detected
  BY <1>1, <1>2, <1>5 DEF Lagged!Detected, Lagged!Alerts
<1>7. LagDue' = LagDue \cup {k}
  BY <1>2, <1>4, <1>5 DEF LagDue
<1>8. {i \in Lagged!Detected' : det'[i] < base'} = {i \in Lagged!Detected : det[i] < base} \ {k}
  <2>1. \A i \in Lagged!Detected' : i \in 1 .. N
    BY DEF Lagged!Detected, Lagged!Alerts
  <2>2. ~ (det'[k] < base')
    BY <1>1, <1>2, <1>3, <1>5
  <2> QED
    BY <1>1, <1>5, <1>6, <2>1, <2>2
<1>9. {i \in Lagged!Detected' : det'[i] >= IF wm' = 0 THEN base' ELSE wm' - Lag} = LagDue'
  BY DEF LagDue, LagFloor, Lagged!Detected, Lagged!Alerts
<1> DEFINE content == [i \in 1 .. N |-> IF i \in Lagged!Detected THEN 1 ELSE 0]
           is == [i \in 1 .. N |-> IF i \in Lagged!Detected' THEN 1 ELSE 0]
<1>10. /\ is \in [1 .. N -> Nat] /\ {k} \in SUBSET (1 .. N)
       /\ \A r \in {k} : is[r] > content[r]
       /\ \A r \in (1 .. N) \ {k} : is[r] = content[r]
  BY <1>6
<1> QED
  BY <1>1, <1>7, <1>8, <1>9, <1>10, LagDueIs
  DEF Lagged!Promise!Change, Lagged!Promise!table, Lagged!Alerts

\* Without a watermark a run may move the horizon, either way.
LEMMA LagBegins ==
  ASSUME LagSettings, LagInv, Lagged!Begin, wm = 0
  PROVE  Lagged!Promise!Horizon
<1>1. UNCHANGED <<det, raw, wm>> /\ base' = Lagged!Since
  BY DEF Lagged!Begin, Lagged!vendor
<1>2. det \in [1 .. N -> Nat] /\ base \in Int /\ clock \in Nat /\ Backfill \in Nat
  BY LagFacts DEF LagSettings, LagSizes, LagInv
<1>3. base' \in Int
  BY <1>1, <1>2 DEF Lagged!Since, Lagged!Horizon
<1>4. Lagged!Detected' = Lagged!Detected /\ Lagged!Detected \subseteq 1 .. N
  BY <1>1 DEF Lagged!Detected, Lagged!Alerts
<1>5. \A i \in Lagged!Detected : det[i] \in Nat
  BY <1>2, <1>4
<1>6. {i \in Lagged!Detected : det[i] >= base'} \cup {i \in Lagged!Detected : det[i] < base'}
      = Lagged!Detected
  BY <1>3, <1>5
<1> QED
  BY <1>1, <1>4, <1>6 DEF Lagged!Promise!Horizon, Lagged!Promise!table, Lagged!Alerts

LEMMA LagStep ==
  ASSUME LagSettings, LagInv, LagInv', [Lagged!Next]_(Lagged!vars)
  PROVE  [Lagged!Promise!Next]_(Lagged!Promise!vars)
<1> USE DEF Lagged!Promise!Next, Lagged!vendor, Lagged!Alerts
<1>t. LagTypes' /\ PageSize \in Nat
  BY DEF LagInv, LagSettings, LagSizes
<1>1. CASE \/ Lagged!Tick \/ Lagged!Fail \/ UNCHANGED Lagged!vars \/ \E i \in 1 .. N : Lagged!Index(i)
           \/ Lagged!Begin /\ wm # 0
  <2>1. UNCHANGED <<det, raw, wm, base>>
    BY <1>1 DEF Lagged!Tick, Lagged!Fail, Lagged!vars, Lagged!Index, Lagged!Begin
  <2> QED
    BY <2>1 DEF Lagged!Promise!vars, Lagged!Promise!table, Lagged!Detected
<1>2. ASSUME NEW i \in 1 .. N, Lagged!Detect(i) PROVE Lagged!Promise!Change
  BY <1>2, LagDetects
<1>3. CASE Lagged!Begin /\ wm = 0
  BY <1>3, LagBegins
<1>4. CASE Lagged!FullPage
  <2>1. /\ pc = "scan" /\ Lagged!Yield(Lagged!First(PageSize)) /\ UNCHANGED <<det, base, wm>>
    BY <1>4 DEF Lagged!FullPage, Lagged!Rows
  <2> QED
    BY <1>t, <2>1, LagIngests
<1>5. CASE Lagged!LastPage \/ Lagged!Stop
  <2>1. PICK n \in Nat : Lagged!End(Lagged!First(n))
    BY <1>5, <1>t DEF Lagged!LastPage, Lagged!Stop, Lagged!Rows
  <2>2. pc = "scan" /\ Lagged!Yield(Lagged!First(n)) /\ UNCHANGED <<det, base>>
    BY <1>5, <2>1 DEF Lagged!LastPage, Lagged!Stop, Lagged!End
  <2> QED
    BY <1>t, <2>1, <2>2, LagIngests
<1> QED
  BY <1>1, <1>2, <1>3, <1>4, <1>5 DEF Lagged!Next, Lagged!Scan

\* The lagged connectors keep the promise of a source, paged by offset or by
\* key and stopped at any record, if their lag covers the delay of the vendor
\* and the length of a run (sources/xdr_alerts.py, sources/wazuh.py, fetch).
THEOREM LagKeepsPromise == ASSUME LagSettings PROVE Lagged!Spec => Lagged!KeepsPromise
<1>1. Lagged!Init => LagInv /\ Lagged!Promise!Init
  BY LagInitial DEF LagSettings
<1>2. LagInv /\ [Lagged!Next]_(Lagged!vars) => LagInv'
  BY LagInvStep
<1>3. LagInv /\ LagInv' /\ [Lagged!Next]_(Lagged!vars) => [Lagged!Promise!Next]_(Lagged!Promise!vars)
  BY LagStep
<1> QED
  BY <1>1, <1>2, <1>3, PTL DEF Lagged!Spec, Lagged!KeepsPromise, Lagged!Promise!Spec

\* What else the type invariant says of the variables.
LagBounds ==
  /\ keyset \in BOOLEAN /\ clock <= MaxClock /\ pc \in {"idle", "scan"}
  /\ last \in 0 .. N /\ faults \in 0 .. MaxFaults

LEMMA LagBoundsStep ==
  ASSUME LagSizes, LagTypes, LagBounds, [Lagged!Next]_(Lagged!vars)
  PROVE  LagBounds'
<1>t. clock \in Nat /\ MaxClock \in Nat /\ MaxFaults \in Nat /\ N \in Nat
  BY DEF LagTypes, LagSizes
<1> USE DEF LagBounds, Lagged!vendor, Lagged!scan, Lagged!place
<1>1. CASE Lagged!Tick
  BY <1>1, <1>t DEF Lagged!Tick, Lagged!MayPass
<1>2. CASE \E i \in Lagged!Alerts : Lagged!Detect(i) \/ Lagged!Index(i)
  BY <1>2 DEF Lagged!Detect, Lagged!Index
<1>3. CASE Lagged!Begin
  BY <1>3, <1>t DEF Lagged!Begin
<1>4. CASE Lagged!FullPage
  <2>1. Lagged!Rows \subseteq 1 .. N
    BY LagRanks DEF Lagged!Rows
  <2> QED
    BY <1>4, <1>t, <2>1 DEF Lagged!FullPage
<1>5. CASE Lagged!LastPage \/ Lagged!Stop
  BY <1>5, <1>t DEF Lagged!LastPage, Lagged!Stop, Lagged!End, Lagged!Fault
<1>6. CASE Lagged!Fail
  BY <1>6, <1>t DEF Lagged!Fail, Lagged!Fault
<1>7. CASE UNCHANGED Lagged!vars
  BY <1>7 DEF Lagged!vars
<1> QED
  BY <1>1, <1>2, <1>3, <1>4, <1>5, <1>6, <1>7 DEF Lagged!Next, Lagged!Scan

\* The variables have their types: the watermark and the marks of a run are
\* always detection times of landed alerts, the ceiling not above the highest
\* (common/run.py, _Tally), whatever the lag.
THEOREM LagTypeCorrect == ASSUME LagSizes PROVE Lagged!Spec => []Lagged!TypeOK
<1> DEFINE Inv == LagTypes /\ LagBounds /\ \A i \in 1 .. N : det[i] <= clock
<1>1. Lagged!Init => Inv
  <2>1. Lagged!Init => LagTypes /\ \A i \in 1 .. N : det[i] <= clock
    BY LagInitial DEF LagInv, LagTimesOK
  <2>2. Lagged!Init => LagBounds
    BY DEF Lagged!Init, LagBounds, LagSizes
  <2> QED
    BY <2>1, <2>2
<1>2. Inv /\ [Lagged!Next]_(Lagged!vars) => Inv'
  <2> SUFFICES ASSUME Inv, [Lagged!Next]_(Lagged!vars) PROVE Inv'
    OBVIOUS
  <2>1. LagTypes' /\ LagBounds'
    BY LagTypesStep, LagBoundsStep
  <2>2. \/ clock' = clock + 1 /\ det' = det
        \/ clock' = clock /\ det' = det
        \/ clock' = clock /\ \E i \in 1 .. N : det' = [det EXCEPT ![i] = clock]
    BY DEF Lagged!Next, Lagged!Scan, Lagged!vars, Lagged!vendor, Lagged!Tick, Lagged!Detect,
       Lagged!Index,
           Lagged!Begin, Lagged!FullPage, Lagged!LastPage, Lagged!Stop, Lagged!End, Lagged!Fail,
           Lagged!Alerts
  <2>t. clock \in Nat /\ det \in [1 .. N -> Nat]
    BY DEF LagTypes
  <2>3. \A i \in 1 .. N : det'[i] <= clock'
    <3>1. CASE clock' = clock + 1 /\ det' = det
      BY <2>t, <3>1
    <3>2. CASE clock' = clock /\ det' = det
      BY <3>2
    <3>3. CASE clock' = clock /\ \E i \in 1 .. N : det' = [det EXCEPT ![i] = clock]
      BY <2>t, <3>3
    <3> QED
      BY <2>2, <3>1, <3>2, <3>3
  <2> QED
    BY <2>1, <2>3
<1>3. Inv => Lagged!TypeOK
  <2> SUFFICES ASSUME Inv PROVE Lagged!TypeOK
    OBVIOUS
  <2>1. /\ clock \in 1 .. MaxClock /\ det \in [1 .. N -> 0 .. MaxClock] /\ began \in 0 .. clock
        /\ last \in {0} \cup 1 .. N /\ ceiling \in 0 .. high
    BY LagFacts DEF LagTypes, LagBounds, LagSizes
  <2> QED
    BY <2>1 DEF LagTypes, LagBounds, LagMarks, Lagged!TypeOK, Lagged!Alerts, Lagged!Detected
<1> QED
  BY <1>1, <1>2, <1>3, PTL DEF Lagged!Spec

----------------------------------------------------------------------------
(* What the promise, which SourceFeed shows to be kept, says of each.      *)

\* Every finding at or below the watermark is in the raw table as it is on the
\* server, at any time, under a scan too, if what the cap vouches for is not
\* disturbed under one (sources/defectdojo.py, fetch).
THEOREM DojoLandedBelowMark ==
  ASSUME DojoSizes, DeleteUnderScan \in BOOLEAN
  PROVE  Dojo!Spec /\ DojoUndisturbed => [](\A i \in present : mod[i] <= wm => landed[i] = mod[i])
<1> DEFINE Landed == \A i \in present : mod[i] <= wm => landed[i] = mod[i]
<1>1. Dojo!Spec /\ DojoUndisturbed => Dojo!Promise!Spec
  BY DojoKeepsPromise DEF Dojo!KeepsPromise
<1>2. Dojo!Promise!Spec => []Dojo!Promise!Kept
  <2>1. /\ MaxClock \in Nat /\ MaxFaults \in Nat
        /\ Skew \in Nat /\ Lead \in Nat /\ DeleteUnderScan \in BOOLEAN
        /\ MinPageSize \in Nat \ {0} /\ PageSize \in Nat /\ MinPageSize <= PageSize
        /\ ShrinkFactor \in Nat /\ ShrinkFactor > 1 /\ GrowAfter \in Nat /\ N \in Nat \ {0}
    BY DEF DojoSizes
  <2> QED
    BY <2>1, Dojo!Promise!PromiseKept, Zenon
<1>3. Dojo!Spec /\ DojoUndisturbed => []DojoInv
  <2>1. Dojo!Init => DojoInv
    BY DojoInit
  <2>2. DojoInv /\ [Dojo!Next]_(Dojo!vars) /\ [DojoKeepsItsPlace]_(Dojo!vars) => DojoInv'
    BY DojoInvStep
  <2> QED
    BY <2>1, <2>2, PTL DEF Dojo!Spec, DojoUndisturbed
<1>4. DojoInv /\ Dojo!Promise!Kept => Landed
  <2> SUFFICES ASSUME DojoInv, Dojo!Promise!Kept, NEW i \in present, mod[i] <= wm
               PROVE  landed[i] = mod[i]
    OBVIOUS
  <2>1. /\ i \in 1 .. N /\ mod[i] \in Nat /\ wm \in Int /\ landed[i] \in Nat
        /\ landed[i] <= mod[i]
    BY DojoFacts
  <2> QED
    BY <2>1 DEF Dojo!Promise!Kept, Dojo!Promise!Settled, Dojo!Ids
<1> QED
  BY <1>1, <1>2, <1>3, <1>4, PTL

\* Every record last modified before the query's instant of the watermark is in
\* the raw table as it is at the vendor, at any time, if what is modified under a
\* scan is stamped past its pin and nothing leaves the window where no two totals
\* are compared (sources/xdr.py, sources/xsoar.py, fetch).
THEOREM CortexLandedBelowMark ==
  ASSUME CortexSizes
  PROVE  Cortex!Spec /\ CortexStampedPast /\ CortexNothingUnseen
         => [](\A i \in 1 .. N : mod[i] < Cortex!FloorToSecond(wm) => landed[i] = mod[i])
<1> DEFINE Landed == \A i \in 1 .. N : mod[i] < Cortex!FloorToSecond(wm) => landed[i] = mod[i]
<1>1. Cortex!Spec /\ CortexStampedPast /\ CortexNothingUnseen => Cortex!Promise!Spec
  BY CortexKeepsPromise DEF Cortex!KeepsPromise
<1>2. Cortex!Promise!Spec => []Cortex!Promise!Kept
  <2>1. /\ N \in Nat \ {0} /\ PageSize \in Nat \ {0}
        /\ Grain \in Nat \ {0} /\ Lead \in Nat /\ MaxClock \in Nat /\ MaxStops \in Nat
        /\ Silent \in BOOLEAN
    BY DEF CortexSizes
  <2> QED
    BY <2>1, Cortex!Promise!PromiseKept, Zenon
<1>3. Cortex!Spec /\ CortexStampedPast /\ CortexNothingUnseen => []CortexInv
  <2>1. Cortex!Init => CortexInv
    BY CortexInit
  <2>2. CortexInv /\ [Cortex!Next]_(Cortex!vars) /\ [CortexPastThePin]_(Cortex!vars)
        /\ [CortexAllSeen]_(Cortex!vars) => CortexInv'
    BY CortexInvStep
  <2> QED
    BY <2>1, <2>2, PTL DEF Cortex!Spec, CortexStampedPast, CortexNothingUnseen
<1>4. CortexInv /\ Cortex!Promise!Kept => Landed
  <2> SUFFICES ASSUME CortexInv, Cortex!Promise!Kept, NEW i \in 1 .. N,
                      mod[i] < Cortex!FloorToSecond(wm)
               PROVE  landed[i] = mod[i]
    OBVIOUS
  <2>1. /\ mod[i] \in Nat /\ wm \in Nat /\ landed[i] \in Nat /\ landed[i] <= mod[i]
    BY DEF CortexInv, CortexTypes, CortexTimesOK
  <2>2. Cortex!FloorToSecond(wm) \in Nat
    BY <2>1, Floor
  <2> QED
    BY <2>1, <2>2 DEF Cortex!Promise!Kept, Cortex!Promise!Settled, Cortex!Records, Cortex!Since
<1> QED
  BY <1>1, <1>2, <1>3, <1>4, PTL

\* Every alert detected between the horizon and the watermark less the lag is in
\* the raw table, at any time (sources/xdr_alerts.py, sources/wazuh.py, fetch).
THEOREM LagLandedBelowMark ==
  ASSUME LagSettings, Burst \in BOOLEAN
  PROVE  Lagged!Spec => [](wm # 0 => \A i \in 1 .. N :
           det[i] # 0 /\ base <= det[i] /\ det[i] < wm - Lag => i \in raw)
<1> DEFINE Landed == wm # 0 => \A i \in 1 .. N :
                       det[i] # 0 /\ base <= det[i] /\ det[i] < wm - Lag => i \in raw
<1>1. Lagged!Spec => Lagged!Promise!Spec
  BY LagKeepsPromise DEF Lagged!KeepsPromise
<1>2. Lagged!Promise!Spec => []Lagged!Promise!Kept
  <2>1. /\ N \in Nat \ {0} /\ PageSize \in Nat \ {0} /\ MinPages \in Nat /\ Backfill \in Nat
        /\ Lag \in Nat /\ Delay \in Nat /\ RunTime \in Nat
        /\ MaxClock \in Nat \ {0} /\ MaxFaults \in Nat
    BY DEF LagSettings, LagSizes
  <2> QED
    BY <2>1, Lagged!Promise!PromiseKept, Zenon
<1>3. Lagged!Spec => []LagInv
  <2>1. Lagged!Init => LagInv
    BY LagInitial DEF LagSettings
  <2>2. LagInv /\ [Lagged!Next]_(Lagged!vars) => LagInv'
    BY LagInvStep
  <2> QED
    BY <2>1, <2>2, PTL DEF Lagged!Spec
<1>4. LagInv /\ Lagged!Promise!Kept => Landed
  <2> SUFFICES ASSUME LagInv, Lagged!Promise!Kept, wm # 0, NEW i \in 1 .. N,
                      det[i] # 0, base <= det[i], det[i] < wm - Lag, i \notin raw
               PROVE  FALSE
    OBVIOUS
  <2>1. det[i] \in Nat /\ wm \in Nat /\ base \in Int /\ Lag \in Nat
    BY LagFacts DEF LagSettings, LagInv
  <2>2. i \in Lagged!Detected
    BY DEF Lagged!Detected, Lagged!Alerts
  <2> QED
    BY <2>1, <2>2 DEF Lagged!Promise!Kept, Lagged!Promise!Settled, Lagged!Alerts
<1> QED
  BY <1>1, <1>2, <1>3, <1>4, PTL

----------------------------------------------------------------------------
(* PageWalk.  What is added to a collection moves the rest away from its   *)
(* start, so that the pages before the current one stay read; what is      *)
(* removed or moved may not let a record step back onto them.              *)

\* What PageWalk assumes of its constants.
LEMMA WalkSizes ==
  /\ Leaves \subseteq Nat /\ Root \notin Campaigns /\ Campaigns \cap Leaves = {}
  /\ Per \in Nat \ {0} /\ PageWalkCap \in Nat \ {0}
  /\ MaxChanges \in Nat /\ MaxFaults \in Nat
BY NodesAssumption, SizeAssumption, KindAssumption

\* The type invariant but for the Booleans, with the shape of the collections.
WalkShape ==
  /\ coll \in [Collections -> Seq(Nodes)]
  /\ \A c \in Collections : Range(coll[c]) \subseteq MayHold(c)
  /\ ver \in [Leaves -> Nat] /\ raw \in [Leaves -> Nat]
  /\ pc \in {"idle", "walk"} /\ mode \in {"reports", "silent", "stuck"}
  /\ at \in Collections /\ todo \subseteq Campaigns
  /\ kind \in Kinds /\ page \in Nat \ {0} /\ (page <= PageWalkCap \/ Ordered)
  /\ count \in Nat
  /\ total \in Nat \cup {Unknown} /\ pages \in Nat \cup {Unknown}
  /\ found \subseteq Campaigns /\ got \subseteq Leaves
  /\ stay \subseteq Nodes /\ changes \in Nat /\ faults \in Nat

\* Where page p of a collection begins and ends.
LEMMA PageBounds ==
  ASSUME NEW p \in Nat \ {0}, NEW q \in Nat \ {0}
  PROVE  (p - 1) * q \in Nat /\ p * q \in Nat /\ p * q = (p - 1) * q + q
  OBVIOUS

\* Putting a record in, taking one out, putting one in front.
LEMMA Inserted ==
  ASSUME NEW S, NEW s \in Seq(S), NEW x \in S, NEW i \in 1 .. Len(s) + 1
  PROVE  LET t == InsertAt(s, i, x)
         IN  /\ t \in Seq(S) /\ Len(s) \in Nat /\ Len(t) = Len(s) + 1
             /\ \A j \in 1 .. Len(t) : t[j] = IF j < i THEN s[j] ELSE IF j = i THEN x ELSE s[j - 1]
<1> DEFINE a == SubSeq(s, 1, i - 1)
           b == SubSeq(s, i, Len(s))
           c == a \o <<x>>
           t == c \o b
<1>0. Len(s) \in Nat /\ \A j \in 1 .. Len(s) : s[j] \in S
  BY LenProperties, ElementOfSeq
<1>1. /\ a \in Seq(S) /\ Len(a) = i - 1
      /\ \A j \in 1 .. i - 1 : a[j] = s[j]
  BY <1>0, SubSeqProperties
<1>2. /\ b \in Seq(S) /\ Len(b) = Len(s) - i + 1
      /\ \A j \in 1 .. Len(s) - i + 1 : b[j] = s[i + j - 1]
  BY <1>0, SubSeqProperties
<1>3. <<x>> \in Seq(S) /\ Len(<<x>>) = 1 /\ <<x>>[1] = x
  OBVIOUS
<1> HIDE DEF a, b, t
<1>4. /\ c \in Seq(S) /\ Len(c) = i
      /\ \A j \in 1 .. i : c[j] = IF j < i THEN s[j] ELSE x
  BY <1>0, <1>1, <1>3, ConcatProperties
<1>6. InsertAt(s, i, x) = t
  BY DEF InsertAt, a, b, t
<1> HIDE DEF c
<1>5. /\ t \in Seq(S) /\ Len(t) = Len(s) + 1
      /\ \A j \in 1 .. Len(s) + 1 : t[j] = IF j <= i THEN c[j] ELSE b[j - i]
  <2>1. Len(c) + Len(b) = Len(s) + 1
    BY <1>0, <1>2, <1>4
  <2> QED  BY <1>2, <1>4, <2>1, ConcatProperties DEF t
<1>7. ASSUME NEW j \in 1 .. Len(s) + 1
      PROVE  t[j] = IF j < i THEN s[j] ELSE IF j = i THEN x ELSE s[j - 1]
  <2>0. j \in Int /\ i \in Int
    BY <1>0
  <2>1. j < i => t[j] = s[j]
    BY <1>0, <1>4, <1>5
  <2>2. j = i => t[j] = x
    BY <1>0, <1>4, <1>5
  <2>3. ASSUME j > i PROVE t[j] = s[j - 1]
    <3>1. j - i \in 1 .. Len(s) - i + 1 /\ i + (j - i) - 1 = j - 1
      BY <1>0, <2>3
    <3>2. b[j - i] = s[j - 1]
      BY <1>2, <3>1
    <3> QED  BY <1>5, <2>0, <2>3, <3>2
  <2> QED  BY ONLY <2>0, <2>1, <2>2, <2>3
<1> QED
  BY <1>0, <1>5, <1>6, <1>7

LEMMA TakenOut ==
  ASSUME NEW S, NEW s \in Seq(S), NEW i \in 1 .. Len(s)
  PROVE  LET t == RemoveAt(s, i)
         IN  /\ t \in Seq(S) /\ Len(t) = Len(s) - 1 /\ Len(s) \in Nat
             /\ \A j \in 1 .. Len(t) : t[j] = IF j < i THEN s[j] ELSE s[j + 1]
<1> DEFINE a == SubSeq(s, 1, i - 1)
           b == SubSeq(s, i + 1, Len(s))
           t == a \o b
<1>0. Len(s) \in Nat /\ \A j \in 1 .. Len(s) : s[j] \in S
  BY LenProperties, ElementOfSeq
<1>1. /\ a \in Seq(S) /\ Len(a) = i - 1
      /\ \A j \in 1 .. i - 1 : a[j] = s[j]
  BY <1>0, SubSeqProperties
<1>2. /\ b \in Seq(S) /\ Len(b) = Len(s) - i
      /\ \A j \in 1 .. Len(s) - i : b[j] = s[i + j]
  BY <1>0, SubSeqProperties
<1> HIDE DEF a, b, t
<1>3. /\ t \in Seq(S) /\ Len(t) = Len(s) - 1
      /\ \A j \in 1 .. Len(s) - 1 : t[j] = IF j < i THEN a[j] ELSE b[j - i + 1]
  <2>1. /\ t \in Seq(S) /\ Len(t) = Len(a) + Len(b)
        /\ \A j \in 1 .. Len(a) + Len(b) : t[j] = IF j <= Len(a) THEN a[j] ELSE b[j - Len(a)]
    BY <1>1, <1>2, ConcatProperties DEF t
  <2>2. Len(a) + Len(b) = Len(s) - 1 /\ i \in Int
    BY <1>0, <1>1, <1>2
  <2>3. ASSUME NEW j \in 1 .. Len(s) - 1
        PROVE  t[j] = IF j < i THEN a[j] ELSE b[j - i + 1]
    <3>1. t[j] = IF j <= Len(a) THEN a[j] ELSE b[j - Len(a)]
      BY <2>1, <2>2
    <3>2. Len(a) = i - 1 /\ j - Len(a) = j - i + 1 /\ (j <= Len(a) <=> j < i)
      BY <1>0, <1>1
    <3> QED  BY ONLY <3>1, <3>2
  <2> QED  BY <2>1, <2>2, <2>3
<1>4. RemoveAt(s, i) = t
  BY DEF RemoveAt, a, b, t
<1>5. ASSUME NEW j \in 1 .. Len(s) - 1
      PROVE  t[j] = IF j < i THEN s[j] ELSE s[j + 1]
  <2>0. j \in Int /\ i \in Int
    BY <1>0
  <2>1. j < i => t[j] = s[j]
    BY <1>0, <1>1, <1>3
  <2>2. ASSUME j >= i PROVE t[j] = s[j + 1]
    <3>1. j - i + 1 \in 1 .. Len(s) - i /\ i + (j - i + 1) = j + 1
      BY <1>0, <2>2
    <3>2. b[j - i + 1] = s[j + 1]
      BY <1>2, <3>1
    <3> QED  BY <1>3, <2>0, <2>2, <3>2
  <2> QED  BY ONLY <2>0, <2>1, <2>2
<1> QED
  BY <1>0, <1>3, <1>4, <1>5

\* What has been put in, taken out or moved to the front.
LEMMA Reordered ==
  ASSUME NEW S, NEW s \in Seq(S)
  PROVE  /\ DOMAIN s = 1 .. Len(s)
         /\ \A x \in S, i \in 1 .. Len(s) + 1 :
              /\ InsertAt(s, i, x) \in Seq(S)
              /\ Range(InsertAt(s, i, x)) = Range(s) \cup {x}
         /\ \A i \in 1 .. Len(s) :
              /\ RemoveAt(s, i) \in Seq(S)
              /\ Range(RemoveAt(s, i)) \subseteq Range(s)
              /\ Range(s) \ {s[i]} \subseteq Range(RemoveAt(s, i))
              /\ <<s[i]>> \o RemoveAt(s, i) \in Seq(S)
              /\ Range(<<s[i]>> \o RemoveAt(s, i)) = Range(s)
<1>1. Len(s) \in Nat /\ DOMAIN s = 1 .. Len(s) /\ \A j \in 1 .. Len(s) : s[j] \in S
  BY LenProperties, ElementOfSeq
<1>2. \A t \in Seq(S) : Range(t) = {t[j] : j \in 1 .. Len(t)} /\ Len(t) \in Nat
  BY LenProperties DEF Range
<1>3. ASSUME NEW x \in S, NEW i \in 1 .. Len(s) + 1
      PROVE  /\ InsertAt(s, i, x) \in Seq(S)
             /\ Range(InsertAt(s, i, x)) = Range(s) \cup {x}
  <2> DEFINE t == InsertAt(s, i, x)
  <2>1. /\ t \in Seq(S) /\ Len(t) = Len(s) + 1
        /\ \A j \in 1 .. Len(t) : t[j] = IF j < i THEN s[j] ELSE IF j = i THEN x ELSE s[j - 1]
    BY Inserted
  <2> HIDE DEF t
  <2>2. Range(t) \subseteq Range(s) \cup {x}
    <3> SUFFICES ASSUME NEW y \in Range(t), y # x PROVE \E k \in 1 .. Len(s) : y = s[k]
      BY <1>2
    <3>0. PICK j \in 1 .. Len(t) : y = t[j]
      BY <1>2, <2>1
    <3>1. CASE j < i
      <4>1. j \in 1 .. Len(s) /\ t[j] = s[j]
        BY <1>1, <2>1, <3>1
      <4> QED  BY <3>0, <4>1
    <3>2. CASE j > i
      <4>1. j - 1 \in 1 .. Len(s) /\ t[j] = s[j - 1]
        BY <1>1, <2>1, <3>2
      <4> QED  BY <3>0, <4>1
    <3>3. j # i
      BY <2>1, <3>0
    <3> QED  BY <1>1, <2>1, <3>1, <3>2, <3>3
  <2>3. t[i] = x /\ i \in 1 .. Len(t)
    BY <1>1, <2>1
  <2>5. \A j \in 1 .. Len(s) : \E k \in 1 .. Len(t) : s[j] = t[k]
    <3> TAKE j \in 1 .. Len(s)
    <3>1. CASE j < i
      <4>1. j \in 1 .. Len(t) /\ s[j] = t[j]
        BY <1>1, <2>1, <3>1
      <4> QED  BY <4>1
    <3>2. CASE ~ (j < i)
      <4>1. /\ j + 1 \in 1 .. Len(t) /\ ~ (j + 1 < i) /\ j + 1 # i /\ (j + 1) - 1 = j
        BY <1>1, <2>1, <3>2
      <4>2. t[j + 1] = s[(j + 1) - 1]
        BY <2>1, <4>1
      <4>3. s[j] = t[j + 1]
        BY <4>1, <4>2
      <4> QED  BY <4>1, <4>3
    <3> QED  BY <3>1, <3>2
  <2> QED  BY <1>2, <2>1, <2>2, <2>3, <2>5 DEF t
<1>4. ASSUME NEW i \in 1 .. Len(s)
      PROVE  /\ RemoveAt(s, i) \in Seq(S)
             /\ Range(RemoveAt(s, i)) \subseteq Range(s)
             /\ Range(s) \ {s[i]} \subseteq Range(RemoveAt(s, i))
             /\ <<s[i]>> \o RemoveAt(s, i) \in Seq(S)
             /\ Range(<<s[i]>> \o RemoveAt(s, i)) = Range(s)
  <2> DEFINE t == RemoveAt(s, i)
             u == <<s[i]>> \o t
  <2>1. /\ t \in Seq(S) /\ Len(t) = Len(s) - 1
        /\ \A j \in 1 .. Len(t) : t[j] = IF j < i THEN s[j] ELSE s[j + 1]
    BY TakenOut
  <2> HIDE DEF t
  <2>2. Range(t) \subseteq Range(s)
    BY <1>1, <1>2, <2>1
  <2>3. <<s[i]>> \in Seq(S) /\ Len(<<s[i]>>) = 1 /\ <<s[i]>>[1] = s[i]
    BY <1>1
  <2>4. /\ u \in Seq(S) /\ Len(u) = 1 + Len(t)
        /\ \A j \in 1 .. 1 + Len(t) : u[j] = IF j <= 1 THEN <<s[i]>>[j] ELSE t[j - 1]
    BY <2>1, <2>3, ConcatProperties
  <2> HIDE DEF u
  <2>5. Range(u) \subseteq Range(t) \cup {s[i]}
    BY <1>1, <1>2, <2>1, <2>3, <2>4
  <2>6. \A j \in 1 .. Len(s) : j # i => \E m \in 1 .. Len(t) : s[j] = t[m]
    <3> TAKE j \in 1 .. Len(s)
    <3>1. CASE j < i
      <4>1. j \in 1 .. Len(t) /\ s[j] = t[j]
        BY <1>1, <2>1, <3>1
      <4> QED  BY <4>1
    <3>2. CASE j > i
      <4>1. j - 1 \in 1 .. Len(t) /\ ~ (j - 1 < i) /\ (j - 1) + 1 = j
        BY <1>1, <2>1, <3>2
      <4>2. t[j - 1] = s[j]
        BY <2>1, <4>1
      <4> QED  BY <4>1, <4>2
    <3> QED  BY <3>1, <3>2
  <2>7. Range(s) \ {s[i]} \subseteq Range(t)
    <3>1. /\ Range(s) = {s[j] : j \in 1 .. Len(s)}
          /\ Range(t) = {t[j] : j \in 1 .. Len(t)}
      BY <1>2, <2>1
    <3> QED  BY ONLY <2>6, <3>1
  <2>8. s[i] \in Range(u)
    <3>1. 1 \in 1 .. Len(u) /\ u[1] = s[i]
      BY <1>2, <2>1, <2>3, <2>4
    <3> QED  BY <1>2, <2>4, <3>1
  <2>9. Range(t) \subseteq Range(u)
    <3>1. \A m \in 1 .. Len(t) : m + 1 \in 1 .. Len(u) /\ ~ (m + 1 <= 1) /\ (m + 1) - 1 = m
      BY <1>2, <2>1, <2>4
    <3>2. \A m \in 1 .. Len(t) : t[m] = u[m + 1]
      BY <2>4, <3>1, <1>2, <2>1
    <3>3. /\ Range(u) = {u[j] : j \in 1 .. Len(u)}
          /\ Range(t) = {t[j] : j \in 1 .. Len(t)}
      BY <1>2, <2>1, <2>4
    <3> QED  BY ONLY <3>1, <3>2, <3>3
  <2> QED  BY <1>2, <2>1, <2>2, <2>4, <2>5, <2>7, <2>8, <2>9 DEF t, u
<1> QED  BY <1>1, <1>3, <1>4

\* What page p of a collection is.
LEMMA PageIs ==
  ASSUME NEW c, NEW S, coll[c] \in Seq(S), NEW p \in Nat \ {0}
  PROVE  LET t == PageOf(c, p)
         IN  /\ t \in Seq(S) /\ Len(t) \in 0 .. Per /\ Len(coll[c]) \in Nat
             /\ Len(t) < Per => Len(coll[c]) < p * Per
             /\ Len(t) # 0 => Len(t) <= Len(coll[c]) - (p - 1) * Per
             /\ Len(t) = Per => Len(coll[c]) >= p * Per
             /\ \A i \in 1 .. Len(coll[c]) :
                  (p - 1) * Per < i /\ i <= p * Per => coll[c][i] \in Range(t)
<1> DEFINE s == coll[c]
           t == PageOf(c, p)
           a == (p - 1) * Per
           b == p * Per
           e == IF b < Len(s) THEN b ELSE Len(s)
<1>1. a \in Nat /\ b \in Nat /\ b = a + Per /\ Per \in Nat \ {0}
  BY PageBounds, WalkSizes
<1>2. Len(s) \in Nat /\ \A i \in 1 .. Len(s) : s[i] \in S
  BY LenProperties, ElementOfSeq
<1>3. t = SubSeq(s, a + 1, e)
  BY DEF PageOf
<1> HIDE DEF a, b, s, t
<1>4. e \in Int /\ \A i \in a + 1 .. e : s[i] \in S
  BY <1>1, <1>2
<1>5. /\ t \in Seq(S) /\ Len(t) = IF a + 1 <= e THEN e - (a + 1) + 1 ELSE 0
      /\ \A i \in 1 .. e - (a + 1) + 1 : t[i] = s[a + 1 + i - 1]
  <2> HIDE DEF e
  <2> QED  BY <1>1, <1>3, <1>4, SubSeqProperties
<1>6. Len(t) = IF a < e THEN e - a ELSE 0
  BY <1>1, <1>2, <1>5
<1>7. Range(t) = {t[i] : i \in 1 .. Len(t)}
  BY <1>5, LenProperties DEF Range
<1>8. ASSUME NEW i \in 1 .. Len(s), a < i, i <= b PROVE s[i] \in Range(t)
  <2>1. i \in Int /\ i <= e /\ a < e
    BY <1>1, <1>2, <1>8
  <2>2. i - a \in 1 .. e - (a + 1) + 1 /\ a + 1 + (i - a) - 1 = i /\ i - a \in 1 .. Len(t)
    BY <1>1, <1>2, <1>6, <1>8, <2>1
  <2>3. t[i - a] = s[i]
    BY <1>5, <2>2
  <2> QED  BY <1>7, <2>2, <2>3
<1>9. /\ Len(t) \in 0 .. Per
      /\ Len(t) < Per => Len(s) < b
      /\ Len(t) # 0 => Len(t) <= Len(s) - a
      /\ Len(t) = Per => Len(s) >= b
  BY <1>1, <1>2, <1>6
<1> QED  BY <1>2, <1>5, <1>8, <1>9 DEF s, t, a, b

\* The number of pages is in reach of the last record.
LEMMA EnoughPages ==
  ASSUME NEW n \in Nat, NEW q \in Nat \ {0}, NEW p \in Nat \ {0}
  PROVE  /\ (n + q - 1) \div q \in Nat
         /\ p >= (n + q - 1) \div q => n <= p * q
<1> DEFINE m == (n + q - 1) \div q
           r == (n + q - 1) % q
<1>1. m \in Nat /\ r \in Nat /\ r < q /\ n + q - 1 = q * m + r
  OBVIOUS
<1> HIDE DEF m, r
<1>2. n <= q * m
  BY <1>1
<1>3. p >= m => q * m <= p * q
  <2> SUFFICES ASSUME p >= m PROVE q * m <= p * q
    OBVIOUS
  <2>1. PICK d \in Nat : p = m + d
    BY <1>1
  <2>2. p * q = q * m + q * d /\ q * d \in Nat /\ q * m \in Nat
    BY <1>1, <2>1
  <2> QED  BY <2>2
<1>4. p * q \in Nat /\ q * m \in Nat
  BY <1>1
<1>5. p >= m => n <= p * q
  BY <1>2, <1>3, <1>4
<1> QED  BY <1>1, <1>5 DEF m

\* What a page or a page cut short holds is of the collection.
LEMMA ServedIs ==
  ASSUME WalkShape
  PROVE  /\ Served \in Seq(Nodes) /\ Len(Served) \in Nat
         /\ Len(coll[at]) \in Nat
         /\ \A nodes \in Cut :
              /\ nodes \in Seq(Nodes) /\ Len(nodes) \in Nat
              /\ Len(nodes) < Len(Served)
         /\ TotalNow \in Nat \cup {Unknown}
         /\ PagesNow \in Nat \cup {Unknown}
<1>1. coll[at] \in Seq(Nodes) /\ page \in Nat \ {0} /\ Per \in Nat \ {0}
  BY WalkSizes DEF WalkShape
<1>2. Served \in Seq(Nodes) /\ Len(Served) \in Nat /\ Len(coll[at]) \in Nat
  <2> DEFINE p == IF mode = "stuck" THEN 1 ELSE page
  <2>1. p \in Nat \ {0}
    BY <1>1
  <2>2. Served = PageOf(at, p)
    BY DEF Served
  <2> HIDE DEF p
  <2>3. PageOf(at, p) \in Seq(Nodes) /\ Len(PageOf(at, p)) \in 0 .. Per
        /\ Len(coll[at]) \in Nat
    BY <1>1, <2>1, PageIs
  <2> QED  BY <1>1, <2>2, <2>3
<1>3. ASSUME NEW nodes \in Cut
      PROVE  nodes \in Seq(Nodes) /\ Len(nodes) \in Nat /\ Len(nodes) < Len(Served)
  <2>1. PICK n \in 0 .. Len(Served) - 1 : nodes = SubSeq(Served, 1, n)
    BY DEF Cut
  <2>2. \A i \in 1 .. n : Served[i] \in Nodes
    BY <1>2, <2>1, ElementOfSeq
  <2>3. SubSeq(Served, 1, n) \in Seq(Nodes)
        /\ Len(SubSeq(Served, 1, n)) = IF 1 <= n THEN n - 1 + 1 ELSE 0
    BY <1>2, <2>1, <2>2, SubSeqProperties
  <2> QED  BY <1>2, <2>1, <2>3
<1>4. TotalNow \in Nat \cup {Unknown}
  BY <1>2 DEF TotalNow, WalkShape
<1>5. PagesNow \in Nat \cup {Unknown}
  <2>1. (Len(coll[at]) + Per - 1) \div Per \in Nat
    BY <1>1, <1>2, EnoughPages
  <2> QED  BY <2>1 DEF PagesNow, WalkShape
<1> QED  BY <1>2, <1>3, <1>4, <1>5

\* What a yield lands.
LEMMA YieldIs ==
  ASSUME WalkShape, NEW nodes, Yield(nodes)
  PROVE  /\ got' = got \cup (Range(nodes) \cap Leaves) /\ got' \subseteq Leaves
         /\ found' = found \cup (Range(nodes) \cap Campaigns) /\ found' \subseteq Campaigns
         /\ raw' \in [Leaves -> Nat]
  BY DEF Yield, LeavesOf, WalkShape

\* The end of a collection's walk keeps the shape.
LEMMA OverShape ==
  ASSUME WalkShape, NEW nodes, WalkOver(nodes), faults' \in Nat, pc = "walk"
  PROVE  WalkShape'
<1>1. /\ UNCHANGED <<kind, coll, ver, stay, changes, mode>>
      /\ page' = 1 /\ count' = 0 /\ total' = Unknown /\ pages' = Unknown
      /\ Yield(nodes)
  BY DEF WalkOver, server
<1>2. /\ got' \subseteq Leaves /\ found' \subseteq Campaigns /\ raw' \in [Leaves -> Nat]
  BY <1>1, YieldIs
<1>3. /\ at' \in Collections /\ todo' \subseteq Campaigns /\ pc' \in {"idle", "walk"}
  <2> DEFINE rest == IF Nested /\ at = Root THEN found' ELSE todo
  <2>1. \/ \E c \in rest : at' = c /\ todo' = rest \ {c} /\ pc' = pc
        \/ rest = {} /\ pc' = "idle" /\ at' = at /\ todo' = todo
    BY DEF WalkOver
  <2>2. rest \subseteq Campaigns
    BY <1>2 DEF WalkShape
  <2> HIDE DEF rest
  <2> QED  BY <2>1, <2>2 DEF WalkShape, Collections
<1>4. 1 \in Nat \ {0} /\ 1 <= PageWalkCap
  BY WalkSizes
<1> QED
  BY <1>1, <1>2, <1>3, <1>4 DEF WalkShape, MayHold, Nested, Ordered

LEMMA WalkShapeStep ==
  ASSUME WalkShape, [Next]_vars PROVE WalkShape'
<1> USE DEF server, walk, Changed, Fault
<1>1. ASSUME NEW c \in Collections, NEW x \in Nodes, Create(c, x) PROVE WalkShape'
  <2>1. PICK i \in 1 .. Len(coll[c]) + 1 :
          coll' = [coll EXCEPT ![c] = InsertAt(coll[c], i, x)]
    BY <1>1 DEF Create
  <2>2. /\ InsertAt(coll[c], i, x) \in Seq(Nodes)
        /\ Range(InsertAt(coll[c], i, x)) = Range(coll[c]) \cup {x}
    BY <2>1, Reordered DEF WalkShape
  <2>3. x \in MayHold(c) /\ UNCHANGED <<kind, ver, stay, raw, pc, mode, at, todo, page, count,
          total, pages, found, got, faults>> /\ changes' \in Nat
    BY <1>1 DEF Create, WalkShape
  <2>4. coll' \in [Collections -> Seq(Nodes)]
        /\ \A d \in Collections : Range(coll'[d]) \subseteq MayHold(d)
    BY <2>1, <2>2, <2>3 DEF WalkShape
  <2> QED  BY <2>3, <2>4 DEF WalkShape, MayHold, Nested, Ordered
<1>2. ASSUME NEW x \in Leaves, Progress(x) PROVE WalkShape'
  <2>1. ver' \in [Leaves -> Nat]
    BY <1>2 DEF Progress, WalkShape
  <2> QED  BY <1>2, <2>1 DEF Progress, WalkShape, MayHold, Nested, Ordered
<1>3. ASSUME NEW c \in Collections, Shuffle(c) PROVE WalkShape'
  <2>1. PICK i \in DOMAIN coll[c] :
          \/ coll' = [coll EXCEPT ![c] = RemoveAt(coll[c], i)] /\ stay' = stay \ {coll[c][i]}
          \/ coll' = [coll EXCEPT ![c] = <<coll[c][i]>> \o RemoveAt(coll[c], i)]
             /\ stay' = stay
    BY <1>3 DEF Shuffle
  <2>2. /\ RemoveAt(coll[c], i) \in Seq(Nodes)
        /\ Range(RemoveAt(coll[c], i)) \subseteq Range(coll[c])
        /\ <<coll[c][i]>> \o RemoveAt(coll[c], i) \in Seq(Nodes)
        /\ Range(<<coll[c][i]>> \o RemoveAt(coll[c], i)) \subseteq Range(coll[c])
    <3>1. coll[c] \in Seq(Nodes)
      BY DEF WalkShape
    <3> QED  BY <2>1, <3>1, Reordered
  <2>3. PICK t \in Seq(Nodes) :
          Range(t) \subseteq Range(coll[c]) /\ coll' = [coll EXCEPT ![c] = t]
    BY <2>1, <2>2
  <2>4. UNCHANGED <<kind, ver, raw, pc, mode, at, todo, page, count, total, pages, found, got, faults>>
        /\ changes' \in Nat
    BY <1>3 DEF Shuffle, WalkShape
  <2>5. coll' \in [Collections -> Seq(Nodes)]
        /\ \A d \in Collections : Range(coll'[d]) \subseteq MayHold(d)
    BY <2>3 DEF WalkShape
  <2>6. stay' \subseteq Nodes
    BY <2>1 DEF WalkShape
  <2> QED  BY <2>4, <2>5, <2>6 DEF WalkShape, MayHold, Nested, Ordered
<1>4. CASE Begin
  <2>1. Listed \subseteq Nodes
    BY DEF Listed, WalkShape, MayHold, Nodes
  <2>2. 1 \in Nat \ {0} /\ 1 <= PageWalkCap
    BY WalkSizes
  <2>3. mode' \in {"reports", "silent", "stuck"} /\ faults' \in Nat
    BY <1>4 DEF Begin, WalkShape
  <2> QED
    BY <1>4, <2>1, <2>2, <2>3
    DEF Begin, WalkShape, MayHold, Nested, Ordered, Collections
<1>5. CASE Turn
  <2>1. /\ Yield(Served) /\ ~ AtCap
        /\ count' = count + Len(Served) /\ total' = TotalNow /\ pages' = PagesNow
        /\ page' = page + 1
        /\ UNCHANGED <<kind, coll, ver, stay, changes, pc, mode, at, todo, partial, note, faults>>
    BY <1>5 DEF Turn
  <2>2. /\ got' \subseteq Leaves /\ found' \subseteq Campaigns /\ raw' \in [Leaves -> Nat]
    BY <2>1, YieldIs
  <2>3. /\ count' \in Nat /\ total' \in Nat \cup {Unknown} /\ pages' \in Nat \cup {Unknown}
    BY <2>1, ServedIs DEF WalkShape
  <2>4. page' \in Nat \ {0} /\ (page' <= PageWalkCap \/ Ordered)
    BY <2>1, WalkSizes DEF WalkShape, AtCap
  <2> QED
    BY <2>1, <2>2, <2>3, <2>4 DEF WalkShape, MayHold, Nested, Ordered
<1>6. CASE LastTurn
  <2>1. faults' \in Nat /\ pc = "walk"
    BY <1>6 DEF LastTurn, WalkShape
  <2>2. WalkOver(Served) \/ \E nodes \in Cut : WalkOver(nodes)
    BY <1>6 DEF LastTurn
  <2> QED  BY <2>1, <2>2, OverShape
<1>7. CASE Fail
  BY <1>7 DEF Fail, WalkShape, MayHold, Nested, Ordered
<1>8. CASE UNCHANGED vars
  BY <1>8 DEF vars, WalkShape, MayHold, Nested, Ordered
<1> QED
  BY <1>1, <1>2, <1>3, <1>4, <1>5, <1>6, <1>7, <1>8 DEF Next, Run

LEMMA WalkNotes ==
  ASSUME partial \in BOOLEAN, note \in BOOLEAN, [Next]_vars
  PROVE  partial' \in BOOLEAN /\ note' \in BOOLEAN
<1>0. ASSUME NEW nodes, WalkOver(nodes) PROVE partial' \in BOOLEAN /\ note' \in BOOLEAN
  <2>1. partial' \in BOOLEAN
    BY <1>0, Zenon DEF WalkOver
  <2>2. note' = note \/ note' = partial'
    BY <1>0 DEF WalkOver
  <2> QED  BY <2>1, <2>2, Zenon
<1>1. CASE LastTurn
  BY <1>0, <1>1 DEF LastTurn
<1>2. CASE ~ LastTurn
  <2>1. /\ partial' = partial \/ partial' = FALSE
        /\ note' = note \/ note' = TRUE
    BY <1>2 DEF Next, Create, Shuffle, Progress, Run, Begin,
       Turn, Fail, vars, walk
  <2> QED  BY <2>1, Zenon
<1> QED  BY <1>1, <1>2

LEMMA WalkInit == Init => WalkShape /\ partial \in BOOLEAN /\ note \in BOOLEAN
<1> SUFFICES ASSUME Init PROVE WalkShape /\ partial \in BOOLEAN /\ note \in BOOLEAN
  OBVIOUS
<1>1. << >> \in Seq(Nodes) /\ Range(<< >>) = {}
  BY EmptySeq DEF Range
<1>2. 1 \in Nat \ {0} /\ 1 <= PageWalkCap
  BY WalkSizes
<1>3. coll \in [Collections -> Seq(Nodes)]
      /\ \A c \in Collections : Range(coll[c]) \subseteq MayHold(c)
  BY <1>1 DEF Init
<1>4. WalkShape
  BY <1>2, <1>3 DEF Init, WalkShape, Collections
<1> QED  BY <1>4 DEF Init

\* The types of PageWalk's variables; collections hold what they may hold, and no
\* KSAT walk passes the cap.
THEOREM WalkTypeCorrect == Spec => []TypeOK
<1> DEFINE I == WalkShape /\ partial \in BOOLEAN /\ note \in BOOLEAN
<1>1. Init => I
  BY WalkInit
<1>2. I /\ [Next]_vars => I'
  BY WalkShapeStep, WalkNotes
<1>3. I => TypeOK
  BY DEF WalkShape, TypeOK
<1> QED  BY <1>1, <1>2, <1>3, PTL DEF Spec

\* No record that stays steps from a page still to be asked for onto one that
\* was read.
NoneStepsBack ==
  pc = "walk" =>
    \A i \in 1 .. Len(coll'[at]) :
       i <= (page - 1) * Per /\ coll'[at][i] \in stay'
         => \E j \in 1 .. Len(coll[at]) : j <= (page - 1) * Per /\ coll[at][j] = coll'[at][i]
NoStepBack == [][NoneStepsBack]_vars

\* The walk of one collection: what is counted and read, unless the server is
\* stuck on its first page.
WalkPlace ==
  /\ mode # "reports" => total = Unknown /\ pages = Unknown
  /\ mode # "stuck" =>
       /\ count = (page - 1) * Per
       /\ \A i \in 1 .. Len(coll[at]) :
            i <= (page - 1) * Per /\ coll[at][i] \in stay => coll[at][i] \in got \cup found

\* What stays is listed; the campaigns walked before this one are read, or the
\* run is partial.
Read(c) == \A x \in Range(coll[c]) \cap stay : x \in got
WalkAround ==
  /\ stay \subseteq Listed
  /\ ~ Nested => at = Root /\ todo = {}
  /\ Nested /\ at # Root =>
       \A c \in stay \cap Campaigns : partial \/ c = at \/ c \in todo \/ Read(c)

WalkInv == /\ WalkShape /\ partial \in BOOLEAN /\ note \in BOOLEAN
           /\ pc = "walk" => WalkPlace /\ WalkAround

\* A walk that ends and leaves the run clean has read its collection.
LEMMA CollectionRead ==
  ASSUME WalkShape, WalkPlace, pc = "walk",
         NEW nodes, WalkOver(nodes), ~ partial',
         nodes = Served \/ (mode = "reports" /\ nodes \in Cut)
  PROVE  \A x \in Range(coll[at]) \cap stay : x \in got' \cup found'
<1> DEFINE s == coll[at]
           k == (page - 1) * Per
           p == IF mode = "stuck" THEN 1 ELSE page
<1>1. ~ IsShort(nodes) /\ IsLast(nodes) /\ Yield(nodes)
  BY DEF WalkOver
<1>2. /\ s \in Seq(Nodes) /\ Len(s) \in Nat /\ page \in Nat \ {0} /\ Per \in Nat \ {0}
      /\ p \in Nat \ {0} /\ Served = PageOf(at, p)
  BY ServedIs, WalkSizes DEF WalkShape, Served
<1>3. k \in Nat /\ page * Per = k + Per /\ page * Per \in Nat /\ (1 - 1) * Per = 0 /\ 1 * Per = Per
  BY <1>2, PageBounds
<1>4. /\ Len(Served) \in 0 .. Per
      /\ Len(Served) < Per => Len(s) < p * Per
      /\ Len(Served) # 0 => Len(Served) <= Len(s) - (p - 1) * Per
      /\ \A i \in 1 .. Len(s) : (p - 1) * Per < i /\ i <= p * Per => s[i] \in Range(Served)
  BY <1>2, PageIs
<1> HIDE DEF k, p, s
<1>5. nodes = Served
  <2> SUFFICES ASSUME mode = "reports", nodes \in Cut PROVE FALSE
    OBVIOUS
  <2>1. TotalNow = Len(s) /\ count = k
    BY DEF TotalNow, WalkPlace, s, k
  <2>2. Len(nodes) \in Nat /\ Len(nodes) < Len(Served)
    BY ServedIs
  <2>3. p = page
    BY DEF p
  <2>4. Len(Served) <= Len(s) - k
    BY <1>4, <2>2, <2>3 DEF k
  <2>5. Len(s) # Unknown
    BY <1>2 DEF Unknown
  <2>6. count + Len(nodes) < TotalNow
    BY <1>2, <1>3, <1>4, <2>1, <2>2, <2>4
  <2> QED  BY <1>1, <2>1, <2>5, <2>6 DEF IsShort
<1>6. p = page \/ (mode = "stuck" /\ p = 1 /\ PagesNow = Unknown)
  BY DEF p, WalkPlace, PagesNow
<1>7. \/ Served = << >>
      \/ PagesNow # Unknown /\ page >= PagesNow
      \/ Len(Served) < Per
  BY <1>1, <1>5 DEF IsLast
<1>8. /\ \A x \in Range(nodes) : x \in Nodes => x \in got' \cup found'
      /\ got \subseteq got' /\ found \subseteq found'
  BY <1>1, YieldIs DEF Nodes
<1>9. Range(s) = {s[i] : i \in 1 .. Len(s)} /\ \A i \in 1 .. Len(s) : s[i] \in Nodes
  BY <1>2, LenProperties, ElementOfSeq DEF Range
<1>10. CASE p # page
  <2>1. Len(Served) < Per /\ p = 1
    BY <1>2, <1>6, <1>7, <1>10
  <2>2. \A i \in 1 .. Len(s) : s[i] \in Range(Served)
    BY <1>2, <1>3, <1>4, <2>1
  <2> QED  BY <1>5, <1>8, <1>9, <2>2 DEF s
<1>11. CASE p = page
  <2>1. Len(s) <= page * Per
    <3>1. CASE Len(Served) < Per
      BY <1>2, <1>3, <1>4, <1>11, <3>1
    <3>2. CASE PagesNow # Unknown /\ page >= PagesNow /\ mode = "reports"
      <4>1. PagesNow = (Len(s) + Per - 1) \div Per
        BY <3>2 DEF PagesNow, s
      <4> QED  BY <1>2, <3>2, <4>1, EnoughPages
    <3>3. PagesNow = Unknown \/ mode = "reports"
      BY DEF WalkPlace, PagesNow
    <3>4. Served = << >> => Len(Served) < Per
      BY <1>2
    <3> QED  BY <1>7, <3>1, <3>2, <3>3, <3>4
  <2>2. ASSUME NEW i \in 1 .. Len(s), s[i] \in stay PROVE s[i] \in got' \cup found'
    <3>1. CASE i <= k
      <4>1. mode # "stuck"
        BY <1>2, <1>3, <1>11, <3>1 DEF p, k
      <4>2. s[i] \in got \cup found
        BY <2>2, <3>1, <4>1 DEF WalkPlace, s, k
      <4> QED  BY <1>8, <4>2
    <3>2. CASE i > k
      <4>1. s[i] \in Range(Served)
        BY <1>2, <1>3, <1>4, <1>11, <2>1, <3>2 DEF k
      <4> QED  BY <1>5, <1>8, <1>9, <4>1
    <3> QED  BY <1>2, <1>3, <3>1, <3>2
  <2> QED  BY <1>9, <2>2 DEF s
<1> QED  BY <1>10, <1>11

\* A record that is put in was not listed, and moves others away from the start.
LEMMA CreateKeeps ==
  ASSUME WalkInv, pc = "walk",
         NEW c \in Collections, NEW x \in Nodes, Create(c, x)
  PROVE  WalkPlace' /\ WalkAround'
<1>1. PICK i \in 1 .. Len(coll[c]) + 1 :
        coll' = [coll EXCEPT ![c] = InsertAt(coll[c], i, x)]
  BY DEF Create
<1>2. /\ x \notin Listed /\ coll[c] \in Seq(Nodes)
      /\ UNCHANGED <<kind, stay, mode, at, todo, page, count, total, pages, found, got, partial>>
  BY DEF Create, walk, WalkInv, WalkShape
<1>3. WalkShape /\ WalkPlace /\ WalkAround
  BY DEF WalkInv
<1>4. x \notin stay
  BY <1>2, <1>3 DEF WalkAround
<1> DEFINE s == coll[c]
           t == InsertAt(s, i, x)
<1>5. /\ Len(s) \in Nat /\ Len(t) = Len(s) + 1
      /\ \A j \in 1 .. Len(t) : t[j] = IF j < i THEN s[j] ELSE IF j = i THEN x ELSE s[j - 1]
      /\ Range(t) = Range(s) \cup {x}
  <2> HIDE DEF s
  <2>1. s \in Seq(Nodes) /\ i \in 1 .. Len(s) + 1
    BY <1>2 DEF s
  <2>2. /\ Len(s) \in Nat /\ Len(t) = Len(s) + 1
        /\ \A j \in 1 .. Len(t) : t[j] = IF j < i THEN s[j] ELSE IF j = i THEN x ELSE s[j - 1]
    BY ONLY <2>1, x \in Nodes, Inserted
  <2>3. Range(t) = Range(s) \cup {x}
    BY ONLY <2>1, x \in Nodes, Reordered
  <2> QED  BY <2>2, <2>3
<1> HIDE DEF t
<1>6. coll' = [coll EXCEPT ![c] = t] /\ coll \in [Collections -> Seq(Nodes)]
  BY <1>1, <1>3 DEF t, WalkShape
<1>7. \A d \in Collections : Range(coll'[d]) \cap stay = Range(coll[d]) \cap stay
  BY <1>4, <1>5, <1>6
<1>8. WalkAround'
  <2>1. stay' \subseteq (Listed)'
    BY <1>2, <1>3, <1>7 DEF WalkAround, Listed, Collections
  <2>2. (Nested)' = Nested
    BY <1>2 DEF Nested
  <2>3. \A d \in Campaigns : Read(d) => Read(d)'
    BY <1>2, <1>7 DEF Read, Collections
  <2> QED  BY <1>2, <1>3, <2>1, <2>2, <2>3 DEF WalkAround
<1>9. WalkPlace'
  <2>1. CASE c # at
    <3>1. coll'[at] = coll[at]
      BY <1>3, <1>6, <2>1 DEF WalkShape
    <3> QED  BY <1>2, <1>3, <3>1 DEF WalkPlace
  <2>2. CASE c = at
    <3>1. coll'[at] = t /\ coll[at] = s
      BY <1>6, <2>2
    <3>2. count \in Nat /\ (page - 1) * Per \in Nat /\ Per \in Nat
      BY <1>3, PageBounds, WalkSizes DEF WalkShape
    <3>3. ASSUME mode # "stuck", NEW j \in 1 .. Len(t), j <= (page - 1) * Per, t[j] \in stay
          PROVE  t[j] \in got \cup found
      <4> DEFINE k == (page - 1) * Per
      <4>1. \A m \in 1 .. Len(s) : m <= k /\ s[m] \in stay => s[m] \in got \cup found
        BY <1>3, <3>1, <3>3 DEF WalkPlace
      <4> HIDE DEF s, k
      <4>2. CASE j < i
        <5>1. t[j] = s[j] /\ j \in 1 .. Len(s)
          BY <1>5, <4>2 DEF s
        <5> QED  BY <3>3, <4>1, <5>1 DEF k
      <4>3. CASE j > i
        <5>1. t[j] = s[j - 1] /\ j - 1 \in 1 .. Len(s)
          BY <1>5, <4>3 DEF s
        <5>2. j - 1 <= k
          BY <3>2, <3>3, <5>1 DEF k
        <5> QED  BY <3>3, <4>1, <5>1, <5>2
      <4>4. j # i
        BY <1>4, <1>5, <3>3
      <4> QED  BY <1>5, <4>2, <4>3, <4>4
    <3> QED  BY <1>2, <1>3, <1>5, <3>1, <3>2, <3>3 DEF WalkPlace
  <2> QED  BY <2>1, <2>2
<1> QED  BY <1>8, <1>9

\* A page is read and the walk goes on.
LEMMA TurnKeeps ==
  ASSUME WalkInv, Turn
  PROVE  WalkPlace' /\ WalkAround'
<1>1. /\ pc = "walk" /\ ~ IsLast(Served) /\ Yield(Served)
      /\ count' = count + Len(Served) /\ total' = TotalNow /\ pages' = PagesNow
      /\ page' = page + 1
      /\ UNCHANGED <<kind, coll, stay, mode, at, todo, partial>>
  BY DEF Turn, server
<1>2. WalkShape /\ WalkPlace /\ WalkAround
  BY <1>1 DEF WalkInv
<1>3. /\ got \subseteq got' /\ found \subseteq found'
      /\ \A x \in Range(Served) : x \in Nodes => x \in got' \cup found'
  BY <1>1, <1>2, YieldIs DEF Nodes
<1>4. WalkAround'
  <2>1. (Nested)' = Nested /\ (Listed)' = Listed
    BY <1>1 DEF Nested, Listed
  <2>2. \A d : Read(d) => Read(d)'
    BY <1>1, <1>3 DEF Read
  <2> QED  BY <1>1, <1>2, <2>1, <2>2 DEF WalkAround
<1>5. WalkPlace'
  <2> DEFINE s == coll[at]
             k == (page - 1) * Per
             p == IF mode = "stuck" THEN 1 ELSE page
  <2>1. /\ s \in Seq(Nodes) /\ Len(s) \in Nat /\ page \in Nat \ {0} /\ Per \in Nat \ {0}
        /\ p \in Nat \ {0} /\ Served = PageOf(at, p)
    BY <1>2, ServedIs, WalkSizes DEF WalkShape, Served
  <2>2. /\ k \in Nat /\ page * Per = k + Per /\ page * Per \in Nat
        /\ (page + 1 - 1) * Per = k + Per /\ 1 * Per = Per
    BY <2>1, PageBounds
  <2>3. /\ Len(Served) \in 0 .. Per
        /\ \A i \in 1 .. Len(s) : (p - 1) * Per < i /\ i <= p * Per => s[i] \in Range(Served)
    BY <2>1, PageIs
  <2>4. Len(Served) = Per
    BY <1>1, <2>1, <2>3 DEF IsLast
  <2>5. \A i \in 1 .. Len(s) : s[i] \in Nodes
    BY <2>1, ElementOfSeq
  <2> HIDE DEF s, k, p
  <2>6. mode # "reports" => total' = Unknown /\ pages' = Unknown
    BY <1>1, <1>2 DEF WalkPlace, TotalNow, PagesNow
  <2>8. ASSUME mode # "stuck"
        PROVE  /\ count' = k + Per
               /\ \A i \in 1 .. Len(s) : i <= k + Per /\ s[i] \in stay => s[i] \in got' \cup found'
    <3>1. p = page
      BY <2>8 DEF p
    <3>2. count = k /\ \A i \in 1 .. Len(s) : i <= k /\ s[i] \in stay => s[i] \in got \cup found
      BY <1>2, <2>8 DEF WalkPlace, k, s
    <3>3. \A i \in 1 .. Len(s) : k < i /\ i <= k + Per => s[i] \in got' \cup found'
      BY <1>3, <2>2, <2>3, <2>5, <3>1 DEF k
    <3>4. \A i \in 1 .. Len(s) : i <= k \/ k < i
      BY <2>1, <2>2
    <3> QED  BY <1>1, <1>3, <2>2, <2>3, <2>4, <3>1, <3>2, <3>3, <3>4
  <2>9. /\ (page' - 1) * Per = k + Per /\ coll'[at'] = s /\ mode' = mode /\ stay' = stay
    BY <1>1, <2>1, <2>2 DEF s
  <2> QED  BY <2>6, <2>8, <2>9 DEF WalkPlace
<1> QED  BY <1>4, <1>5

\* What a run has read when a collection is walked to its end.
LEMMA OverKeeps ==
  ASSUME WalkInv, pc = "walk", NEW nodes, WalkOver(nodes),
         nodes = Served \/ (mode = "reports" /\ nodes \in Cut)
  PROVE  /\ pc' = "walk" => WalkPlace' /\ WalkAround'
         /\ pc' = "idle" /\ ~ note' => Throughout \subseteq got'
<1>1. /\ UNCHANGED <<kind, coll, stay, mode>>
      /\ page' = 1 /\ count' = 0 /\ total' = Unknown /\ pages' = Unknown
      /\ Yield(nodes)
      /\ partial => partial'
  BY DEF WalkOver, server
<1>2. WalkShape /\ WalkPlace /\ WalkAround
  BY DEF WalkInv
<1>3. /\ got \subseteq got' /\ got' \subseteq Leaves /\ found' \subseteq Campaigns
  BY <1>1, <1>2, YieldIs
<1> DEFINE rest == IF Nested /\ at = Root THEN found' ELSE todo
<1>4. \/ pc' = "walk" /\ \E c \in rest : at' = c /\ todo' = rest \ {c}
      \/ pc' = "idle" /\ rest = {} /\ note' = partial'
  BY DEF WalkOver
<1>5. ~ partial' => \A x \in Range(coll[at]) \cap stay : x \in got' \cup found'
  BY <1>2, CollectionRead
<1>6. \A d : Read(d) => Read(d)'
  BY <1>1, <1>3 DEF Read
<1>7. (Nested)' = Nested /\ (Listed)' = Listed
      /\ Campaigns \cap Leaves = {} /\ Root \notin Campaigns
  BY <1>1, WalkSizes DEF Nested, Listed
<1>8. \A x \in stay : \E c \in Collections :
        x \in Range(coll[c]) /\ x \in MayHold(c)
  BY <1>2 DEF WalkAround, Listed, WalkShape
<1>9. ASSUME Nested, ~ partial', NEW c \in stay \cap Campaigns
      PROVE  c \in rest \/ Read(c)'
  <2>1. CASE at = Root
    <3>1. c \in Range(coll[Root])
      BY <1>7, <1>8, <1>9 DEF MayHold
    <3>2. c \in found'
      BY <1>3, <1>5, <1>7, <1>9, <2>1, <3>1
    <3> QED  BY <1>9, <2>1, <3>2
  <2>2. CASE at # Root
    <3>1. c = at \/ c \in todo \/ Read(c)
      BY <1>1, <1>2, <1>9, <2>2 DEF WalkAround
    <3>2. \A x \in Range(coll[at]) \cap stay : x \in got'
      <4>1. at \in Collections /\ Range(coll[at]) \subseteq Leaves
        BY <1>2, <1>9, <2>2 DEF WalkShape, MayHold
      <4> QED  BY <1>3, <1>5, <1>7, <1>9, <4>1
    <3>3. c = at => Read(c)'
      BY <3>2, <1>1 DEF Read
    <3> QED  BY <1>6, <2>2, <3>1, <3>3
  <2> QED  BY <2>1, <2>2
<1>10. ASSUME pc' = "walk" PROVE WalkPlace' /\ WalkAround'
  <2>1. PICK c \in rest : at' = c /\ todo' = rest \ {c}
    BY <1>4, <1>10
  <2>2. c \in Campaigns /\ rest \subseteq Campaigns
    BY <1>2, <1>3 DEF WalkShape
  <2>3. WalkPlace'
    <3>1. Len(coll[c]) \in Nat /\ (1 - 1) * Per = 0
      <4>1. coll[c] \in Seq(Nodes)
        BY <1>2, <2>2 DEF WalkShape, Collections
      <4> QED  BY <4>1, LenProperties, WalkSizes
    <3> HIDE DEF rest
    <3> QED  BY <1>1, <2>1, <3>1 DEF WalkPlace
  <2>4. Nested
    BY <1>2, <2>1 DEF WalkAround
  <2> HIDE DEF rest
  <2>5. \A d \in stay \cap Campaigns : partial' \/ d \in rest \/ Read(d)'
    BY <1>9, <2>4
  <2>6. WalkAround'
    BY <1>1, <1>2, <1>7, <2>1, <2>4, <2>5 DEF WalkAround
  <2> QED  BY <2>3, <2>6
<1>11. ASSUME pc' = "idle", ~ note' PROVE Throughout \subseteq got'
  <2>1. rest = {} /\ ~ partial'
    BY <1>4, <1>11
  <2> SUFFICES ASSUME NEW x \in stay \cap Leaves,
                      Nested => \E c \in stay \cap Campaigns : x \in Range(coll[c])
               PROVE  x \in got'
    BY DEF Throughout
  <2>2. CASE Nested
    <3>1. PICK c \in stay \cap Campaigns : x \in Range(coll[c])
      BY <2>2
    <3>2. Read(c)'
      BY <1>9, <2>1, <2>2
    <3> QED  BY <1>1, <3>1, <3>2 DEF Read
  <2>3. CASE ~ Nested
    <3>1. at = Root
      BY <1>2, <2>3 DEF WalkAround
    <3>2. x \in Range(coll[Root])
      BY <1>8, <2>3 DEF MayHold
    <3> QED  BY <1>3, <1>5, <1>7, <2>1, <3>1, <3>2
  <2> QED  BY <2>2, <2>3
<1> QED  BY <1>10, <1>11

\* What leaves a collection is no longer listed, what moves still is; what is on
\* the pages read was there before.
LEMMA ShuffleKeeps ==
  ASSUME WalkInv, pc = "walk", NoneStepsBack, NEW c \in Collections, Shuffle(c)
  PROVE  WalkPlace' /\ WalkAround'
<1>1. PICK i \in DOMAIN coll[c] :
        \/ coll' = [coll EXCEPT ![c] = RemoveAt(@, i)] /\ stay' = stay \ {coll[c][i]}
        \/ coll' = [coll EXCEPT ![c] = <<@[i]>> \o RemoveAt(@, i)] /\ stay' = stay
  BY DEF Shuffle
<1>2. /\ UNCHANGED <<kind, mode, at, todo, page, count, total, pages, found, got, partial>>
      /\ WalkShape /\ WalkPlace /\ WalkAround /\ coll[c] \in Seq(Nodes)
  BY DEF Shuffle, walk, WalkInv, WalkShape
<1>3. /\ stay' \subseteq stay
      /\ \A d \in Collections : /\ Range(coll'[d]) \subseteq Range(coll[d])
                               /\ Range(coll[d]) \cap stay' \subseteq Range(coll'[d])
  <2> DEFINE s == coll[c]
  <2>1. i \in 1 .. Len(s) /\ s \in Seq(Nodes)
    BY <1>1, <1>2, LenProperties
  <2> HIDE DEF s
  <2>2. /\ Range(RemoveAt(s, i)) \subseteq Range(s)
        /\ Range(s) \ {s[i]} \subseteq Range(RemoveAt(s, i))
        /\ Range(<<s[i]>> \o RemoveAt(s, i)) = Range(s)
    BY <2>1, Reordered
  <2> QED  BY <1>1, <1>2, <2>2 DEF s, WalkShape
<1>4. WalkAround'
  <2>1. stay' \subseteq (Listed)'
    BY <1>2, <1>3 DEF WalkAround, Listed, Collections
  <2>2. (Nested)' = Nested
    BY <1>2 DEF Nested
  <2>3. \A d \in Campaigns : Read(d) => Read(d)'
    BY <1>2, <1>3 DEF Read, Collections
  <2> QED  BY <1>2, <1>3, <2>1, <2>2, <2>3 DEF WalkAround
<1>5. WalkPlace'
  BY <1>2, <1>3 DEF WalkPlace, NoneStepsBack
<1> QED  BY <1>4, <1>5

LEMMA WalkInvStep ==
  ASSUME WalkInv, [Next]_vars, [NoneStepsBack]_vars
  PROVE  WalkInv'
<1>1. WalkShape' /\ partial' \in BOOLEAN /\ note' \in BOOLEAN
  BY WalkShapeStep, WalkNotes DEF WalkInv
<1> SUFFICES ASSUME pc' = "walk" PROVE WalkPlace' /\ WalkAround'
  BY <1>1 DEF WalkInv
<1>2. ASSUME NEW c \in Collections, NEW x \in Nodes, Create(c, x)
      PROVE  WalkPlace' /\ WalkAround'
  BY <1>2, CreateKeeps DEF Create
<1>3. CASE Turn
  BY <1>3, TurnKeeps
<1>4. CASE LastTurn
  <2>1. pc = "walk"
    BY <1>4 DEF LastTurn
  <2>2. \/ WalkOver(Served)
        \/ mode = "reports" /\ \E nodes \in Cut : WalkOver(nodes)
    BY <1>4 DEF LastTurn
  <2> QED  BY <2>1, <2>2, OverKeeps
<1>5. CASE Begin
  <2>1. /\ page' = 1 /\ count' = 0 /\ total' = Unknown /\ pages' = Unknown
        /\ at' = Root /\ todo' = {} /\ stay' = Listed /\ coll' = coll
    BY <1>5 DEF Begin
  <2>2. Len(coll[Root]) \in Nat /\ (1 - 1) * Per = 0
    <3>1. coll[Root] \in Seq(Nodes)
      BY DEF WalkInv, WalkShape, Collections
    <3> QED  BY <3>1, LenProperties, WalkSizes
  <2>3. (Listed)' = Listed
    BY <2>1 DEF Listed
  <2> QED  BY <2>1, <2>2, <2>3 DEF WalkPlace, WalkAround
<1>6. CASE (\E x \in Leaves : Progress(x)) \/ Fail \/ UNCHANGED vars
  <2>1. /\ UNCHANGED <<kind, coll, stay, mode, at, todo, page, count, total, pages, found, got, partial>>
        /\ pc = "walk"
    BY <1>6 DEF Progress, Fail, vars, server, walk
  <2> QED
    BY <2>1 DEF WalkInv, WalkPlace, WalkAround, Read, Listed, Nested
<1>7. ASSUME NEW c \in Collections, Shuffle(c) PROVE WalkPlace' /\ WalkAround'
  <2>1. pc = "walk"
    BY <1>7 DEF Shuffle
  <2>2. NoneStepsBack
    BY <1>7, <2>1 DEF Shuffle, Changed, WalkInv, WalkShape, vars, server
  <2> QED  BY <1>7, <2>1, <2>2, ShuffleKeeps
<1> QED  BY <1>2, <1>3, <1>4, <1>5, <1>6, <1>7 DEF Next, Run

\* A run that closes without a note has yielded every record that was there all
\* through it, whatever the server leaves out, repeats or cuts short and whatever
\* is added, removed or moved under the run, if nothing that stays steps back onto
\* a page that was read (paginate() of _ksat.py, fetch() of xdr_endpoints.py).
THEOREM WalkCleanIsComplete == Spec /\ NoStepBack => CleanRunIsComplete
<1>1. Init => WalkInv
  BY WalkInit DEF Init, WalkInv
<1>2. WalkInv /\ [Next]_vars /\ [NoneStepsBack]_vars => WalkInv'
  BY WalkInvStep
<1>3. WalkInv /\ [Next]_vars
      => [pc = "walk" /\ pc' = "idle" /\ ~ note' => Throughout \subseteq got']_vars
  <2> SUFFICES ASSUME WalkInv, Next, pc = "walk", pc' = "idle", ~ note'
               PROVE  Throughout \subseteq got'
    OBVIOUS
  <2>1. LastTurn
    BY DEF Next, Run, Create, Shuffle, Progress, Begin, Turn,
       Fail
  <2>2. \/ WalkOver(Served)
        \/ mode = "reports" /\ \E nodes \in Cut : WalkOver(nodes)
    BY <2>1 DEF LastTurn
  <2> QED  BY <2>2, OverKeeps
<1> QED  BY <1>1, <1>2, <1>3, PTL DEF Spec, NoStepBack, CleanRunIsComplete

\* It is enough that nothing is removed or moved under a run: what is added was
\* not there when the run began, and moves the others away from the start.
THEOREM OnlyAddingIsEnough == ASSUME ~ Shuffles PROVE Spec => NoStepBack
<1> DEFINE I == WalkShape /\ (pc = "walk" => stay \subseteq Listed)
<1>1. Init => I
  BY WalkInit DEF Init
<1>2. I /\ [Next]_vars => I'
  <2> SUFFICES ASSUME I, [Next]_vars, pc' = "walk" PROVE (stay \subseteq Listed)'
    BY WalkShapeStep
  <2>1. ASSUME NEW c \in Collections, NEW x \in Nodes, Create(c, x)
        PROVE  stay' = stay /\ Listed \subseteq (Listed)' /\ pc = "walk"
    <3>1. PICK i \in 1 .. Len(coll[c]) + 1 :
            coll' = [coll EXCEPT ![c] = InsertAt(coll[c], i, x)]
      BY <2>1 DEF Create
    <3>2. coll \in [Collections -> Seq(Nodes)] /\ coll[c] \in Seq(Nodes)
      BY DEF WalkShape
    <3>3. Range(InsertAt(coll[c], i, x)) = Range(coll[c]) \cup {x}
      BY <3>1, <3>2, Reordered
    <3>4. \A d \in Collections : Range(coll[d]) \subseteq Range(coll'[d])
      BY <3>1, <3>2, <3>3
    <3> QED  BY <2>1, <3>4 DEF Create, Listed
  <2>2. CASE \E c \in Collections, x \in Nodes : Create(c, x)
    BY <2>1, <2>2
  <2>3. CASE Begin
    BY <2>3 DEF Begin, Listed
  <2>4. CASE Turn \/ LastTurn \/ Fail \/ (\E x \in Leaves : Progress(x)) \/ UNCHANGED vars
    <3>1. pc = "walk" /\ UNCHANGED <<coll, stay>>
      BY <2>4 DEF Turn, LastTurn, WalkOver, Fail, Progress, vars, server
    <3> QED  BY <3>1 DEF Listed
  <2>5. ASSUME NEW c \in Collections, Shuffle(c) PROVE FALSE
    BY <2>5 DEF Shuffle
  <2> QED  BY <2>2, <2>3, <2>4, <2>5 DEF Next, Run
<1>3. I /\ [Next]_vars => [NoneStepsBack]_vars
  <2> SUFFICES ASSUME I, Next, pc = "walk",
                      NEW i \in 1 .. Len(coll'[at]), i <= (page - 1) * Per, coll'[at][i] \in stay'
               PROVE  \E j \in 1 .. Len(coll[at]) :
                        j <= (page - 1) * Per /\ coll[at][j] = coll'[at][i]
    BY DEF NoneStepsBack
  <2> DEFINE k == (page - 1) * Per
  <2>1. k \in Nat /\ at \in Collections /\ coll \in [Collections -> Seq(Nodes)]
        /\ coll[at] \in Seq(Nodes) /\ Len(coll[at]) \in Nat
    BY PageBounds, WalkSizes DEF WalkShape
  <2> HIDE DEF k
  <2>2. CASE coll' = coll
    BY <2>1, <2>2 DEF k
  <2>3. ASSUME NEW c \in Collections, NEW x \in Nodes, Create(c, x)
        PROVE  \E j \in 1 .. Len(coll[at]) : j <= k /\ coll[at][j] = coll'[at][i]
    <3>1. PICK m \in 1 .. Len(coll[c]) + 1 :
            coll' = [coll EXCEPT ![c] = InsertAt(coll[c], m, x)]
      BY <2>3 DEF Create
    <3>2. x \notin stay'
      BY <2>3 DEF Create
    <3>3. CASE c # at
      BY <2>1, <3>1, <3>3 DEF k
    <3>4. CASE c = at
      <4>1. coll'[at] = InsertAt(coll[at], m, x)
        BY <2>1, <3>1, <3>4
      <4>2. /\ Len(coll'[at]) = Len(coll[at]) + 1
            /\ \A j \in 1 .. Len(coll'[at]) :
                 coll'[at][j] = IF j < m THEN coll[at][j] ELSE IF j = m THEN x ELSE coll[at][j - 1]
        BY <2>1, <3>1, <3>4, <4>1, Inserted
      <4>3. i # m
        BY <3>2, <4>2
      <4>4. CASE i < m
        BY <2>1, <3>1, <3>4, <4>2, <4>4 DEF k
      <4>5. CASE i > m
        <5>1. i - 1 \in 1 .. Len(coll[at]) /\ i - 1 <= k /\ coll[at][i - 1] = coll'[at][i]
          BY <2>1, <3>1, <3>4, <4>2, <4>5 DEF k
        <5> QED  BY <5>1
      <4> QED  BY <2>1, <3>1, <3>4, <4>2, <4>3, <4>4, <4>5
    <3> QED  BY <3>3, <3>4
  <2>4. coll' = coll \/ \E c \in Collections, x \in Nodes : Create(c, x)
    BY DEF Next, Run, Shuffle, Progress, Begin, Turn, LastTurn, WalkOver, Fail, server
  <2> QED  BY <2>2, <2>3, <2>4 DEF k
<1> QED  BY <1>1, <1>2, <1>3, PTL DEF Spec, NoStepBack

=============================================================================
