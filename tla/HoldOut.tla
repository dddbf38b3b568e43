------------------------------ MODULE HoldOut ------------------------------
(***************************************************************************)
(* Hold-outs: deployments record in control.source_state which sources     *)
(* they hold out (holdout.py, and the SECURITY DEFINER functions of        *)
(* schema/__init__.py it calls).  sync(), which a converge runs, holds the *)
(* listed sources out one by one, then lists the hold-outs of its login    *)
(* and releases those it no longer wants, each in a transaction of its     *)
(* own.  Deployments may share a login; the scope given by --managed then  *)
(* keeps them apart.  The hold and release commands are also run by hand,  *)
(* with the login of a deployment and for any source.                      *)
(*                                                                         *)
(* The reason of a row is left out, and so are the rows of packs, which    *)
(* the functions cannot touch.                                             *)
(***************************************************************************)
EXTENDS Integers, FiniteSets

CONSTANTS
  Deployers, Sources,
  Login,      \* [Deployers -> logins]
  Nobody,     \* no row yet, or ACTIVE
  Managed,    \* [Deployers -> SUBSET Sources], the --managed list of each
  MaxChanges, \* bound: edits of the lists, commands run by hand
  MaxFaults   \* bound: converges cut off

Logins == {Login[d] : d \in Deployers}

ASSUME FiniteAssumption == IsFiniteSet(Deployers) /\ IsFiniteSet(Sources)
ASSUME BoundAssumption == MaxChanges \in Nat /\ MaxFaults \in Nat
ASSUME ScopeAssumption ==
  /\ Nobody \notin Logins
  /\ Managed \in [Deployers -> SUBSET Sources]
  /\ \A d, e \in Deployers : d # e /\ Login[d] = Login[e] => Managed[d] \cap Managed[e] = {}

VARIABLES
  holder,   \* per source: the login that holds it out, or Nobody
  want,     \* per deployer: its list of sources to hold out
  pc,       \* per deployer: idle, or the part of sync() it is in
  asked,    \* the list its sync was called with
  todo,     \* sources still to be held out, or to be released
  lifted,   \* history: sources released by somebody else since its sync began
  changes, faults

vars == <<holder, want, pc, asked, todo, lifted, changes, faults>>

Init ==
  /\ holder = [s \in Sources |-> Nobody]
  /\ want = [d \in Deployers |-> {}] /\ asked = [d \in Deployers |-> {}]
  /\ pc = [d \in Deployers |-> "idle"] /\ todo = [d \in Deployers |-> {}]
  /\ lifted = [d \in Deployers |-> {}]
  /\ changes = 0 /\ faults = 0

----------------------------------------------------------------------------
(* The operator.                                                           *)

Changed == changes < MaxChanges /\ changes' = changes + 1

\* What is held out must be among what is managed.
Edit(d) ==
  /\ Changed
  /\ \E w \in SUBSET Managed[d] : want' = [want EXCEPT ![d] = w]
  /\ UNCHANGED <<holder, pc, asked, todo, lifted, faults>>

\* hold_out_source(): taken over when another login holds it.
HoldOutSource(d, s) == holder' = [holder EXCEPT ![s] = Login[d]]

CanRelease(d, s) == holder[s] = Login[d]

\* release_source(): false when nobody holds it, refused when another does.
ReleaseSource(d, s) ==
  holder' = IF CanRelease(d, s) THEN [holder EXCEPT ![s] = Nobody] ELSE holder

\* A release is noted for those who did not make it themselves.
Noted(d, s, others) ==
  lifted' = [e \in Deployers |->
               IF e \in others /\ CanRelease(d, s) THEN lifted[e] \cup {s} ELSE lifted[e]]

Refused(d, s) == holder[s] # Nobody /\ ~ CanRelease(d, s)

\* The hold and release commands take any source: they know no scope.
ByHand(d, s) ==
  /\ Changed
  /\ \/ HoldOutSource(d, s) /\ UNCHANGED lifted
     \/ ReleaseSource(d, s) /\ Noted(d, s, Deployers)
  /\ UNCHANGED <<want, pc, asked, todo, faults>>

----------------------------------------------------------------------------
(* sync().                                                                 *)

Begin(d) ==
  /\ pc[d] = "idle"
  /\ pc' = [pc EXCEPT ![d] = "hold"]
  /\ asked' = [asked EXCEPT ![d] = want[d]]
  /\ todo' = [todo EXCEPT ![d] = want[d]]
  /\ lifted' = [lifted EXCEPT ![d] = {}]
  /\ UNCHANGED <<holder, want, changes, faults>>

HoldNext(d) ==
  /\ pc[d] = "hold"
  /\ \E s \in todo[d] : /\ HoldOutSource(d, s)
                        /\ todo' = [todo EXCEPT ![d] = @ \ {s}]
  /\ UNCHANGED <<want, pc, asked, lifted, changes, faults>>

\* Mutation: without --managed.
MineUnscoped(d) == {s \in Sources : holder[s] = Login[d]} \ asked[d]

\* my_hold_outs(), less those listed and those out of scope.
Mine(d) == {s \in Managed[d] : holder[s] = Login[d]} \ asked[d]

\* Mutation: the releases come first.
MyHoldOutsFirst(d) ==
  /\ pc[d] = "hold" /\ todo[d] = asked[d]
  /\ pc' = [pc EXCEPT ![d] = "release"]
  /\ todo' = [todo EXCEPT ![d] = Mine(d)]
  /\ UNCHANGED <<holder, want, asked, lifted, changes, faults>>

MyHoldOuts(d) ==
  /\ pc[d] = "hold" /\ todo[d] = {}
  /\ pc' = [pc EXCEPT ![d] = "release"]
  /\ todo' = [todo EXCEPT ![d] = Mine(d)]
  /\ UNCHANGED <<holder, want, asked, lifted, changes, faults>>

\* Mutation: a refused release is tried again.
RetryRefused(d) ==
  /\ pc[d] = "release"
  /\ \E s \in todo[d] :
       /\ ReleaseSource(d, s) /\ Noted(d, s, Deployers \ {d})
       /\ todo' = IF Refused(d, s) THEN todo ELSE [todo EXCEPT ![d] = @ \ {s}]
  /\ UNCHANGED <<want, pc, asked, changes, faults>>

\* A source that was taken over since it was listed is refused, and that ends
\* the command.
ReleaseNext(d) ==
  /\ pc[d] = "release"
  /\ \E s \in todo[d] :
       /\ ReleaseSource(d, s) /\ Noted(d, s, Deployers \ {d})
       /\ IF Refused(d, s)
          THEN pc' = [pc EXCEPT ![d] = "idle"] /\ todo' = [todo EXCEPT ![d] = {}]
          ELSE todo' = [todo EXCEPT ![d] = @ \ {s}] /\ UNCHANGED pc
  /\ UNCHANGED <<want, asked, changes, faults>>

Done(d) ==
  /\ pc[d] = "release" /\ todo[d] = {}
  /\ pc' = [pc EXCEPT ![d] = "idle"]
  /\ UNCHANGED <<holder, want, asked, todo, lifted, changes, faults>>

\* The connection is lost or the converge killed: what was committed stays.
Cut(d) ==
  /\ pc[d] # "idle"
  /\ faults < MaxFaults /\ faults' = faults + 1
  /\ pc' = [pc EXCEPT ![d] = "idle"] /\ todo' = [todo EXCEPT ![d] = {}]
  /\ UNCHANGED <<holder, want, asked, lifted, changes>>

Sync(d) == Begin(d) \/ HoldNext(d) \/ MyHoldOuts(d) \/ ReleaseNext(d) \/ Done(d)

Next ==
  \E d \in Deployers :
    \/ Edit(d)
    \/ \E s \in Sources : ByHand(d, s)
    \/ Sync(d)
    \/ Cut(d)

Spec == Init /\ [][Next]_vars

\* Every deployment converges again and again.
FairSpec == Spec /\ \A d \in Deployers : WF_vars(Sync(d))

----------------------------------------------------------------------------
(* Properties.                                                             *)

\* Types of the variables; only managed sources are worked on.
TypeOK ==
  /\ holder \in [Sources -> Logins \cup {Nobody}]
  /\ \A f \in {want, asked, todo} :
       DOMAIN f = Deployers /\ \A d \in Deployers : f[d] \subseteq Managed[d]
  /\ pc \in [Deployers -> {"idle", "hold", "release"}]
  /\ lifted \in [Deployers -> SUBSET Sources]
  /\ changes \in 0 .. MaxChanges /\ faults \in 0 .. MaxFaults

\* While a sync releases, all it was asked to hold out is held out, unless
\* somebody else lifted it meanwhile: "a source moving between two names in one
\* converge is never briefly shown as running" (sync).
HeldBeforeReleased ==
  \A d \in Deployers : pc[d] = "release" =>
    \A s \in asked[d] : holder[s] # Nobody \/ s \in lifted[d]

\* What a sync lifts is nothing that another deployment of the same login was
\* asked to hold out: two hosts with one login do not undo each other's rows.
KeptApart ==
  [][\A d, e \in Deployers, s \in Sources :
       /\ pc[d] = "release" /\ todo'[d] # todo[d]
       /\ holder[s] # Nobody /\ holder'[s] = Nobody
       /\ d # e /\ Login[d] = Login[e]
       => s \notin asked[e]]_vars

\* Held out by a login none of whose deployments manages the source: by hand,
\* and no converge releases it ("the stuck row which the scope exists to avoid").
Stranded(s) ==
  holder[s] # Nobody /\ \A d \in Deployers : Login[d] = holder[s] => s \notin Managed[d]

Listed(s) == \E d \in Deployers : s \in want[d]

\* Once the lists rest, a source that one of them has is held out, and one that
\* none has is not, unless it is stranded: through take-overs, refused releases,
\* holds and releases by hand, and converges cut off at any point.
Converges ==
  \A s \in Sources :
    <>[](/\ Listed(s) => holder[s] # Nobody
         /\ holder[s] # Nobody => Listed(s) \/ Stranded(s))

Contested(s) ==
  \E d, e \in Deployers : Login[d] # Login[e] /\ s \in want[d] \cap want[e]

\* Once the lists rest, the row of a source that at most one login lists is left
\* alone: a converge that re-asserts a hold-out changes nothing.
Settles ==
  \A s \in Sources : <>[][holder'[s] = holder[s] \/ Contested(s)]_vars

\* No sync lifts a hold-out that a deployment with another login has recorded
\* and still lists.  Not so: a hold-out is taken over, and then the login that
\* took it over releases it.
RecordedByOthersStays ==
  [][\A d, e \in Deployers, s \in Sources :
       /\ pc[d] = "release" /\ todo'[d] # todo[d]
       /\ holder[s] # Nobody /\ holder'[s] = Nobody
       /\ Login[d] # Login[e] /\ pc[e] = "idle"
       => s \notin asked[e] \cap want[e]]_vars

=============================================================================
