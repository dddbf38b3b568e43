----------------------------- MODULE Partitions -----------------------------
(***************************************************************************)
(* The monthly partitions of one raw or mart table (schema/__init__.py):   *)
(* the DO block that creates a DEFAULT partition and the months of a       *)
(* rolling window, applied by a deploy, by `pack enable` and by the        *)
(* partition timer, with the check the timer ends on, and what             *)
(* control.partition_health() reports.  Beside it rows land for any month, *)
(* since an old record changes and is landed again, and raw expiry drops   *)
(* months that are over.                                                   *)
(*                                                                         *)
(* Months are integers.  A month stands for all of its rows, which is      *)
(* enough because they are all in one place (OneHome).  The width of the   *)
(* window is an argument of each application, as it is of the command.     *)
(***************************************************************************)
EXTENDS Integers

CONSTANTS
  Early,   \* how many months ahead of now the event time of a record may lie
  Kept     \* the window always reaches that far: every application does, and
           \* one comes before the month that would outrun the last

VARIABLES
  now,     \* the current month
  made,    \* the DEFAULT partition exists
  parts,   \* months with a partition of their own
  own,     \* months with rows there
  strays,  \* months with rows in DEFAULT
  reach,   \* history: the last month any application was to create
  passed   \* history: months in which the timer's check passed

vars == <<now, made, parts, own, strays, reach, passed>>

Init ==
  /\ now \in Int /\ made = FALSE
  /\ parts = {} /\ own = {} /\ strays = {}
  /\ reach = now /\ passed = {}

\* A month begins.
NextMonth ==
  /\ Kept /\ made => now + 1 + Early <= reach
  /\ now' = now + 1
  /\ UNCHANGED <<made, parts, own, strays, reach, passed>>

\* A row goes to its month, or to DEFAULT.  With neither the insert fails.
Land(m) ==
  /\ m <= now + Early
  /\ IF m \in parts THEN own' = own \cup {m} /\ UNCHANGED strays
     ELSE made /\ strays' = strays \cup {m} /\ UNCHANGED own
  /\ UNCHANGED <<now, made, parts, reach, passed>>

\* The DO block.  A month whose rows are in DEFAULT is refused by the server and
\* skipped with a warning; the others are created.  An ahead below one is refused
\* before anything is printed.
MoveWindow(behind, ahead) ==
  /\ ahead >= 1 /\ (Kept => ahead >= Early)
  /\ made' = TRUE
  /\ parts' = parts \cup ((now - behind .. now + ahead) \ strays)
  /\ reach' = IF now + ahead > reach THEN now + ahead ELSE reach
  /\ UNCHANGED <<now, own, strays>>

Apply(behind, ahead) == MoveWindow(behind, ahead) /\ UNCHANGED passed

\* The last statement of --partitions-only fails unless it finds next month.
Reaches(p) == now + 1 \in p

\* It is a transaction of its own: what the blocks before it created stays.
Timer(behind, ahead) ==
  /\ MoveWindow(behind, ahead)
  /\ passed' = IF Reaches(parts') THEN passed \cup {now} ELSE passed

\* Raw expiry, outside this package, drops the partition of a month that is over.
Expire(m) ==
  /\ m < now
  /\ parts' = parts \ {m} /\ own' = own \ {m}
  /\ UNCHANGED <<now, made, strays, reach, passed>>

\* An operator moves rows from DEFAULT to a partition of their own, for a month
\* that was skipped.
MoveByHand(m) ==
  /\ m \in strays /\ m <= reach
  /\ strays' = strays \ {m} /\ parts' = parts \cup {m} /\ own' = own \cup {m}
  /\ UNCHANGED <<now, made, reach, passed>>

Next ==
  \/ NextMonth
  \/ \E m \in Int : Land(m) \/ Expire(m) \/ MoveByHand(m)
  \/ \E behind, ahead \in Nat : Apply(behind, ahead) \/ Timer(behind, ahead)

Spec == Init /\ [][Next]_vars

----------------------------------------------------------------------------
(* control.partition_health().                                             *)

DefaultIsEmpty == strays = {}

\* covered_until lies past the end of month m.
CoveredPast(m) == \E k \in parts : k > m

----------------------------------------------------------------------------
(* Properties.                                                             *)

TypeOK ==
  /\ now \in Int /\ made \in BOOLEAN /\ reach \in Int
  /\ parts \subseteq Int /\ own \subseteq Int /\ strays \subseteq Int /\ passed \subseteq Int

\* All rows of a month are in one place, and those of a month with a partition
\* of its own leave with it when it is dropped.
OneHome == own \subseteq parts /\ strays \cap parts = {}

\* A passing run of the timer vouches for the month that follows: when it
\* begins it has a partition ("a timer run that could not move the window exits
\* non-zero", partition_check_sql).
PassedMeansReady == now - 1 \in passed => now \in parts

\* partition_health() misses nothing: with no row in DEFAULT and covered_until
\* past the end of next month, this month and the next have partitions ("a
\* monitor should alert on default_rows > 0, and on covered_until falling
\* within a month of now()").  covered_until is a maximum over the partitions
\* and would not show a month missing below it.
HealthIsEnough ==
  DefaultIsEmpty /\ CoveredPast(now) => now \in parts /\ now + 1 \in parts

\* DEFAULT holds rows of months that are over, and of none that is not, so that
\* every application creates its window from this month on.
DefaultIsThePast == \A m \in strays : m < now

=============================================================================
