------------------------------ MODULE RunClock ------------------------------
(***************************************************************************)
(* The times that keep an ingest run apart from the one after it           *)
(* (common/run.py): the deadline at which a run stops by itself, the cap   *)
(* at which systemd kills it, and the age past which the next run takes    *)
(* its RUNNING row for that of a dead process.  The deadline and the cap   *)
(* are settings; a cap of zero or less counts as not stated.  Seconds.     *)
(*                                                                         *)
(* The models of runs take from here that a run which is stopped by its    *)
(* deadline still writes its outcome, and that reaping meets no live run.  *)
(* How long a stop waits for a connector inside one page is Retries.       *)
(***************************************************************************)
EXTENDS Retries

DEFAULT_DEADLINE_SEC == 1500
DEADLINE_MARGIN_SEC  == 300
DEFAULT_UNIT_CAP_SEC == 1800

Stated(cap) == cap > 0

\* What a run keeps between its deadline and its cap.
Spare(cap) == IF DEADLINE_MARGIN_SEC < cap \div 4 THEN DEADLINE_MARGIN_SEC ELSE cap \div 4

Ceiling(cap) == cap - Spare(cap)

\* given: the deadline is set; a negative one means no deadline.
ResolveDeadline(given, deadline, cap) ==
  IF ~ Stated(cap)
  THEN IF given THEN deadline ELSE DEFAULT_DEADLINE_SEC
  ELSE IF given /\ deadline \in 0 .. Ceiling(cap) THEN deadline ELSE Ceiling(cap)

Expired(deadline, elapsed) == deadline >= 0 /\ elapsed >= deadline

\* With neither a cap nor a deadline there is no age a live run cannot reach.
Reaps(deadline, cap) == Stated(cap) \/ deadline >= 0

ReapAfter(deadline, cap) ==
  IF Stated(cap) THEN cap
  ELSE IF DEFAULT_UNIT_CAP_SEC > deadline + DEADLINE_MARGIN_SEC
       THEN DEFAULT_UNIT_CAP_SEC ELSE deadline + DEADLINE_MARGIN_SEC

TakenForDead(age, deadline, cap) == Reaps(deadline, cap) /\ age > ReapAfter(deadline, cap)

=============================================================================
