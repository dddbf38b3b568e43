------------------------------- MODULE Retries -------------------------------
(***************************************************************************)
(* with_retries() of common/http.py inside a run: a page is asked for, a   *)
(* transient failure is followed by a backoff with jitter or by the        *)
(* server's own Retry-After, and a stop (SIGTERM, the deadline) is looked  *)
(* for before every attempt, in every slice of a backoff and, by           *)
(* execute(), between the records of a page.  Time passes in calls and     *)
(* sleeps only; how long records take to land is left out.                 *)
(***************************************************************************)
EXTENDS Integers

CONSTANTS
  Attempts,   \* attempts: 5, and 1 for a page of DefectDojo
  BaseDelay, MaxDelay,   \* base_delay, max_delay
  Poll,       \* _STOP_POLL_SEC
  CallMax     \* the longest a call takes

VARIABLES
  at,         \* before an attempt, in a call, backing off, between pages, stopped
  attempt,    \* failed attempts of this page
  remaining,  \* what is left of the backoff
  spent,      \* history: time since this request was first made
  stopping,   \* a stop was asked for
  late        \* history: time since it was

vars == <<at, attempt, remaining, spent, stopping, late>>

Init ==
  /\ at = "ask" /\ attempt = 0 /\ remaining = 0 /\ spent = 0
  /\ stopping = FALSE /\ late = 0

\* base * 2 ** attempt, up to the cap; the jitter leaves between half and all of it.
Backoff[n \in Nat] == IF n = 0 THEN BaseDelay ELSE 2 * Backoff[n - 1]

Capped(d) == IF d < MaxDelay THEN d ELSE MaxDelay

\* A hint that is no number, negative or infinite counts as none.
Delays(hint) ==
  IF hint >= 0 THEN {Capped(hint)}
  ELSE {d \in 0 .. MaxDelay : LET most == Capped(Backoff[attempt]) IN d <= most /\ most <= 2 * d}

\* Time passes; a stop may be asked for while it does.
Pass(t) ==
  /\ spent' = spent + t
  /\ IF stopping THEN late' = late + t /\ UNCHANGED stopping
     ELSE \/ UNCHANGED <<stopping, late>>
          \/ stopping' = TRUE /\ late' \in 0 .. t

\* raise_if_stopping(): StopRequested, which no connector catches.
Heed ==
  /\ stopping /\ (at \in {"ask", "pages"} \/ (at = "backoff" /\ remaining > 0))
  /\ at' = "stopped"
  /\ UNCHANGED <<attempt, remaining, spent, stopping, late>>

Ask ==
  /\ at = "ask" /\ ~ stopping
  /\ at' = "call"
  /\ UNCHANGED <<attempt, remaining, spent, stopping, late>>

\* The page came, or a failure no retry mends ends the run.
Answered(t) ==
  /\ at = "call" /\ Pass(t)
  /\ at' = "pages"
  /\ UNCHANGED <<attempt, remaining>>

\* A timeout, a dropped connection, 429, 5xx or an incomplete 200.  The last
\* attempt is followed by no backoff: RetryBudgetExhausted.
Failed(t, hint) ==
  /\ at = "call" /\ Pass(t)
  /\ IF attempt + 1 < Attempts THEN at' = "backoff" /\ remaining' \in Delays(hint)
     ELSE at' = "pages" /\ UNCHANGED remaining
  /\ attempt' = attempt + 1

\* One slice.
Sleep ==
  /\ at = "backoff" /\ ~ stopping /\ remaining > 0
  /\ LET step == IF Poll < remaining THEN Poll ELSE remaining
     IN  Pass(step) /\ remaining' = remaining - step
  /\ UNCHANGED <<at, attempt>>

Again ==
  /\ at = "backoff" /\ remaining = 0
  /\ at' = "ask"
  /\ UNCHANGED <<attempt, remaining, spent, stopping, late>>

\* The records of a page are yielded and the next one is asked for.
NextPage ==
  /\ at = "pages" /\ ~ stopping
  /\ at' = "ask" /\ attempt' = 0 /\ spent' = 0
  /\ UNCHANGED <<remaining, stopping, late>>

Next ==
  \/ Heed \/ Ask \/ Sleep \/ Again \/ NextPage
  \/ \E t \in 0 .. CallMax : Answered(t) \/ \E hint \in Int : Failed(t, hint)

Spec == Init /\ [][Next]_vars

----------------------------------------------------------------------------
(* Properties.                                                             *)

TypeOK ==
  /\ at \in {"ask", "call", "backoff", "pages", "stopped"}
  /\ attempt \in 0 .. Attempts /\ remaining \in 0 .. MaxDelay
  /\ spent \in Nat /\ stopping \in BOOLEAN /\ late \in Nat

Longest == IF CallMax < Poll THEN Poll ELSE CallMax

\* A stop waits for one call or one slice of a backoff, and never for a whole
\* backoff or for the attempts that are left ("a connector can sit inside one
\* page for attempts x timeout + backoff ... and systemd's stop timeout SIGKILLs
\* long before that", with_retries).
HeededSoon == late <= Longest

\* A page takes its attempts and the backoffs between them, whatever hints the
\* server sends.
GivesUp == spent <= Attempts * CallMax + (Attempts - 1) * MaxDelay

=============================================================================
