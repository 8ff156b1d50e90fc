---------------------------- MODULE PollBackoff ----------------------------
(***************************************************************************)
(* The error counter and the ticker period of Poller.Run                   *)
(* (internal/runner/poller.go): what decides how often GitHub is polled.   *)
(* RunnerPool models what a poll does.                                     *)
(***************************************************************************)
EXTENDS Integers

CONSTANTS
  Intervals, \* the values of check_interval
  Cap,       \* the longest backoff, five minutes
  Tolerated, \* the errors in a row that change nothing, three
  MaxErrors  \* bound on the errors in a row

ASSUME BackoffAssumption ==
  /\ Cap \in Nat /\ Tolerated \in Nat /\ MaxErrors \in Nat
  /\ Intervals \subseteq Nat \ {0}

VARIABLES
  interval,          \* p.interval
  consecutiveErrors, \* the local of that name in Run
  period             \* the ticker's period

backoffVars == <<interval, consecutiveErrors, period>>

BackoffTypeOK ==
  /\ interval \in Intervals
  /\ consecutiveErrors \in 0..MaxErrors
  /\ period \in Nat

BackoffInit ==
  /\ interval \in Intervals
  /\ consecutiveErrors = 0
  /\ period = interval

\* Wrong on purpose: the product without its cap.
BackoffUncapped(n) == interval * n

Backoff(n) == IF interval * n > Cap THEN Cap ELSE interval * n

\* AcquireJob returned an error.
PollFailed ==
  /\ consecutiveErrors < MaxErrors
  /\ consecutiveErrors' = consecutiveErrors + 1
  /\ period' = IF consecutiveErrors' > Tolerated THEN Backoff(consecutiveErrors') ELSE period
  /\ UNCHANGED interval

\* AcquireJob returned, with a job or without.
PollSucceeded ==
  /\ consecutiveErrors' = 0
  /\ period' = IF consecutiveErrors > 0 THEN interval ELSE period
  /\ UNCHANGED interval

BackoffNext == PollFailed \/ PollSucceeded

BackoffSpec == BackoffInit /\ [][BackoffNext]_backoffVars

-----------------------------------------------------------------------------
\* Polling gets slower with errors, never slower than the cap or the configured
\* interval, and a success, however long the outage was, brings the interval back.
PeriodJustified ==
  /\ consecutiveErrors <= Tolerated => period = interval
  /\ consecutiveErrors > Tolerated /\ interval <= Cap => interval <= period /\ period <= Cap

\* While the errors go on, polling does not become faster (for intervals up to the cap).
SlowsDown ==
  [][interval <= Cap /\ consecutiveErrors' > consecutiveErrors => period' >= period]_backoffVars
=============================================================================
