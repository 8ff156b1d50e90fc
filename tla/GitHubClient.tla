---------------------------- MODULE GitHubClient ----------------------------
(***************************************************************************)
(* doJSON, the request loop of internal/github/client.go, as the poller,   *)
(* the workers and the heartbeats of a pool run it at the same time on one *)
(* client: the wait for the rate limit, the request, the retries with      *)
(* their backoff, and the rate-limit record (types.go) all of them share.  *)
(*                                                                         *)
(* Time is the rate-limit window: NextWindow ends the current one, and     *)
(* what was learnt of it (a ResetAt) lies in the past from then on.        *)
(***************************************************************************)
EXTENDS Naturals

CONSTANTS
  Callers,    \* the goroutines that use the client
  MaxRetries, \* c.maxRetries
  Limit,      \* the requests GitHub accepts in a window
  Share,      \* the part of the limit kept in reserve, a twentieth in the code
  Faults      \* what may go wrong, among FaultKinds

FaultKinds == {"timeout",    \* a request or its answer takes too long
               "network",    \* the connection fails in another way
               "body",       \* the answer's body cannot be read
               "transient",  \* GitHub answers 429, 502, 503 or 504
               "rejected",   \* GitHub answers with another error
               "cancel"}     \* the context of the callers ends

ASSUME ClientAssumption ==
  /\ MaxRetries \in Nat \ {0} /\ Limit \in Nat /\ Share \in Nat \ {0}
  /\ Faults \subseteq FaultKinds

VARIABLES
  ctxDone,   \* the callers' context is done
  budget,    \* the requests GitHub still accepts in this window
  rateLimit, \* the shared record: Remaining, and whether ResetAt is still to come
  pc,        \* where each caller is in doJSON
  due,       \* the timer of a caller waiting for the window's end has fired
  attempt,   \* the local of that name in doJSON
  sent,      \* the requests this call has sent
  applied,   \* how many of them took effect at GitHub
  answer,    \* the answer on its way to the caller
  result,    \* what the caller's last call returned
  abandoned, \* the requests of this call that were given up and may still reach GitHub
  unknown,   \* how many of this call's requests had no definite answer (no part of the program)
  lossy      \* GitHub counted a request in this window that no answer tells of (no part of the program)

vars == <<ctxDone, budget, rateLimit, pc, due, attempt, sent, applied, answer, result,
          abandoned, unknown, lossy>>
callVars == <<due, attempt, sent, applied, answer>>
history  == <<abandoned, unknown, lossy>>

Statuses == {"ok", "forbidden", "transient", "rejected"}

\* An answer carries the rate-limit headers or, from a gateway, none.
Answers ==
  [status : Statuses, headers : BOOLEAN, remaining : 0..Limit, current : BOOLEAN]

NoAnswer == [status |-> "ok", headers |-> FALSE, remaining |-> 0, current |-> FALSE]

TypeOK ==
  /\ ctxDone \in BOOLEAN
  /\ budget \in 0..Limit
  /\ rateLimit \in [remaining : 0..Limit, current : BOOLEAN]
  /\ pc \in [Callers -> {"idle", "check", "waiting", "send", "flight", "reply", "backoff"}]
  /\ due \in [Callers -> BOOLEAN]
  /\ attempt \in [Callers -> 0..MaxRetries]
  /\ sent \in [Callers -> Nat]
  /\ applied \in [Callers -> Nat]
  /\ answer \in [Callers -> Answers]
  /\ result \in [Callers -> {"none", "nil", "apiError", "error"}]
  /\ abandoned \in [Callers -> Nat]
  /\ unknown \in [Callers -> Nat] /\ lossy \in BOOLEAN

\* The zero RateLimitInfo has nothing remaining and a ResetAt long past.
Init ==
  /\ ctxDone = FALSE
  /\ budget = Limit
  /\ rateLimit = [remaining |-> 0, current |-> FALSE]
  /\ pc = [c \in Callers |-> "idle"]
  /\ due = [c \in Callers |-> FALSE]
  /\ attempt = [c \in Callers |-> 0]
  /\ sent = [c \in Callers |-> 0]
  /\ applied = [c \in Callers |-> 0]
  /\ answer = [c \in Callers |-> NoAnswer]
  /\ result = [c \in Callers |-> "none"]
  /\ abandoned = [c \in Callers |-> 0]
  /\ unknown = [c \in Callers |-> 0] /\ lossy = FALSE

-----------------------------------------------------------------------------
\* The environment.

Cancel ==
  /\ "cancel" \in Faults /\ ~ctxDone
  /\ ctxDone' = TRUE
  /\ UNCHANGED <<budget, rateLimit, pc, callVars, result, history>>

\* The window ends: the budget is refilled, every ResetAt seen so far has passed, and what
\* remained of a past window no longer matters to BackoffDuration.
NextWindow ==
  /\ budget' = Limit
  /\ rateLimit' = [remaining |-> 0, current |-> FALSE]
  /\ answer' = [c \in Callers |-> [answer[c] EXCEPT !.remaining = 0, !.current = FALSE]]
  /\ due' = [c \in Callers |-> pc[c] = "waiting"]
  /\ lossy' = FALSE
  /\ UNCHANGED <<ctxDone, pc, attempt, sent, applied, result, abandoned, unknown>>

\* GitHub serves a request that its caller has given up; nobody hears the answer.
ServeAbandoned(c) ==
  /\ abandoned[c] > 0 /\ budget > 0
  /\ budget' = budget - 1
  /\ abandoned' = [abandoned EXCEPT ![c] = @ - 1]
  /\ applied' \in {applied, [applied EXCEPT ![c] = @ + 1]}
  /\ lossy' = TRUE
  /\ UNCHANGED <<ctxDone, rateLimit, pc, due, attempt, sent, answer, result, unknown>>

\* GitHub serves a request of nobody who is listening to it here: one that an earlier call
\* gave up, or another client's with the same token, as the runners of a daemon have them.
ServeOther ==
  /\ budget > 0
  /\ budget' = budget - 1
  /\ lossy' = TRUE
  /\ UNCHANGED <<ctxDone, rateLimit, pc, callVars, result, abandoned, unknown>>

-----------------------------------------------------------------------------
\* doJSON.

Goto(c, at) == pc' = [pc EXCEPT ![c] = at]

Return(c, r) == Goto(c, "idle") /\ result' = [result EXCEPT ![c] = r]

Begin(c) ==
  /\ pc[c] = "idle"
  /\ attempt' = [attempt EXCEPT ![c] = 0]
  /\ sent' = [sent EXCEPT ![c] = 0]
  /\ applied' = [applied EXCEPT ![c] = 0]
  /\ result' = [result EXCEPT ![c] = "none"]
  /\ unknown' = [unknown EXCEPT ![c] = 0]
  /\ abandoned' = [abandoned EXCEPT ![c] = 0]
  /\ Goto(c, "check")
  /\ UNCHANGED <<ctxDone, budget, rateLimit, due, answer, lossy>>

\* Wrong on purpose: the client waits only when nothing remains.
MustWaitWhenEmpty == rateLimit.remaining = 0 /\ rateLimit.current

\* BackoffDuration() > 0.
MustWait == rateLimit.remaining <= Limit \div Share /\ rateLimit.current

Check(c) ==
  /\ pc[c] = "check"
  /\ Goto(c, IF MustWait THEN "waiting" ELSE "send")
  /\ UNCHANGED <<ctxDone, budget, rateLimit, callVars, result, history>>

\* Wrong on purpose: the limit is looked at again, and may have been used up again.
WakeToCheck(c) ==
  /\ pc[c] = "waiting" /\ due[c]
  /\ due' = [due EXCEPT ![c] = FALSE]
  /\ Goto(c, "check")
  /\ UNCHANGED <<ctxDone, budget, rateLimit, attempt, sent, applied, answer, result, history>>

\* The timer set for ResetAt fires, and the limit is not looked at again.
Wake(c) ==
  /\ pc[c] = "waiting" /\ due[c]
  /\ due' = [due EXCEPT ![c] = FALSE]
  /\ Goto(c, "send")
  /\ UNCHANGED <<ctxDone, budget, rateLimit, attempt, sent, applied, answer, result, history>>

\* The call hears nothing of its last request, which has been served or may be later.
NoDefiniteAnswer(c) ==
  /\ answer' = [answer EXCEPT ![c] = NoAnswer]
  /\ abandoned' = [abandoned EXCEPT ![c] = IF pc[c] = "flight" THEN @ + 1 ELSE @]
  /\ unknown' = [unknown EXCEPT ![c] = @ + 1]
  /\ lossy' = (lossy \/ answer[c].current)

\* The context ends while the call waits, for the window, between two attempts, or for
\* an answer: Do's error is then no timeout, and not retried.
Cancelled(c) ==
  /\ pc[c] \in {"waiting", "backoff", "flight", "reply"} /\ ctxDone
  /\ Return(c, "error")
  /\ due' = [due EXCEPT ![c] = FALSE]
  /\ IF pc[c] \in {"flight", "reply"} THEN NoDefiniteAnswer(c) ELSE UNCHANGED <<answer, history>>
  /\ UNCHANGED <<ctxDone, budget, rateLimit, attempt, sent, applied>>

\* httpClient.Do sends nothing when the context is done, and that is not retried.
Send(c) ==
  /\ pc[c] = "send"
  /\ \/ /\ ctxDone
        /\ Return(c, "error")
        /\ UNCHANGED sent
     \/ /\ ~ctxDone
        /\ sent' = [sent EXCEPT ![c] = @ + 1]
        /\ Goto(c, "flight")
        /\ UNCHANGED result
  /\ UNCHANGED <<ctxDone, budget, rateLimit, due, attempt, applied, answer, history>>

\* GitHub: a request beyond the window's budget is refused; one within it is counted,
\* and takes effect unless it is refused for another reason.
Serve(c) ==
  /\ pc[c] = "flight"
  /\ \/ /\ budget = 0
        /\ answer' = [answer EXCEPT ![c] = [status |-> "forbidden", headers |-> TRUE,
                                            remaining |-> 0, current |-> TRUE]]
        /\ UNCHANGED <<budget, applied>>
     \/ /\ budget > 0
        /\ budget' = budget - 1
        /\ \E st \in {"ok"} \cup (Faults \cap {"rejected"}) :
             /\ answer' = [answer EXCEPT ![c] = [status |-> st, headers |-> TRUE,
                                                 remaining |-> budget - 1, current |-> TRUE]]
             /\ applied' = [applied EXCEPT ![c] = IF st = "ok" THEN @ + 1 ELSE @]
     \/ /\ "transient" \in Faults
        /\ answer' = [answer EXCEPT ![c] = [NoAnswer EXCEPT !.status = "transient"]]
        /\ applied' \in {applied, [applied EXCEPT ![c] = @ + 1]}
        /\ UNCHANGED budget
  /\ Goto(c, "reply")
  /\ UNCHANGED <<ctxDone, rateLimit, due, attempt, sent, result, history>>

CanRetry(c) == attempt[c] < MaxRetries

\* Wrong on purpose: whatever is not a client error counts as success.
SucceededLoosely(r) == r.status \in {"ok", "transient"}

Succeeded(r) == r.status = "ok"

\* APIError.IsRetryable.
Retryable(r) == r.status = "transient"

\* Wrong on purpose: the request is sent again.
BodyUnreadableRetried(c) ==
  /\ "body" \in Faults \/ ctxDone
  /\ IF CanRetry(c) THEN Goto(c, "backoff") /\ UNCHANGED result ELSE Return(c, "error")

\* The connection breaks while the body is read.
BodyUnreadable(c) == ("body" \in Faults \/ ctxDone) /\ Return(c, "error")

\* The answer arrives: the shared record is overwritten with what it says, and the
\* call returns or, for a retryable status, backs off.
Receive(c) ==
  /\ pc[c] = "reply"
  /\ rateLimit' = IF answer[c].headers
                  THEN [remaining |-> answer[c].remaining, current |-> answer[c].current]
                  ELSE rateLimit
  /\ \/ Succeeded(answer[c]) /\ Return(c, "nil")
     \/ BodyUnreadable(c)
     \/ /\ ~Succeeded(answer[c])
        /\ IF Retryable(answer[c]) /\ CanRetry(c)
             THEN Goto(c, "backoff") /\ UNCHANGED result
             ELSE Return(c, "apiError")
  /\ answer' = [answer EXCEPT ![c] = NoAnswer]
  /\ unknown' = [unknown EXCEPT ![c] = IF answer[c].status = "transient" THEN @ + 1 ELSE @]
  /\ UNCHANGED <<ctxDone, budget, due, attempt, sent, applied, abandoned, lossy>>

\* No answer in time, and the request is sent again.
Timeout(c) ==
  /\ "timeout" \in Faults
  /\ pc[c] \in {"flight", "reply"}
  /\ IF CanRetry(c) THEN Goto(c, "backoff") /\ UNCHANGED result ELSE Return(c, "error")
  /\ NoDefiniteAnswer(c)
  /\ UNCHANGED <<ctxDone, budget, rateLimit, due, attempt, sent, applied>>

\* Do fails in another way (a refused or a reset connection): that is never retried.
NetError(c) ==
  /\ "network" \in Faults
  /\ pc[c] \in {"flight", "reply"}
  /\ Return(c, "error")
  /\ NoDefiniteAnswer(c)
  /\ UNCHANGED <<ctxDone, budget, rateLimit, due, attempt, sent, applied>>

\* The backoff is over and the loop starts again.
Backoff(c) ==
  /\ pc[c] = "backoff"
  /\ attempt' = [attempt EXCEPT ![c] = @ + 1]
  /\ Goto(c, "check")
  /\ UNCHANGED <<ctxDone, budget, rateLimit, due, sent, applied, answer, result, history>>

Step(c) ==
  \/ Check(c) \/ Wake(c) \/ Cancelled(c) \/ Send(c) \/ Serve(c)
  \/ Receive(c) \/ Timeout(c) \/ NetError(c) \/ Backoff(c)

Next ==
  \/ \E c \in Callers : Begin(c) \/ Step(c) \/ ServeAbandoned(c)
  \/ ServeOther
  \/ NextWindow
  \/ Cancel

Spec == Init /\ [][Next]_vars

\* Timers fire, GitHub answers or the client's timeout does, windows end.
FairSpec == Spec /\ WF_vars(NextWindow) /\ \A c \in Callers : WF_vars(Step(c))

-----------------------------------------------------------------------------
\* Safety.

\* A call sends at most one request more than it may retry, however network errors,
\* retryable answers and waits for the limit alternate.
AttemptsBounded == \A c \in Callers : sent[c] <= MaxRetries + 1

\* A request takes effect twice only if the call could not know that it had: a retry
\* follows a timeout or a gateway's error, never a definite answer.  With a network that
\* answers, a job is acquired once, a status reported once.
AppliedOnce == \A c \in Callers : applied[c] <= unknown[c] + 1

\* A call that returned nil took effect at GitHub: no error path ends in success.
SuccessTookEffect == \A c \in Callers : result[c] = "nil" => applied[c] >= 1

\* The reserve is what keeps callers that share a client, and overwrite each other's
\* view of the limit with answers that arrive late, from exhausting the window.
\* Only when GitHub counted a request in the same window that no answer told them of (a lost
\* answer, a request served late, another client with the same token) can it refuse one.
NeverForbidden ==
  \A c \in Callers : answer[c].status = "forbidden" /\ answer[c].current => lossy

-----------------------------------------------------------------------------
\* Liveness, of FairSpec.

\* Every call returns, also when the client is made to wait for the window's end.
CallsReturn == \A c \in Callers : pc[c] # "idle" ~> pc[c] = "idle"

=============================================================================
