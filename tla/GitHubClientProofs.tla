------------------------- MODULE GitHubClientProofs -------------------------
(***************************************************************************)
(* Proofs about GitHubClient, for any number of callers and retries, any   *)
(* limit and any set of faults.                                            *)
(***************************************************************************)
EXTENDS GitHubClient, FiniteSetTheorems, TLAPS

PCs == {"idle", "check", "waiting", "send", "flight", "reply", "backoff"}

\* The part of TypeOK the proofs need: what doJSON counts and where its callers are.
CountersOK ==
  /\ pc \in [Callers -> PCs]
  /\ attempt \in [Callers -> Nat] /\ sent \in [Callers -> Nat] /\ applied \in [Callers -> Nat]
  /\ answer \in [Callers -> Answers]
  /\ result \in [Callers -> {"none", "nil", "apiError", "error"}]
  /\ budget \in 0..Limit
  /\ abandoned \in [Callers -> Nat] /\ unknown \in [Callers -> Nat]

\* A request is out that attempt does not count yet.
Outstanding(c) == pc[c] \in {"flight", "reply", "backoff"}

\* The loop's counter and the requests sent keep step, and a call backs off only when
\* it may try again.
InStep(c) ==
  /\ attempt[c] <= MaxRetries
  /\ pc[c] = "backoff" => attempt[c] < MaxRetries
  /\ pc[c] # "idle" => sent[c] = attempt[c] + (IF Outstanding(c) THEN 1 ELSE 0)
  /\ sent[c] <= MaxRetries + 1

\* A positive answer on its way means that its request took effect.
Effective(c) ==
  /\ pc[c] = "reply" /\ answer[c].status = "ok" => applied[c] >= 1
  /\ result[c] = "nil" => applied[c] >= 1
  /\ pc[c] # "idle" => result[c] = "none"

\* Between two attempts nothing took effect, or may still do so, that the call does not
\* count as unknown.
Accounted(c) ==
  /\ applied[c] + abandoned[c] <= unknown[c] + 1
  /\ pc[c] \in {"check", "waiting", "send", "flight", "backoff"}
       => applied[c] + abandoned[c] <= unknown[c]
  /\ pc[c] = "reply" /\ answer[c].status \in {"rejected", "forbidden"}
       => applied[c] + abandoned[c] <= unknown[c]

Good(c) == InStep(c) /\ Effective(c) /\ Accounted(c)

IInv == CountersOK /\ \A c \in Callers : Good(c)

\* The record of a call that has no answer is an answer.
LEMMA NoAnswerType == NoAnswer \in Answers
<1>1. "ok" \in Statuses /\ FALSE \in BOOLEAN /\ 0 \in 0..Limit
  BY ClientAssumption DEF Statuses
<1> QED
  BY <1>1, Zenon DEF Answers, NoAnswer

\* The counters keep their types.
LEMMA CountersStep == CountersOK /\ [Next]_vars => CountersOK'
<1> SUFFICES ASSUME CountersOK, [Next]_vars PROVE CountersOK'
  OBVIOUS
<1> USE ClientAssumption DEF CountersOK, PCs
<1>1. ASSUME NEW c \in Callers, Begin(c) PROVE CountersOK'
  BY <1>1 DEF Begin, Goto
<1>2. ASSUME NEW c \in Callers, Check(c) PROVE CountersOK'
  BY <1>2 DEF Check, Goto, callVars, history
<1>3. ASSUME NEW c \in Callers, Wake(c) PROVE CountersOK'
  BY <1>3 DEF Wake, Goto, history
<1>4. ASSUME NEW c \in Callers, Cancelled(c) PROVE CountersOK'
  BY <1>4, NoAnswerType DEF Cancelled, NoDefiniteAnswer, Return, Goto, history
<1>5. ASSUME NEW c \in Callers, Send(c) PROVE CountersOK'
  BY <1>5 DEF Send, Return, Goto, history
<1>6. ASSUME NEW c \in Callers, Serve(c) PROVE CountersOK'
  <2>1. \A r \in Answers : [answer EXCEPT ![c] = r] \in [Callers -> Answers]
    OBVIOUS
  <2>2. [applied EXCEPT ![c] = @ + 1] \in [Callers -> Nat]
    OBVIOUS
  <2>3. [status |-> "forbidden", headers |-> TRUE, remaining |-> 0, current |-> TRUE] \in Answers
    BY DEF Answers, Statuses
  <2>4. [NoAnswer EXCEPT !.status = "transient"] \in Answers
    <3>1. "transient" \in Statuses
      BY DEF Statuses
    <3> QED
      BY <3>1, NoAnswerType DEF Answers
  <2>5. ASSUME NEW st \in {"ok", "rejected"}, budget > 0
        PROVE  [status |-> st, headers |-> TRUE, remaining |-> budget - 1, current |-> TRUE] \in Answers
    BY <2>5 DEF Answers, Statuses
  <2>6. answer' \in [Callers -> Answers]
    <3>1. \E r \in Answers : answer' = [answer EXCEPT ![c] = r]
      BY <1>6, <2>3, <2>4, <2>5, Zenon DEF Serve
    <3> QED
      BY <2>1, <3>1
  <2>7. applied' \in [Callers -> Nat] /\ budget' \in 0..Limit
    <3>1. CASE budget = 0 /\ UNCHANGED <<budget, applied>>
      BY <3>1
    <3>2. CASE budget > 0 /\ budget' = budget - 1 /\ \E st \in {"ok"} \cup (Faults \cap {"rejected"}) :
                 applied' = [applied EXCEPT ![c] = IF st = "ok" THEN @ + 1 ELSE @]
      BY <3>2
    <3>3. CASE applied' \in {applied, [applied EXCEPT ![c] = @ + 1]} /\ UNCHANGED budget
      BY <2>2, <3>3
    <3> QED
      BY <1>6, <3>1, <3>2, <3>3 DEF Serve
  <2>8. pc' \in [Callers -> PCs] /\ UNCHANGED <<attempt, sent, result, abandoned, unknown>>
    BY <1>6 DEF Serve, Goto, history
  <2> QED
    BY <2>6, <2>7, <2>8
<1>7. ASSUME NEW c \in Callers, Receive(c) PROVE CountersOK'
  BY <1>7, NoAnswerType DEF Receive, BodyUnreadable, Return, Goto
<1>8. ASSUME NEW c \in Callers, Timeout(c) PROVE CountersOK'
  BY <1>8, NoAnswerType DEF Timeout, NoDefiniteAnswer, Return, Goto
<1>9. ASSUME NEW c \in Callers, Backoff(c) PROVE CountersOK'
  BY <1>9 DEF Backoff, Goto, history
<1>13. ASSUME NEW c \in Callers, NetError(c) PROVE CountersOK'
  BY <1>13, NoAnswerType DEF NetError, NoDefiniteAnswer, Return, Goto
<1>14. ASSUME NEW c \in Callers, ServeAbandoned(c) PROVE CountersOK'
  <2>1. applied' \in [Callers -> Nat]
    BY <1>14 DEF ServeAbandoned
  <2>2. abandoned' \in [Callers -> Nat] /\ budget' \in 0..Limit
    BY <1>14 DEF ServeAbandoned
  <2>3. UNCHANGED <<pc, attempt, sent, answer, result, unknown>>
    BY <1>14 DEF ServeAbandoned
  <2> QED
    BY <2>1, <2>2, <2>3
<1>15. CASE ServeOther
  BY <1>15 DEF ServeOther, callVars
<1>10. CASE NextWindow
  <2>1. \A c \in Callers : [answer[c] EXCEPT !.remaining = 0, !.current = FALSE] \in Answers
    <3>1. 0 \in 0..Limit /\ \A c \in Callers : answer[c] \in Answers
      OBVIOUS
    <3> QED
      BY <3>1 DEF Answers
  <2>2. answer' \in [Callers -> Answers]
    BY <1>10, <2>1 DEF NextWindow
  <2>3. budget' = Limit /\ UNCHANGED <<pc, attempt, sent, applied, result, abandoned, unknown>>
    BY <1>10 DEF NextWindow
  <2>4. Limit \in 0..Limit
    OBVIOUS
  <2> QED
    BY <2>2, <2>3, <2>4
<1>11. CASE Cancel
  BY <1>11 DEF Cancel, callVars, history
<1>12. CASE UNCHANGED vars
  BY <1>12 DEF vars
<1> QED
  BY <1>1, <1>2, <1>3, <1>4, <1>5, <1>6, <1>7, <1>8, <1>9, <1>10, <1>11, <1>12, <1>13, <1>14, <1>15
     DEF Next, Step
-----------------------------------------------------------------------------
\* A step of one caller leaves what is said of the others alone.
Same(d) ==
  /\ pc'[d] = pc[d] /\ attempt'[d] = attempt[d] /\ sent'[d] = sent[d]
  /\ applied'[d] = applied[d] /\ answer'[d] = answer[d] /\ result'[d] = result[d]
  /\ abandoned'[d] = abandoned[d] /\ unknown'[d] = unknown[d]

LEMMA SameKeeps ==
  ASSUME NEW d, Good(d), Same(d)
  PROVE  Good(d)'
BY DEF Good, InStep, Effective, Accounted, Same, Outstanding

\* Steps of other callers.
LEMMA OthersSame ==
  ASSUME CountersOK, NEW c \in Callers, Begin(c) \/ Step(c) \/ ServeAbandoned(c),
         NEW d \in Callers, d # c
  PROVE  Same(d)
<1> USE DEF CountersOK, Same
<1>1. CASE Begin(c)
  BY <1>1 DEF Begin, Goto
<1>2. CASE Check(c) \/ Wake(c) \/ Cancelled(c)
  BY <1>2 DEF Check, Wake, Cancelled, NoDefiniteAnswer, Return, Goto, callVars, history
<1>3. CASE Send(c)
  BY <1>3 DEF Send, Return, Goto, history
<1>4. CASE Serve(c)
  BY <1>4 DEF Serve, Goto, history
<1>5. CASE Receive(c)
  BY <1>5 DEF Receive, BodyUnreadable, Return, Goto
<1>6. CASE Timeout(c) \/ NetError(c) \/ Backoff(c)
  BY <1>6 DEF Timeout, NetError, Backoff, NoDefiniteAnswer, Return, Goto, history
<1>7. CASE ServeAbandoned(c)
  BY <1>7 DEF ServeAbandoned
<1> QED
  BY <1>1, <1>2, <1>3, <1>4, <1>5, <1>6, <1>7 DEF Step

\* The steps of a caller itself, and of GitHub with what the caller has given up.
LEMMA OwnStep ==
  ASSUME IInv, NEW c \in Callers, Begin(c) \/ Step(c) \/ ServeAbandoned(c)
  PROVE  Good(c)'
<1> USE ClientAssumption DEF CountersOK, IInv, Good, InStep, Effective, Accounted, Outstanding
<1>1. CASE Begin(c)
  BY <1>1 DEF Begin, Goto
<1>2. CASE Check(c)
  BY <1>2 DEF Check, Goto, callVars, history
<1>3. CASE Wake(c)
  BY <1>3 DEF Wake, Goto, history
<1>4. CASE Cancelled(c)
  BY <1>4 DEF Cancelled, NoDefiniteAnswer, Return, Goto, history
<1>5. CASE Send(c)
  BY <1>5 DEF Send, Return, Goto, history
<1>6. CASE Serve(c)
  <2>1. pc[c] = "flight" /\ pc'[c] = "reply" /\ UNCHANGED <<attempt, sent, result, abandoned, unknown>>
    BY <1>6 DEF Serve, Goto, history
  <2>2. InStep(c)'
    BY <2>1
  <2>3. answer'[c].status = "ok" => applied'[c] >= 1
    <3>1. CASE answer' = [answer EXCEPT ![c] = [status |-> "forbidden", headers |-> TRUE,
                                                remaining |-> 0, current |-> TRUE]]
      BY <3>1
    <3>2. ASSUME NEW st,
                 answer' = [answer EXCEPT ![c] = [status |-> st, headers |-> TRUE,
                                                  remaining |-> budget - 1, current |-> TRUE]],
                 applied' = [applied EXCEPT ![c] = IF st = "ok" THEN @ + 1 ELSE @]
          PROVE  answer'[c].status = "ok" => applied'[c] >= 1
      BY <3>2
    <3>3. CASE answer' = [answer EXCEPT ![c] = [NoAnswer EXCEPT !.status = "transient"]]
      BY <3>3 DEF NoAnswer
    <3> QED
      BY <1>6, <3>1, <3>2, <3>3, Zenon DEF Serve
  <2>4. applied' \in [Callers -> Nat]
    BY <1>6, CountersStep DEF Next, Step
  <2>5. applied'[c] <= applied[c] + 1
    BY <1>6 DEF Serve
  <2>6. answer'[c].status \in {"rejected", "forbidden"} => applied'[c] = applied[c]
    <3>1. CASE applied' = applied
      BY <3>1
    <3>2. ASSUME NEW st,
                 answer' = [answer EXCEPT ![c] = [status |-> st, headers |-> TRUE,
                                                  remaining |-> budget - 1, current |-> TRUE]],
                 applied' = [applied EXCEPT ![c] = IF st = "ok" THEN @ + 1 ELSE @]
          PROVE  answer'[c].status \in {"rejected", "forbidden"} => applied'[c] = applied[c]
      BY <3>2
    <3>3. CASE answer' = [answer EXCEPT ![c] = [NoAnswer EXCEPT !.status = "transient"]]
      BY <3>3 DEF NoAnswer
    <3> QED
      BY <1>6, <3>1, <3>2, <3>3, Zenon DEF Serve
  <2>7. Accounted(c)'
    <3>1. /\ applied[c] + abandoned[c] <= unknown[c] /\ applied'[c] \in Nat
          /\ unknown'[c] = unknown[c] /\ abandoned'[c] = abandoned[c]
      BY <2>1, <2>4
    <3> QED
      BY <2>1, <2>5, <2>6, <3>1
  <2>8. Effective(c)'
    BY <2>1, <2>3
  <2> QED
    BY <2>2, <2>7, <2>8
<1>7. CASE Receive(c)
  BY <1>7 DEF Receive, BodyUnreadable, Succeeded, Retryable, CanRetry, Return, Goto, Answers, Statuses
<1>8. CASE Timeout(c)
  BY <1>8 DEF Timeout, NoDefiniteAnswer, CanRetry, Return, Goto
<1>9. CASE Backoff(c)
  BY <1>9 DEF Backoff, Goto, history
<1>10. CASE NetError(c)
  BY <1>10 DEF NetError, NoDefiniteAnswer, Return, Goto
<1>11. CASE ServeAbandoned(c)
  <2>1. UNCHANGED <<pc, attempt, sent, answer, result, unknown>>
    BY <1>11 DEF ServeAbandoned
  <2>2. /\ abandoned[c] > 0 /\ abandoned'[c] = abandoned[c] - 1
        /\ applied'[c] \in {applied[c], applied[c] + 1}
    BY <1>11 DEF ServeAbandoned
  <2> QED
    BY <2>1, <2>2
<1> QED
  BY <1>1, <1>2, <1>3, <1>4, <1>5, <1>6, <1>7, <1>8, <1>9, <1>10, <1>11 DEF Step

\* The inductive invariant.
LEMMA InvStep == IInv /\ [Next]_vars => IInv'
<1> SUFFICES ASSUME IInv, [Next]_vars, NEW d \in Callers PROVE Good(d)'
  BY CountersStep DEF IInv
<1> USE DEF IInv
<1>1. ASSUME NEW c \in Callers, Begin(c) \/ Step(c) \/ ServeAbandoned(c) PROVE Good(d)'
  <2>1. CASE c = d
    BY <1>1, <2>1, OwnStep
  <2>2. CASE c # d
    BY <1>1, <2>2, OthersSame, SameKeeps
  <2> QED
    BY <2>1, <2>2
<1>2. CASE NextWindow
  <2>1. answer'[d].status = answer[d].status
    BY <1>2 DEF NextWindow, CountersOK, Answers
  <2> QED
    BY <1>2, <2>1 DEF NextWindow, Good, InStep, Effective, Accounted, Outstanding
<1>3. CASE ServeOther \/ Cancel \/ UNCHANGED vars
  BY <1>3, SameKeeps DEF ServeOther, Cancel, vars, callVars, history, Same
<1> QED
  BY <1>1, <1>2, <1>3 DEF Next

\* The invariant the two theorems below rest on.
THEOREM ClientInvariant == Spec => []IInv
<1>1. Init => IInv
  <2> SUFFICES ASSUME Init PROVE IInv
    OBVIOUS
  <2>1. NoAnswer \in Answers
    BY NoAnswerType
  <2>2. CountersOK
    <3>1. pc \in [Callers -> PCs]
      BY DEF Init, PCs
    <3>2. answer \in [Callers -> Answers]
      BY <2>1 DEF Init
    <3>3. budget \in 0..Limit
      BY ClientAssumption DEF Init
    <3> QED
      BY <3>1, <3>2, <3>3 DEF Init, CountersOK
  <2>3. \A c \in Callers : Good(c)
    <3> TAKE c \in Callers
    <3>1. pc[c] = "idle" /\ attempt[c] = 0 /\ sent[c] = 0 /\ result[c] = "none"
         /\ applied[c] = 0 /\ abandoned[c] = 0 /\ unknown[c] = 0
      BY DEF Init
    <3> QED
      BY <3>1, ClientAssumption DEF Good, InStep, Effective, Accounted
  <2> QED
    BY <2>2, <2>3 DEF IInv
<1> QED
  BY <1>1, InvStep, PTL DEF Spec

\* Whatever goes wrong, a call sends at most MaxRetries + 1 requests.
THEOREM RetriesBounded == Spec => []AttemptsBounded
<1>1. IInv => AttemptsBounded
  BY DEF IInv, Good, InStep, AttemptsBounded
<1> QED
  BY <1>1, ClientInvariant, PTL

\* A call that returns nil took effect at GitHub.
THEOREM NilMeansApplied == Spec => []SuccessTookEffect
<1>1. IInv => SuccessTookEffect
  BY DEF IInv, Good, Effective, SuccessTookEffect
<1> QED
  BY <1>1, ClientInvariant, PTL

\* A request takes effect twice only when the call could not know that it had.
THEOREM RepeatsExcused == Spec => []AppliedOnce
<1>1. ASSUME IInv, NEW c \in Callers PROVE applied[c] <= unknown[c] + 1
  <2>1. applied[c] \in Nat /\ abandoned[c] \in Nat /\ unknown[c] \in Nat
    BY <1>1 DEF IInv, CountersOK
  <2>2. applied[c] + abandoned[c] <= unknown[c] + 1
    BY <1>1 DEF IInv, Good, Accounted
  <2> QED
    BY <2>1, <2>2
<1>2. IInv => AppliedOnce
  BY <1>1 DEF AppliedOnce
<1> QED
  BY <1>2, ClientInvariant, PTL

-----------------------------------------------------------------------------
\* The reserve: why a window is never used up.

Reserve == Limit \div Share

\* Enough for n callers, each of which may be let through once by every answer that
\* comes late to another: n * (n - 1).
ReserveEnough ==
  /\ IsFiniteSet(Callers)
  /\ Reserve < Limit
  /\ Cardinality(Callers) * (Cardinality(Callers) - 1) <= Reserve

\* A record, or an answer that will become the record, that lets callers through.
High(r) == r.remaining > Reserve \/ ~r.current

\* Callers whose next request no check will stop.
Armed ==
  {c \in Callers : \/ pc[c] = "flight"
                   \/ ~ctxDone /\ (pc[c] = "send" \/ (pc[c] = "waiting" /\ due[c]))}

\* Callers whose answer will say that there is room, although there may be none.
Late == {c \in Callers : pc[c] = "reply" /\ answer[c].headers /\ High(answer[c])}

\* Callers that will be let through if they look at a record that is High.
Loose ==
  {c \in Callers : ~ctxDone /\ \/ pc[c] \in {"idle", "check", "backoff"}
                               \/ pc[c] = "reply" /\ ~answer[c].headers}

\* The requests that may still be sent before every caller waits for the window's end.
Claim ==
  Cardinality(Armed) + Cardinality(Callers) * Cardinality(Late)
    + (IF High(rateLimit) THEN Cardinality(Loose) ELSE 0)

\* Once the window is down to its reserve, what is left of it covers the claim.
Covered == ~lossy /\ budget <= Reserve => Claim <= budget

DueWaits == \A c \in Callers : due[c] => pc[c] = "waiting"

SharedOK ==
  /\ ctxDone \in BOOLEAN /\ lossy \in BOOLEAN
  /\ rateLimit \in [remaining : 0..Limit, current : BOOLEAN]
  /\ due \in [Callers -> BOOLEAN]

ReserveInv == SharedOK /\ DueWaits /\ Covered /\ NeverForbidden

LEMMA ReserveType == Reserve \in Nat
  BY ClientAssumption DEF Reserve

\* Counting after one caller has moved.
LEMMA Recount ==
  ASSUME IsFiniteSet(Callers), NEW S \in SUBSET Callers, NEW T \in SUBSET Callers,
         NEW c \in Callers, S \ {c} = T \ {c}
  PROVE  /\ Cardinality(S) \in Nat /\ Cardinality(T) \in Nat
         /\ Cardinality(S) <= Cardinality(Callers) /\ Cardinality(T) <= Cardinality(Callers)
         /\ Cardinality(Callers) \in Nat
         /\ Cardinality(T) = Cardinality(S) + (IF c \in T THEN 1 ELSE 0) - (IF c \in S THEN 1 ELSE 0)
<1>1. IsFiniteSet(S) /\ IsFiniteSet(T)
  BY FS_Subset
<1>2. Cardinality(S) \in Nat /\ Cardinality(T) \in Nat /\ Cardinality(Callers) \in Nat
  BY <1>1, FS_CardinalityType
<1>3. Cardinality(S) <= Cardinality(Callers) /\ Cardinality(T) <= Cardinality(Callers)
  BY FS_Subset
<1>4. /\ Cardinality(S \ {c}) = IF c \in S THEN Cardinality(S) - 1 ELSE Cardinality(S)
      /\ Cardinality(T \ {c}) = IF c \in T THEN Cardinality(T) - 1 ELSE Cardinality(T)
  BY <1>1, FS_RemoveElement
<1> QED BY <1>2, <1>3, <1>4

\* The three sets share no caller.
LEMMA ApartSum ==
  ASSUME IsFiniteSet(Callers), NEW A \in SUBSET Callers, NEW L \in SUBSET Callers,
         NEW F \in SUBSET Callers, NEW c \in Callers, c \notin A \cup L \cup F,
         A \cap L = {}, A \cap F = {}, L \cap F = {}
  PROVE  Cardinality(A) + Cardinality(L) + Cardinality(F) <= Cardinality(Callers) - 1
<1>1. IsFiniteSet(A) /\ IsFiniteSet(L) /\ IsFiniteSet(F)
  BY FS_Subset
<1>0. ASSUME NEW S, NEW T, IsFiniteSet(S), IsFiniteSet(T), S \cap T = {}
      PROVE  IsFiniteSet(S \cup T) /\ Cardinality(S \cup T) = Cardinality(S) + Cardinality(T)
  <2>1. Cardinality(S \cap T) = 0 /\ Cardinality(S) \in Nat /\ Cardinality(T) \in Nat
    BY <1>0, FS_EmptySet, FS_CardinalityType
  <2>2. IsFiniteSet(S \cup T) /\ Cardinality(S \cup T) = Cardinality(S) + Cardinality(T) - Cardinality(S \cap T)
    BY <1>0, FS_Union
  <2> QED BY <2>1, <2>2
<1>2. IsFiniteSet(A \cup L) /\ Cardinality(A \cup L) = Cardinality(A) + Cardinality(L)
  BY <1>0, <1>1
<1>3. (A \cup L) \cap F = {}
  OBVIOUS
<1>4. Cardinality((A \cup L) \cup F) = Cardinality(A) + Cardinality(L) + Cardinality(F)
  BY <1>0, <1>1, <1>2, <1>3
<1>5. A \cup L \cup F \in SUBSET (Callers \ {c})
  OBVIOUS
<1>6. IsFiniteSet(Callers \ {c}) /\ Cardinality(Callers \ {c}) = Cardinality(Callers) - 1
  BY FS_RemoveElement
<1> QED BY <1>4, <1>5, <1>6, FS_Subset

\* A step of c touches nothing the sets say of the other callers.
OnlyMoves(c) ==
  /\ UNCHANGED ctxDone
  /\ \A d \in Callers \ {c} : pc'[d] = pc[d] /\ due'[d] = due[d] /\ answer'[d] = answer[d]

LEMMA CallerMoves ==
  ASSUME CountersOK, SharedOK, NEW c \in Callers, Begin(c) \/ Step(c)
  PROVE  OnlyMoves(c)
<1> USE DEF CountersOK, SharedOK, OnlyMoves
<1>1. CASE Begin(c) \/ Check(c) \/ Wake(c)
  BY <1>1 DEF Begin, Check, Wake, Goto, callVars, history
<1>2. CASE Cancelled(c)
  BY <1>2 DEF Cancelled, NoDefiniteAnswer, Return, Goto, history
<1>3. CASE Send(c)
  BY <1>3 DEF Send, Return, Goto, history
<1>4. CASE Serve(c)
  BY <1>4 DEF Serve, Goto, history
<1>5. CASE Receive(c)
  BY <1>5 DEF Receive, BodyUnreadable, Return, Goto
<1>6. CASE Timeout(c) \/ NetError(c) \/ Backoff(c)
  BY <1>6 DEF Timeout, NetError, Backoff, NoDefiniteAnswer, Return, Goto, history
<1> QED
  BY <1>1, <1>2, <1>3, <1>4, <1>5, <1>6 DEF Step

\* How the three counts change when c moves.
Change(S, T, c) ==
  Cardinality(T) = Cardinality(S) + (IF c \in T THEN 1 ELSE 0) - (IF c \in S THEN 1 ELSE 0)

CountOK(S) == Cardinality(S) \in Nat /\ Cardinality(S) <= Cardinality(Callers)

LEMMA Counts ==
  ASSUME ReserveEnough, NEW c \in Callers, OnlyMoves(c)
  PROVE  /\ Cardinality(Callers) \in Nat
         /\ CountOK(Armed) /\ CountOK(Late) /\ CountOK(Loose)
         /\ CountOK(Armed') /\ CountOK(Late') /\ CountOK(Loose')
         /\ Change(Armed, Armed', c) /\ Change(Late, Late', c) /\ Change(Loose, Loose', c)
<1>1. Armed \ {c} = Armed' \ {c}
  BY DEF Armed, OnlyMoves
<1>2. Late \ {c} = Late' \ {c}
  BY DEF Late, OnlyMoves
<1>3. Loose \ {c} = Loose' \ {c}
  BY DEF Loose, OnlyMoves
<1>4. /\ Armed \in SUBSET Callers /\ Late \in SUBSET Callers /\ Loose \in SUBSET Callers
      /\ Armed' \in SUBSET Callers /\ Late' \in SUBSET Callers /\ Loose' \in SUBSET Callers
  BY DEF Armed, Late, Loose
<1> QED
  BY <1>1, <1>2, <1>3, <1>4, Recount DEF ReserveEnough, Change, CountOK

\* Where c is before and after its step.
LEMMA Membership ==
  ASSUME NEW c \in Callers
  PROVE  /\ c \in Armed <=> \/ pc[c] = "flight"
                            \/ ~ctxDone /\ (pc[c] = "send" \/ (pc[c] = "waiting" /\ due[c]))
         /\ c \in Late <=> pc[c] = "reply" /\ answer[c].headers /\ High(answer[c])
         /\ c \in Loose <=> ~ctxDone /\ \/ pc[c] \in {"idle", "check", "backoff"}
                                        \/ pc[c] = "reply" /\ ~answer[c].headers
         /\ c \in Armed' <=> \/ pc'[c] = "flight"
                             \/ ~ctxDone' /\ (pc'[c] = "send" \/ (pc'[c] = "waiting" /\ due'[c]))
         /\ c \in Late' <=> pc'[c] = "reply" /\ answer'[c].headers /\ High(answer'[c])
         /\ c \in Loose' <=> ~ctxDone' /\ \/ pc'[c] \in {"idle", "check", "backoff"}
                                          \/ pc'[c] = "reply" /\ ~answer'[c].headers
  BY DEF Armed, Late, Loose

\* The claim is a natural number; it does not grow when c only joins the loose callers
\* from the armed or the late ones, or the armed from the loose under a High record.
LEMMA ClaimKept ==
  ASSUME ReserveEnough, NEW c \in Callers, OnlyMoves(c), UNCHANGED rateLimit,
         c \notin Late', 
         c \in Armed' => c \in Armed \/ (c \in Loose /\ c \notin Loose' /\ High(rateLimit)),
         c \in Loose' => c \in Loose \/ c \in Armed \/ c \in Late,
         c \in Loose' => c \notin Armed'
  PROVE  Claim' <= Claim /\ Claim \in Nat
<1> DEFINE N == Cardinality(Callers)
           a == Cardinality(Armed)
           l == Cardinality(Late)
           f == Cardinality(Loose)
           a2 == Cardinality(Armed')
           l2 == Cardinality(Late')
           f2 == Cardinality(Loose')
<1>1. /\ N \in Nat /\ a \in Nat /\ l \in Nat /\ f \in Nat /\ a2 \in Nat /\ l2 \in Nat /\ f2 \in Nat
      /\ a2 = a + (IF c \in Armed' THEN 1 ELSE 0) - (IF c \in Armed THEN 1 ELSE 0)
      /\ l2 = l - (IF c \in Late THEN 1 ELSE 0)
      /\ f2 = f + (IF c \in Loose' THEN 1 ELSE 0) - (IF c \in Loose THEN 1 ELSE 0)
  BY Counts DEF Change, CountOK
<1>2. N >= 1
  BY <1>1, FS_EmptySet DEF ReserveEnough
<1>3. Claim = a + N * l + (IF High(rateLimit) THEN f ELSE 0)
  BY DEF Claim
<1>4. Claim' = a2 + N * l2 + (IF High(rateLimit) THEN f2 ELSE 0)
  BY DEF Claim, High
<1>5. N * l \in Nat /\ N * l2 \in Nat
  BY <1>1
<1>6. Claim \in Nat
  BY <1>1, <1>3, <1>5
<1>7. c \in Late => N * l2 <= N * l - N
  BY <1>1
<1>8. c \notin Late => N * l2 = N * l
  BY <1>1
<1> HIDE DEF N, a, l, f, a2, l2, f2
<1>9. CASE High(rateLimit)
  <2>1. CASE c \in Late
    BY <1>1, <1>2, <1>3, <1>4, <1>5, <1>7, <1>9, <2>1
  <2>2. CASE c \notin Late
    BY <1>1, <1>2, <1>3, <1>4, <1>5, <1>8, <1>9, <2>2
  <2> QED BY <1>6, <2>1, <2>2
<1>10. CASE ~High(rateLimit)
  BY <1>1, <1>2, <1>3, <1>4, <1>5, <1>6, <1>7, <1>8, <1>10
<1> QED BY <1>9, <1>10

\* What the callers share keeps its type, and only a waiting caller has its timer fired.
LEMMA SharedStep ==
  ASSUME CountersOK, SharedOK, DueWaits, [Next]_vars
  PROVE  SharedOK' /\ DueWaits'
<1> USE ClientAssumption DEF CountersOK, SharedOK, DueWaits
<1>1. ASSUME NEW c \in Callers, Begin(c) \/ Check(c) \/ Wake(c) PROVE SharedOK' /\ DueWaits'
  <2>1. CASE Begin(c) \/ Check(c)
    BY <2>1 DEF Begin, Check, Goto, callVars, history
  <2>2. CASE Wake(c)
    BY <2>2 DEF Wake, Goto, history
  <2> QED BY <1>1, <2>1, <2>2
<1>2. ASSUME NEW c \in Callers, Cancelled(c) PROVE SharedOK' /\ DueWaits'
  BY <1>2 DEF Cancelled, NoDefiniteAnswer, Return, Goto, history, Answers
<1>3. ASSUME NEW c \in Callers, Send(c) PROVE SharedOK' /\ DueWaits'
  BY <1>3 DEF Send, Return, Goto, history
<1>4. ASSUME NEW c \in Callers, Serve(c) PROVE SharedOK' /\ DueWaits'
  BY <1>4 DEF Serve, Goto, history
<1>5. ASSUME NEW c \in Callers, Receive(c) PROVE SharedOK' /\ DueWaits'
  <2>1. rateLimit' \in [remaining : 0..Limit, current : BOOLEAN]
    BY <1>5 DEF Receive, Answers
  <2>2. UNCHANGED <<ctxDone, due, lossy>> /\ \A d \in Callers : pc[d] = "waiting" => pc'[d] = "waiting"
    BY <1>5 DEF Receive, BodyUnreadable, Return, Goto
  <2> QED BY <2>1, <2>2
<1>6. ASSUME NEW c \in Callers, Timeout(c) \/ NetError(c) PROVE SharedOK' /\ DueWaits'
  BY <1>6 DEF Timeout, NetError, NoDefiniteAnswer, Return, Goto, Answers
<1>7. ASSUME NEW c \in Callers, Backoff(c) PROVE SharedOK' /\ DueWaits'
  BY <1>7 DEF Backoff, Goto, history
<1>8. CASE NextWindow
  <2>1. due' \in [Callers -> BOOLEAN] /\ \A c \in Callers : due'[c] = (pc[c] = "waiting")
    BY <1>8, Zenon DEF NextWindow
  <2>2. rateLimit' \in [remaining : 0..Limit, current : BOOLEAN]
    <3>1. rateLimit' = [remaining |-> 0, current |-> FALSE]
      BY <1>8 DEF NextWindow
    <3>2. 0 \in 0..Limit
      OBVIOUS
    <3> QED BY <3>1, <3>2
  <2>3. UNCHANGED <<ctxDone, pc>> /\ lossy' = FALSE
    BY <1>8 DEF NextWindow
  <2>4. DueWaits'
    BY <2>1, <2>3
  <2> QED BY <2>1, <2>2, <2>3, <2>4
<1>9. CASE Cancel \/ UNCHANGED vars
  <2>1. UNCHANGED <<rateLimit, due, lossy, pc>> /\ ctxDone' \in BOOLEAN
    BY <1>9 DEF Cancel, vars, callVars, history
  <2> QED BY <2>1
<1>10. CASE ServeOther \/ \E c \in Callers : ServeAbandoned(c)
  <2>1. UNCHANGED <<rateLimit, due, ctxDone, pc>> /\ lossy' = TRUE
    BY <1>10 DEF ServeOther, ServeAbandoned, callVars
  <2> QED BY <2>1
<1> QED
  BY <1>1, <1>2, <1>3, <1>4, <1>5, <1>6, <1>7, <1>8, <1>9, <1>10 DEF Next, Step

\* A caller's steps between two requests.
LEMMA CoveredQuiet ==
  ASSUME ReserveEnough, CountersOK, ReserveInv, NEW c \in Callers,
         Begin(c) \/ Check(c) \/ Wake(c) \/ Send(c) \/ Backoff(c)
  PROVE  Covered'
<1> USE DEF CountersOK, SharedOK, PCs, ReserveInv
<1>0. OnlyMoves(c) /\ UNCHANGED <<rateLimit, budget, lossy>>
  <2>1. UNCHANGED <<rateLimit, budget, lossy>>
    BY DEF Begin, Check, Wake, Send, Backoff, history
  <2> QED BY <2>1, CallerMoves DEF Step
<1> SUFFICES Claim' <= Claim /\ Claim \in Nat
  <2>1. Claim' \in Int
    <3>1. CountOK(Armed') /\ CountOK(Late') /\ CountOK(Loose') /\ Cardinality(Callers) \in Nat
      BY <1>0, Counts
    <3> QED BY <3>1 DEF Claim, CountOK
  <2> QED BY <1>0, <2>1 DEF Covered
<1>1. CASE Begin(c)
  <2>1. pc[c] = "idle" /\ pc'[c] = "check"
    BY <1>1 DEF Begin, Goto
  <2> QED BY <1>0, <2>1, Membership, ClaimKept DEF OnlyMoves
<1>2. CASE Check(c)
  <2>1. pc[c] = "check" /\ pc'[c] = IF MustWait THEN "waiting" ELSE "send"
    BY <1>2 DEF Check, Goto
  <2>2. ~due[c] /\ due'[c] = due[c]
    BY <1>2, <2>1 DEF DueWaits, Check, callVars
  <2>3. MustWait <=> ~High(rateLimit)
    BY ReserveType, ClientAssumption DEF MustWait, High, Reserve
  <2> QED BY <1>0, <2>1, <2>2, <2>3, Membership, ClaimKept DEF OnlyMoves
<1>3. CASE Wake(c)
  <2>1. pc[c] = "waiting" /\ due[c] /\ pc'[c] = "send"
    BY <1>3 DEF Wake, Goto
  <2> QED BY <1>0, <2>1, Membership, ClaimKept DEF OnlyMoves
<1>4. CASE Send(c)
  <2>1. pc[c] = "send" /\ pc'[c] = IF ctxDone THEN "idle" ELSE "flight"
    BY <1>4 DEF Send, Return, Goto
  <2> QED BY <1>0, <2>1, Membership, ClaimKept DEF OnlyMoves
<1>5. CASE Backoff(c)
  <2>1. pc[c] = "backoff" /\ pc'[c] = "check"
    BY <1>5 DEF Backoff, Goto
  <2> QED BY <1>0, <2>1, Membership, ClaimKept DEF OnlyMoves
<1> QED BY <1>1, <1>2, <1>3, <1>4, <1>5

\* A request given up: its answer, if GitHub has sent one in this window, is lost.
LEMMA CoveredGivenUp ==
  ASSUME ReserveEnough, CountersOK, ReserveInv, NEW c \in Callers, Cancelled(c) \/ Timeout(c) \/ NetError(c)
  PROVE  Covered'
<1> USE DEF CountersOK, SharedOK, PCs, ReserveInv
<1>0. OnlyMoves(c) /\ UNCHANGED <<rateLimit, budget>>
  <2>1. UNCHANGED <<rateLimit, budget>>
    BY DEF Cancelled, Timeout, NetError
  <2> QED BY <2>1, CallerMoves DEF Step
<1>1. pc[c] \in {"flight", "reply"} \/ ctxDone
  BY DEF Cancelled, Timeout, NetError
<1>2. pc'[c] \in {"idle", "backoff"}
  BY DEF Cancelled, Timeout, NetError, Return, Goto
<1>3. lossy' \in BOOLEAN /\ (lossy => lossy')
  BY DEF Cancelled, Timeout, NetError, NoDefiniteAnswer, history, Answers
<1>4. pc[c] = "reply" /\ answer[c].current => lossy'
  BY DEF Cancelled, Timeout, NetError, NoDefiniteAnswer
<1>5. ASSUME ~lossy' PROVE Claim' <= Claim /\ Claim \in Nat
  <2>1. pc[c] = "reply" => ~answer[c].current
    BY <1>4, <1>5
  <2>2. pc[c] = "reply" /\ answer[c].headers => c \in Late
    BY <2>1, Membership DEF High
  <2>3. c \notin Late' /\ c \notin Armed'
    BY <1>2, Membership
  <2>4. c \in Loose' => c \in Loose \/ c \in Armed \/ c \in Late
    BY <1>0, <1>1, <2>2, Membership DEF OnlyMoves, Answers
  <2> QED BY <1>0, <2>3, <2>4, ClaimKept
<1>6. Claim' \in Int
  <2>1. CountOK(Armed') /\ CountOK(Late') /\ CountOK(Loose') /\ Cardinality(Callers) \in Nat
    BY <1>0, Counts
  <2> QED BY <2>1 DEF Claim, CountOK
<1> QED BY <1>0, <1>3, <1>5, <1>6 DEF Covered

\* Arithmetic of the moment the window reaches its reserve.
LEMMA ReserveCovers ==
  ASSUME NEW n \in Nat, NEW a \in Nat, NEW l \in Nat, NEW f \in Nat, a + l + f <= n - 1
  PROVE  a + n * l + f <= n * (n - 1)
<1>1. n \in Nat \ {0} /\ l \in 0..(n - 1) /\ a + f <= (n - 1) - l
  OBVIOUS
<1> DEFINE m == (n - 1) - l
<1>2. m \in Nat /\ n - 1 = l + m /\ a + f <= m
  BY <1>1
<1>3. n * (n - 1) = n * l + n * m
  BY <1>1, <1>2
<1>4. m <= n * m /\ n * m \in Nat /\ n * l \in Nat
  BY <1>1, <1>2
<1> HIDE DEF m
<1> QED BY <1>2, <1>3, <1>4

\* GitHub answers.
LEMMA CoveredServe ==
  ASSUME ReserveEnough, CountersOK, ReserveInv, NEW c \in Callers, Serve(c)
  PROVE  Covered' /\ (~lossy => answer'[c].status # "forbidden")
<1> USE DEF CountersOK, SharedOK, PCs, ReserveInv
<1>0. OnlyMoves(c) /\ UNCHANGED <<rateLimit, lossy>>
  <2>1. UNCHANGED <<rateLimit, lossy>>
    BY DEF Serve, history
  <2> QED BY <2>1, CallerMoves DEF Step
<1> DEFINE N == Cardinality(Callers)
           a == Cardinality(Armed)
           l == Cardinality(Late)
           f == Cardinality(Loose)
           a2 == Cardinality(Armed')
           l2 == Cardinality(Late')
           f2 == Cardinality(Loose')
<1>1. /\ N \in Nat /\ a \in Nat /\ l \in Nat /\ f \in Nat /\ a2 \in Nat /\ l2 \in Nat /\ f2 \in Nat
      /\ a2 = a + (IF c \in Armed' THEN 1 ELSE 0) - (IF c \in Armed THEN 1 ELSE 0)
      /\ l2 = l + (IF c \in Late' THEN 1 ELSE 0) - (IF c \in Late THEN 1 ELSE 0)
      /\ f2 = f + (IF c \in Loose' THEN 1 ELSE 0) - (IF c \in Loose THEN 1 ELSE 0)
  BY <1>0, Counts DEF Change, CountOK
<1>2. Claim = a + N * l + (IF High(rateLimit) THEN f ELSE 0)
  BY DEF Claim
<1>3. Claim' = a2 + N * l2 + (IF High(rateLimit) THEN f2 ELSE 0)
  BY <1>0 DEF Claim, High
<1>4. N * l \in Nat /\ N * l2 \in Nat
  BY <1>1
<1>5. /\ pc[c] = "flight" /\ pc'[c] = "reply"
      /\ c \in Armed /\ c \notin Armed' /\ c \notin Late /\ c \notin Loose
  BY Membership DEF Serve, Goto
<1>6. ~lossy => budget > 0
  <2> SUFFICES ASSUME ~lossy, budget = 0 PROVE FALSE
    OBVIOUS
  <2>1. Claim <= 0
    BY ReserveType DEF Covered
  <2>2. a >= 1
    <3>1. IsFiniteSet(Armed) /\ Armed # {}
      BY <1>5, FS_Subset DEF ReserveEnough, Armed
    <3> QED BY <1>1, <3>1, FS_EmptySet
  <2> HIDE DEF N, a, l, f
  <2> QED BY <1>1, <1>2, <1>4, <2>1, <2>2
<1>7. CASE budget = 0
  BY <1>0, <1>6, <1>7, ReserveType DEF Covered, Serve
<1>8. CASE /\ budget > 0 /\ budget' = budget - 1
           /\ \E st \in {"ok"} \cup (Faults \cap {"rejected"}) :
                answer' = [answer EXCEPT ![c] = [status |-> st, headers |-> TRUE,
                                                 remaining |-> budget - 1, current |-> TRUE]]
  <2>1. /\ answer'[c].headers /\ answer'[c].remaining = budget - 1 /\ answer'[c].current
        /\ answer'[c].status # "forbidden"
    BY <1>8
  <2>2. c \notin Loose' /\ (c \in Late' <=> budget - 1 > Reserve)
    BY <1>5, <2>1, Membership DEF High
  <2>3. CASE budget <= Reserve
    <3>1. c \notin Late' /\ budget - 1 <= Reserve
      BY <2>2, <2>3, ReserveType
    <3>2. a2 = a - 1 /\ l2 = l /\ f2 = f
      BY <1>1, <1>5, <2>2, <3>1
    <3>3. Claim' = Claim - 1 /\ Claim \in Nat
      <4> HIDE DEF N, a, l, f, a2, l2, f2
      <4> QED BY <1>1, <1>2, <1>3, <1>4, <3>2
    <3> QED BY <1>0, <1>8, <2>1, <2>3, <3>3 DEF Covered
  <2>4. CASE budget = Reserve + 1
    <3>1. c \notin Late'
      BY <2>2, <2>4, ReserveType
    <3>2. Armed' \cap Late' = {} /\ Armed' \cap Loose' = {} /\ Late' \cap Loose' = {}
      BY DEF Armed, Late, Loose
    <3>3. a2 + l2 + f2 <= N - 1
      BY <1>5, <2>2, <3>1, <3>2, ApartSum DEF ReserveEnough, Armed, Late, Loose
    <3>4. a2 + N * l2 + f2 <= N * (N - 1)
      <4> HIDE DEF N, a2, l2, f2
      <4> QED BY <1>1, <3>3, ReserveCovers
    <3>5. N * (N - 1) <= Reserve /\ N * (N - 1) \in Int
      BY <1>1 DEF ReserveEnough
    <3>6. Claim' <= Reserve
      <4> HIDE DEF N, a, l, f, a2, l2, f2
      <4> QED BY <1>1, <1>3, <1>4, <3>4, <3>5, ReserveType
    <3>7. budget' = Reserve
      BY <1>8, <2>4, ReserveType
    <3> QED BY <2>1, <3>6, <3>7 DEF Covered
  <2>5. CASE budget > Reserve + 1
    <3>1. ~(budget' <= Reserve)
      BY <1>8, <2>5, ReserveType
    <3> QED BY <2>1, <3>1 DEF Covered
  <2> QED BY <2>3, <2>4, <2>5, ReserveType
<1>9. CASE UNCHANGED budget /\ answer' = [answer EXCEPT ![c] = [NoAnswer EXCEPT !.status = "transient"]]
  <2>1. ~answer'[c].headers /\ answer'[c].status = "transient"
    BY <1>9 DEF NoAnswer
  <2>2. c \notin Late'
    BY <2>1, Membership
  <2>3. Claim' <= Claim /\ Claim \in Nat /\ Claim' \in Nat
    <3>1. a2 = a - 1 /\ l2 = l /\ f2 <= f + 1
      BY <1>1, <1>5, <2>2
    <3> HIDE DEF N, a, l, f, a2, l2, f2
    <3> QED BY <1>1, <1>2, <1>3, <1>4, <3>1
  <2> QED BY <1>0, <1>9, <2>1, <2>3 DEF Covered
<1> QED BY <1>7, <1>8, <1>9 DEF Serve

\* An answer arrives and becomes the record, however late it is.
LEMMA CoveredReceive ==
  ASSUME ReserveEnough, CountersOK, ReserveInv, NEW c \in Callers, Receive(c)
  PROVE  Covered'
<1> USE DEF CountersOK, SharedOK, PCs, ReserveInv
<1>0. OnlyMoves(c) /\ UNCHANGED <<budget, lossy>>
  <2>1. UNCHANGED <<budget, lossy>>
    BY DEF Receive
  <2> QED BY <2>1, CallerMoves DEF Step
<1>1. pc[c] = "reply" /\ pc'[c] \in {"idle", "backoff"}
  BY DEF Receive, BodyUnreadable, Return, Goto
<1>2. c \notin Armed' /\ c \notin Late' /\ c \notin Armed
  BY <1>1, Membership
<1> DEFINE N == Cardinality(Callers)
           a == Cardinality(Armed)
           l == Cardinality(Late)
           f == Cardinality(Loose)
           a2 == Cardinality(Armed')
           l2 == Cardinality(Late')
           f2 == Cardinality(Loose')
<1>3. /\ N \in Nat /\ a \in Nat /\ l \in Nat /\ f \in Nat /\ a2 \in Nat /\ l2 \in Nat /\ f2 \in Nat
      /\ a2 = a /\ l2 = l - (IF c \in Late THEN 1 ELSE 0) /\ f2 <= N
  BY <1>0, <1>2, Counts DEF Change, CountOK
<1>4. Claim = a + N * l + (IF High(rateLimit) THEN f ELSE 0)
  BY DEF Claim
<1>5. Claim' = a2 + N * l2 + (IF High(rateLimit') THEN f2 ELSE 0)
  BY DEF Claim, High
<1>6. /\ N * l \in Nat /\ N * l2 \in Nat
      /\ c \in Late => N * l2 = N * l - N
      /\ c \notin Late => N * l2 = N * l
  BY <1>3
<1>7. CASE answer[c].headers
  <2>1. rateLimit' = [remaining |-> answer[c].remaining, current |-> answer[c].current]
    BY <1>7 DEF Receive
  <2>2. High(rateLimit') <=> c \in Late
    BY <1>1, <1>7, <2>1, Membership DEF High
  <2>3. Claim' <= Claim /\ Claim \in Nat /\ Claim' \in Nat
    <3> HIDE DEF N, a, l, f, a2, l2, f2
    <3> QED BY <1>3, <1>4, <1>5, <1>6, <2>2
  <2> QED BY <1>0, <2>3 DEF Covered
<1>8. CASE ~answer[c].headers
  <2>1. UNCHANGED rateLimit
    BY <1>8 DEF Receive
  <2>2. c \in Loose' => c \in Loose
    BY <1>0, <1>1, <1>8, Membership DEF OnlyMoves
  <2>3. Claim' <= Claim /\ Claim \in Nat
    BY <1>0, <1>2, <2>1, <2>2, ClaimKept
  <2>4. Claim' \in Nat
    <3> HIDE DEF N, a, l, f, a2, l2, f2
    <3> QED BY <1>3, <1>5, <1>6
  <2> QED BY <1>0, <2>3, <2>4 DEF Covered
<1> QED BY <1>7, <1>8

\* The environment: a full window is above its reserve, a context that ends stops callers
\* and lets none through, and a request no answer tells of makes the window lossy.
LEMMA CoveredOthers ==
  ASSUME ReserveEnough, CountersOK, ReserveInv,
         \/ NextWindow \/ Cancel \/ UNCHANGED vars
         \/ ServeOther \/ \E c \in Callers : ServeAbandoned(c)
  PROVE  Covered'
<1> USE DEF CountersOK, SharedOK, PCs, ReserveInv
<1>1. CASE NextWindow
  <2>1. budget' = Limit
    BY <1>1 DEF NextWindow
  <2>2. ~(budget' <= Reserve)
    BY <2>1, ReserveType, ClientAssumption DEF ReserveEnough
  <2> QED BY <2>2 DEF Covered
<1>2. CASE Cancel
  <2>1. UNCHANGED <<budget, rateLimit, lossy, pc, due, answer>> /\ ctxDone' = TRUE
    BY <1>2 DEF Cancel, callVars, history
  <2>2. Armed' \in SUBSET Armed /\ Late' = Late /\ Loose' = {}
    BY <2>1 DEF Armed, Late, Loose, High
  <2>3. IsFiniteSet(Armed) /\ IsFiniteSet(Late) /\ IsFiniteSet(Loose)
    BY FS_Subset DEF ReserveEnough, Armed, Late, Loose
  <2>4. /\ Cardinality(Armed') <= Cardinality(Armed) /\ Cardinality(Armed') \in Nat
        /\ Cardinality(Armed) \in Nat /\ Cardinality(Late) \in Nat /\ Cardinality(Loose) \in Nat
        /\ Cardinality(Callers) \in Nat /\ Cardinality(Loose') = 0
    BY <2>2, <2>3, FS_Subset, FS_CardinalityType, FS_EmptySet DEF ReserveEnough
  <2>5. Cardinality(Callers) * Cardinality(Late) \in Nat
    BY <2>4
  <2>6. Claim' <= Claim /\ Claim \in Nat /\ Claim' \in Nat
    BY <2>1, <2>2, <2>4, <2>5 DEF Claim, High
  <2> QED BY <2>1, <2>6 DEF Covered
<1>3. CASE UNCHANGED vars
  BY <1>3 DEF vars, Covered, Claim, High, Armed, Late, Loose
<1>4. CASE ServeOther \/ \E c \in Callers : ServeAbandoned(c)
  <2>1. lossy' = TRUE
    BY <1>4 DEF ServeOther, ServeAbandoned
  <2> QED BY <2>1 DEF Covered
<1> QED BY <1>1, <1>2, <1>3, <1>4

LEMMA ReserveStep ==
  ASSUME ReserveEnough, CountersOK, ReserveInv, [Next]_vars
  PROVE  ReserveInv'
<1>1. SharedOK' /\ DueWaits'
  BY SharedStep DEF ReserveInv
<1>2. Covered'
  BY CoveredQuiet, CoveredGivenUp, CoveredServe, CoveredReceive, CoveredOthers DEF Next, Step
<1>3. NeverForbidden'
  <2> SUFFICES ASSUME NEW d \in Callers, answer'[d].status = "forbidden", answer'[d].current
               PROVE  lossy'
    BY DEF NeverForbidden
  <2> USE DEF ReserveInv, NeverForbidden, CountersOK, SharedOK
  <2>1. ASSUME NEW c \in Callers, Serve(c) PROVE lossy'
    <3>1. CASE c = d
      BY <2>1, <3>1, CoveredServe DEF Serve, history
    <3>2. CASE c # d
      BY <2>1, <3>2, CallerMoves DEF Step, OnlyMoves, Serve, history
    <3> QED BY <3>1, <3>2
  <2>2. ASSUME NEW c \in Callers, Cancelled(c) \/ Receive(c) \/ Timeout(c) \/ NetError(c) PROVE lossy'
    <3>1. answer' = answer \/ answer' = [answer EXCEPT ![c] = NoAnswer]
      BY <2>2 DEF Cancelled, Receive, Timeout, NetError, NoDefiniteAnswer
    <3>2. lossy => lossy'
      BY <2>2 DEF Cancelled, Receive, Timeout, NetError, NoDefiniteAnswer, history
    <3> QED BY <3>1, <3>2 DEF NoAnswer
  <2>3. ASSUME NEW c \in Callers, Begin(c) \/ Check(c) \/ Wake(c) \/ Send(c) \/ Backoff(c) PROVE lossy'
    BY <2>3 DEF Begin, Check, Wake, Send, Backoff, callVars, history
  <2>4. CASE NextWindow
    <3>1. answer'[d] = [answer[d] EXCEPT !.remaining = 0, !.current = FALSE] /\ answer[d] \in Answers
      BY <2>4 DEF NextWindow
    <3>2. ~answer'[d].current
      BY <3>1 DEF Answers
    <3> QED BY <3>2
  <2>5. CASE Cancel \/ UNCHANGED vars
    BY <2>5 DEF Cancel, vars, callVars, history
  <2>6. CASE ServeOther \/ \E c \in Callers : ServeAbandoned(c)
    BY <2>6 DEF ServeOther, ServeAbandoned
  <2> QED BY <2>1, <2>2, <2>3, <2>4, <2>5, <2>6 DEF Next, Step
<1> QED BY <1>1, <1>2, <1>3 DEF ReserveInv

\* With a reserve of n * (n - 1) requests for n callers on one client GitHub refuses none of
\* them, however late their answers overwrite each other's record, unless it counted a request
\* in the same window that no answer told them of.
THEOREM ReserveSuffices ==
  ASSUME ReserveEnough
  PROVE  Spec => []NeverForbidden
<1>1. Init => ReserveInv
  <2> SUFFICES ASSUME Init PROVE ReserveInv
    OBVIOUS
  <2>1. SharedOK /\ DueWaits
    <3>1. rateLimit \in [remaining : 0..Limit, current : BOOLEAN]
      BY ClientAssumption DEF Init
    <3>2. due = [c \in Callers |-> FALSE] /\ ctxDone = FALSE /\ lossy = FALSE
      BY DEF Init
    <3>3. due \in [Callers -> BOOLEAN]
      BY <3>2
    <3> QED BY <3>1, <3>2, <3>3 DEF SharedOK, DueWaits
  <2>2. budget = Limit
    BY DEF Init
  <2>3. ~(budget <= Reserve)
    BY <2>2, ReserveType, ClientAssumption DEF ReserveEnough
  <2>4. NeverForbidden
    BY DEF Init, NeverForbidden, NoAnswer
  <2> QED BY <2>1, <2>3, <2>4 DEF ReserveInv, Covered
<1>2. IInv /\ ReserveInv /\ [Next]_vars => ReserveInv'
  BY ReserveStep DEF IInv
<1>3. ReserveInv => NeverForbidden
  BY DEF ReserveInv
<1> QED BY <1>1, <1>2, <1>3, ClientInvariant, PTL DEF Spec

=============================================================================
