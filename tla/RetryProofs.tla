---------------------------- MODULE RetryProofs ----------------------------
(* The safety properties of Retry, for every budget, cap and set of answers. *)
EXTENDS Retry, TLAPS

\* A sleeping request sleeps after something curable, and has budget left.
AsleepOK ==
    pc = "asleep" =>
        /\ attempt < MaxAttempts
        /\ last \in Responses \cup SendErrors
        /\ IsResponse(last) => Verdict(last, graphql) = "backoff"
        /\ ~IsResponse(last) => last = [failed |-> "transport"]

\* Every sleep so far was within the cap.
SleptOK == slept <= (attempt - 1) * MaxWait

\* A judged request has come back with something.
JudgeOK == pc = "judge" => last \in Responses \cup SendErrors

\* What is handed back was read as an answer.
OutcomeOK ==
    outcome = "answer" => /\ pc = "done"
                          /\ IsResponse(last)
                          /\ Verdict(last, graphql) = "none"

PendingOK == pc # "done" => outcome = "pending"

IInv == TypeOK /\ AsleepOK /\ SleptOK /\ JudgeOK /\ OutcomeOK /\ PendingOK

-----------------------------------------------------------------------------

\* One more wait of at most the cap.
LEMMA OneMore ==
    ASSUME NEW n \in Nat, NEW m \in Nat
    PROVE  (n - 1) * m + m = n * m
  BY SMT

\* The headers and the body of an answer have their types.
LEMMA ResponseType ==
    ASSUME NEW r \in Responses
    PROVE  /\ r.status \in Statuses
           /\ r.retryAfter \in RetryAfters
           /\ r.reset \in Instants \cup {None}
           /\ r.exhausted \in BOOLEAN
           /\ r.body \in Bodies
  BY DEF Responses

\* A number of seconds that fits a Duration comes to itself; one that does not
\* still comes to a Duration (indicatedWait's product).
LEMMA WrappedIs ==
    ASSUME NEW d \in Int
    PROVE  /\ Wrapped(d) \in MinDuration .. MaxDuration
           /\ d \in MinDuration .. MaxDuration => Wrapped(d) = d
<1>. DEFINE m == 2 * (MaxDuration + 1)
<1>1. /\ MaxDuration \in Nat /\ m \in Nat \ {0}
      /\ MinDuration \in Int /\ d - MinDuration \in Int /\ m = MaxDuration - MinDuration + 1
  BY RetryAssumption DEF MinDuration
<1>2. \A x \in Int : x % m \in 0 .. m - 1 /\ (x \in 0 .. m - 1 => x % m = x)
  <2>. HIDE DEF m
  <2>. QED  BY <1>1
<1>3. (d - MinDuration) % m \in 0 .. m - 1
  BY <1>1, <1>2
<1>4. d \in MinDuration .. MaxDuration => (d - MinDuration) % m = d - MinDuration
  <2>. HIDE DEF m
  <2>. QED  BY <1>1, <1>2
<1>5. Wrapped(d) = ((d - MinDuration) % m) + MinDuration
  BY DEF Wrapped
<1>. HIDE DEF m
<1>. QED  BY <1>1, <1>3, <1>4, <1>5

\* Time.Sub comes to a Duration, and never to less than the instant is away,
\* short of the horizon.
LEMMA UntilIs ==
    ASSUME NEW t \in Int
    PROVE  /\ Until(t) \in MinDuration .. MaxDuration
           /\ t <= Horizon => Until(t) >= t \/ Until(t) = MaxDuration
  BY RetryAssumption DEF Until, MinDuration

\* What a Retry-After is decides which header is read.
LEMMA RetryAfterKinds ==
    ASSUME NEW r \in Responses
    PROVE  \/ \E n \in Seconds : /\ r.retryAfter = [seconds |-> n]
                                /\ IndicatedWait(r) = Wrapped(n * Second)
           \/ \E t \in Instants : /\ r.retryAfter = [date |-> t] /\ t <= Horizon
                                 /\ IndicatedWait(r) = Until(t)
           \/ /\ r.retryAfter \in {None, Garbled} /\ r.reset \in Instants
              /\ IndicatedWait(r) = Until(r.reset)
           \/ /\ r.retryAfter \in {None, Garbled} /\ r.reset = None
              /\ IndicatedWait(r) = None
<1>. DEFINE a == r.retryAfter
<1>1. a \in RetryAfters /\ r.reset \in Instants \cup {None}
  BY ResponseType
<1>2. /\ None \notin [seconds : Seconds] \cup [date : Instants] \cup Int
      /\ Garbled \notin [seconds : Seconds] \cup [date : Instants] \cup Int
      /\ Instants \subseteq Int
  BY RetryAssumption
<1>3. CASE a \in [seconds : Seconds]
  <2>1. PICK n \in Seconds : a = [seconds |-> n]
    BY <1>3
  <2>2. a \notin [date : Instants] /\ a \notin {None, Garbled}
    BY <1>2, <1>3
  <2>3. IndicatedWait(r) = Wrapped(r.retryAfter.seconds * Second)
    BY <1>3, <2>2 DEF IndicatedWait
  <2>. QED  BY <2>1, <2>3
<1>4. CASE a \in [date : {t \in Instants : t <= Horizon}]
  <2>1. PICK t \in Instants : a = [date |-> t] /\ t <= Horizon
    BY <1>4
  <2>2. a \in [date : Instants] /\ a \notin [seconds : Seconds] /\ a \notin {None, Garbled}
    BY <1>2, <2>1
  <2>3. IndicatedWait(r) = Until(r.retryAfter.date)
    BY <2>2 DEF IndicatedWait
  <2>. QED  BY <2>1, <2>3
<1>5. CASE a \in {None, Garbled}
  <2>1. a \notin [seconds : Seconds] /\ a \notin [date : Instants]
    BY <1>2, <1>5
  <2>2. CASE r.reset = None
    BY <1>5, <2>1, <2>2 DEF IndicatedWait
  <2>3. CASE r.reset # None
    BY <1>1, <1>5, <2>1, <2>3 DEF IndicatedWait
  <2>. QED  BY <2>2, <2>3
<1>. QED  BY <1>1, <1>3, <1>4, <1>5 DEF RetryAfters

\* A time GitHub named is a Duration (rateLimitWait compares it with the cap).
LEMMA IndicatedWaitType ==
    ASSUME NEW r \in Responses
    PROVE  IndicatedWait(r) \in Int \cup {None}
<1>1. \A n \in Seconds : n * Second \in Int /\ Wrapped(n * Second) \in Int
  BY WrappedIs, RetryAssumption DEF MinDuration
<1>2. \A t \in Instants : Until(t) \in Int
  BY UntilIs, RetryAssumption DEF MinDuration
<1>. QED  BY <1>1, <1>2, RetryAfterKinds

\* Each time an answer names is the wait indicated for it, or less than that, or
\* beyond any cap.
LEMMA NamedIsIndicated ==
    ASSUME NEW r \in Responses, NEW t \in TimesNamed(r)
    PROVE  /\ t \in Int
           /\ IndicatedWait(r) \in Int
           /\ IndicatedWait(r) >= t \/ IndicatedWait(r) = MaxDuration
<1>. DEFINE a == r.retryAfter
<1>1. \/ \E n \in Seconds : a = [seconds |-> n] /\ n * Second <= MaxDuration /\ t = n * Second
      \/ t \in Instants /\ a = [date |-> t]
      \/ t \in Instants /\ a \in {None, Garbled} /\ r.reset = t /\ t <= Horizon
  BY DEF TimesNamed
<1>2. /\ \A n \in Seconds : [seconds |-> n] \in [seconds : Seconds]
      /\ \A i \in Instants : [date |-> i] \in [date : Instants]
  OBVIOUS
<1>3. /\ None \notin [seconds : Seconds] \cup [date : Instants] \cup Int
      /\ Garbled \notin [seconds : Seconds] \cup [date : Instants] \cup Int
      /\ Instants \subseteq Int /\ Seconds \subseteq Int /\ Second \in Nat \ {0}
  BY RetryAssumption
<1>4. CASE \E n \in Seconds : a = [seconds |-> n] /\ n * Second <= MaxDuration /\ t = n * Second
  <2>1. PICK n \in Seconds : a = [seconds |-> n] /\ n * Second <= MaxDuration /\ t = n * Second
    BY <1>4
  <2>2. \A m \in Seconds : a = [seconds |-> m] => m = n
    <3>1. a.seconds = n
      BY <2>1
    <3>. QED  BY <3>1
  <2>3. IndicatedWait(r) = Wrapped(t)
    <3>1. \A i \in Instants : a # [date |-> i]
      BY <2>1
    <3>2. a \notin {None, Garbled}
      BY <1>2, <1>3, <2>1
    <3>. QED  BY <2>1, <2>2, <3>1, <3>2, RetryAfterKinds
  <2>4. t \in Int
    BY <1>3, <2>1
  <2>5. Wrapped(t) \in MinDuration .. MaxDuration /\ (t \in MinDuration .. MaxDuration => Wrapped(t) = t)
    BY <2>4, WrappedIs
  <2>. QED  BY <2>1, <2>3, <2>4, <2>5, RetryAssumption DEF MinDuration
<1>5. CASE t \in Instants /\ a = [date |-> t]
  <2>1. a \notin {None, Garbled} /\ \A n \in Seconds : a # [seconds |-> n]
    BY <1>2, <1>3, <1>5
  <2>2. \A i \in Instants : a = [date |-> i] => i = t
    <3>1. a.date = t
      BY <1>5
    <3>. QED  BY <3>1
  <2>3. t <= Horizon /\ IndicatedWait(r) = Until(t)
    BY <1>5, <2>1, <2>2, RetryAfterKinds
  <2>. QED  BY <1>3, <1>5, <2>3, UntilIs, RetryAssumption DEF MinDuration
<1>6. CASE t \in Instants /\ a \in {None, Garbled} /\ r.reset = t /\ t <= Horizon
  <2>1. /\ \A n \in Seconds : a # [seconds |-> n]
        /\ \A i \in Instants : a # [date |-> i]
        /\ r.reset # None
    BY <1>2, <1>3, <1>6
  <2>2. IndicatedWait(r) = Until(t)
    BY <1>6, <2>1, RetryAfterKinds
  <2>. QED  BY <1>3, <1>6, <2>2, UntilIs, RetryAssumption DEF MinDuration
<1>. QED  BY <1>1, <1>4, <1>5, <1>6

\* rateLimitWait and backoff never choose a wait beyond the cap, once the
\* verdict on the answer is to try again.
LEMMA WaitsBounded ==
    ASSUME NEW a, NEW n \in Nat,
           IsResponse(a) => Verdict(a, graphql) = "backoff"
    PROVE  Waits(a, n) \subseteq 0 .. MaxWait
<1>1. Backoff(n) \subseteq 0 .. MaxWait
  BY RetryAssumption DEF Backoff
<1>2. CASE IsResponse(a) /\ IsLimit(a, graphql) /\ IndicatedWait(a) # None
  <2>1. IndicatedWait(a) \in Int
    BY <1>2, IndicatedWaitType DEF IsResponse
  <2>2. ~IsTooLong(a, graphql)
    BY <1>2 DEF Verdict
  <2>3. IndicatedWait(a) <= MaxWait
    BY <1>2, <2>1, <2>2, RetryAssumption DEF IsTooLong
  <2>4. Larger(IndicatedWait(a), 0) \in 0 .. MaxWait
    BY <2>1, <2>3, RetryAssumption DEF Larger
  <2>. QED  BY <1>2, <2>4 DEF Waits
<1>3. CASE ~(IsResponse(a) /\ IsLimit(a, graphql) /\ IndicatedWait(a) # None)
  BY <1>1, <1>3 DEF Waits
<1>. QED  BY <1>2, <1>3

-----------------------------------------------------------------------------

\* The loop's state keeps its type and its waits stay within the budget.
THEOREM Invariance == Spec => []IInv
<1>1. Init => IInv
  <2>. SUFFICES ASSUME Init PROVE IInv
    OBVIOUS
  <2>1. TypeOK
    <3>1. /\ attempt \in 1 .. MaxAttempts
          /\ wait \in 0 .. MaxWait
          /\ slept \in Nat
      BY RetryAssumption DEF Init
    <3>2. /\ graphql \in BOOLEAN /\ cancelled \in BOOLEAN /\ doomed \in BOOLEAN
          /\ last \in Responses \cup SendErrors \cup {Nothing}
      BY Zenon DEF Init
    <3>. QED  BY <3>1, <3>2 DEF Init, TypeOK
  <2>2. SleptOK
    BY RetryAssumption DEF Init, SleptOK
  <2>3. AsleepOK /\ JudgeOK /\ OutcomeOK /\ PendingOK
    BY DEF Init, AsleepOK, JudgeOK, OutcomeOK, PendingOK
  <2>. QED  BY <2>1, <2>2, <2>3 DEF IInv
<1>2. IInv /\ [Next]_vars => IInv'
  <2>. SUFFICES ASSUME IInv, [Next]_vars PROVE IInv'
    OBVIOUS
  <2>0. attempt \in Nat /\ MaxWait \in Nat
    <3>1. attempt \in 1 .. MaxAttempts
      BY DEF IInv, TypeOK
    <3>. QED  BY <3>1, RetryAssumption
  <2>. USE RetryAssumption
       DEF IInv, TypeOK, AsleepOK, SleptOK, JudgeOK, OutcomeOK, PendingOK
  <2>1. CASE Cancel
    BY <2>1 DEF Cancel
  <2>2. CASE Send
    BY <2>2 DEF Send
  <2>3. CASE Arrive
    BY <2>3 DEF Arrive
  <2>4. CASE ReturnSendErr
    BY <2>4 DEF ReturnSendErr, Return
  <2>5. CASE ReturnAnswer
    BY <2>5 DEF ReturnAnswer, Return
  <2>6. CASE ReturnTooLong
    BY <2>6 DEF ReturnTooLong, Return
  <2>7. CASE GiveUp
    BY <2>7 DEF GiveUp, Return
  <2>8. CASE FallAsleep
    <3>1. IsResponse(last) => Verdict(last, graphql) = "backoff"
      BY <2>8 DEF FallAsleep, WantsResend
    <3>2. wait' \in 0 .. MaxWait
      BY <2>8, <3>1, WaitsBounded DEF FallAsleep
    <3>3. ~IsResponse(last) => last = [failed |-> "transport"]
      BY <2>8 DEF FallAsleep, WantsResend, RetryableSendErr, IsResponse, SendErrors
    <3>. QED  BY <2>8, <3>1, <3>2, <3>3 DEF FallAsleep
  <2>9. CASE Wake
    <3>1. slept + wait <= (attempt - 1) * MaxWait + MaxWait
      BY <2>9 DEF Wake
    <3>2. (attempt - 1) * MaxWait + MaxWait = attempt * MaxWait
      BY <2>0, OneMore, Zenon
    <3>3. slept' <= (attempt' - 1) * MaxWait
      BY <2>9, <3>1, <3>2 DEF Wake
    <3>. QED  BY <2>9, <3>3 DEF Wake
  <2>10. CASE WakeCancelled
    BY <2>10 DEF WakeCancelled, Return
  <2>11. CASE UNCHANGED vars
    BY <2>11 DEF vars
  <2>. QED
    BY <2>1, <2>2, <2>3, <2>4, <2>5, <2>6, <2>7, <2>8, <2>9, <2>10, <2>11
    DEF Next, Step
<1>. QED  BY <1>1, <1>2, PTL DEF Spec

\* Type correctness (TypeOK) of doRetrying's loop.
THEOREM TypeCorrect == Spec => []TypeOK
<1>1. IInv => TypeOK
  BY DEF IInv
<1>. QED  BY <1>1, Invariance, PTL

\* No request waits longer than MaxAttempts - 1 times the cap, whatever GitHub
\* answers and whatever waits it names.
THEOREM WaitingIsBounded == Spec => []WaitingBounded
<1>1. IInv => WaitingBounded
  <2>. SUFFICES ASSUME IInv PROVE WaitingBounded
    OBVIOUS
  <2>1. /\ attempt \in 1 .. MaxAttempts /\ slept \in Nat
        /\ slept <= (attempt - 1) * MaxWait
    BY DEF IInv, TypeOK, SleptOK
  <2>2. (attempt - 1) * MaxWait <= (MaxAttempts - 1) * MaxWait
    <3>1. ASSUME NEW i \in Nat, NEW j \in Nat, NEW m \in Nat, i <= j
          PROVE  i * m <= j * m
      BY <3>1
    <3>. QED  BY <2>1, <3>1, RetryAssumption
  <2>. QED  BY <2>1, <2>2, RetryAssumption DEF WaitingBounded
<1>. QED  BY <1>1, Invariance, PTL

\* What the caller is handed is never one of GitHub's ways to say "later".
THEOREM AnswersAreFinal == Spec => []AnswerIsFinal
<1>1. IInv => AnswerIsFinal
  <2>. SUFFICES ASSUME IInv, outcome = "answer" PROVE AnswerIsFinal
    BY DEF AnswerIsFinal
  <2>1. IsResponse(last) /\ Verdict(last, graphql) = "none"
    BY DEF IInv, OutcomeOK
  <2>2. ~IsLimit(last, graphql) /\ ~IsFailing(last, graphql)
    BY <2>1 DEF Verdict
  <2>3. last.body \in Bodies /\ graphql \in BOOLEAN
    BY <2>1, ResponseType DEF IsResponse, IInv, TypeOK
  <2>. QED
    BY <2>2, <2>3 DEF AnswerIsFinal, IsLimit, IsFailing, GraphQLTransient, Bodies
<1>. QED  BY <1>1, Invariance, PTL

\* A request goes out again only after something a second send may cure.
THEOREM ResendsAreCurable == Spec => ResentOnlyWhenCurable
<1>. DEFINE Curable ==
       \/ last = [failed |-> "transport"]
       \/ /\ IsResponse(last)
          /\ \/ last.status \in {500, 502, 503, 504}
             \/ last.status \in {403, 429} /\ (last.retryAfter # None \/ last.exhausted)
             \/ last.status = 200 /\ last.body # {} /\ "other" \notin last.body
<1>1. IInv /\ [Next]_vars => [attempt' # attempt => Curable]_vars
  <2>. SUFFICES ASSUME IInv, [Next]_vars, attempt' # attempt PROVE Curable
    OBVIOUS
  <2>1. pc = "asleep"
    BY DEF Next, Step, Cancel, Send, Arrive, ReturnSendErr, ReturnAnswer, ReturnTooLong,
           GiveUp, FallAsleep, Wake, WakeCancelled, Return, vars
  <2>2. CASE ~IsResponse(last)
    BY <2>1, <2>2 DEF IInv, AsleepOK
  <2>3. CASE IsResponse(last)
    <3>1. IsLimit(last, graphql) \/ IsFailing(last, graphql)
      BY <2>1, <2>3 DEF IInv, AsleepOK, Verdict
    <3>2. last.body \in Bodies
      BY <2>3, ResponseType DEF IsResponse
    <3>. QED
      BY <2>3, <3>1, <3>2 DEF IsLimit, IsFailing, GraphQLTransient, Bodies
  <2>. QED  BY <2>2, <2>3
<1>. QED  BY <1>1, Invariance, PTL DEF Spec, ResentOnlyWhenCurable

\* A limit that named a time is sat out for as long, never more than the cap
\* (rateLimitWait, waitFor), for any times GitHub may name.
LEMMA LimitSatOut == Spec => [](pc = "asleep" => wait \in Waits(last, attempt))
<1>. DEFINE WaitOK == pc = "asleep" => wait \in Waits(last, attempt)
<1>1. Init => WaitOK
  BY DEF Init
<1>2. WaitOK /\ [Next]_vars => WaitOK'
  <2>. SUFFICES ASSUME WaitOK, [Next]_vars, pc' = "asleep" PROVE wait' \in Waits(last, attempt)'
    OBVIOUS
  <2>1. CASE FallAsleep
    BY <2>1 DEF FallAsleep, Waits
  <2>2. CASE UNCHANGED <<pc, last, attempt, wait, graphql>>
    BY <2>2 DEF Waits
  <2>. QED
    BY <2>1, <2>2 DEF Next, Step, Cancel, Send, Arrive, ReturnSendErr, ReturnAnswer, ReturnTooLong,
                      GiveUp, Wake, WakeCancelled, Return, vars
<1>. QED  BY <1>1, <1>2, PTL DEF Spec

\* An answer that says it is a limit is read as one (retryWait).
LEMMA SaidIsLimit ==
    ASSUME NEW r \in Responses, SaysLimit(r), graphql \in BOOLEAN
    PROVE  IsLimit(r, graphql)
  BY ResponseType DEF SaysLimit, IsLimit, GraphQLTransient, Bodies

\* No limit that named a time in any of its headers, as a 403, a 429 or a GraphQL
\* body, is asked again before that time, nor waited for beyond the cap
\* (rateLimitWait, indicatedWait, waitFor), short of times out of int64's range.
THEOREM LimitsAreHonoured == Spec => LimitHonoured
<1>. DEFINE WaitOK == pc = "asleep" => wait \in Waits(last, attempt)
            Honoured == \A t \in TimesNamed(last) : slept' - slept >= t /\ t <= MaxWait
            Limited == IsResponse(last) /\ SaysLimit(last)
<1>1. IInv /\ WaitOK /\ [Next]_vars => [attempt' # attempt /\ Limited => Honoured]_vars
  <2>. SUFFICES ASSUME IInv, WaitOK, [Next]_vars, attempt' # attempt, Limited,
                       NEW t \in TimesNamed(last)
                PROVE  slept' - slept >= t /\ t <= MaxWait
    OBVIOUS
  <2>. DEFINE w == IndicatedWait(last)
  <2>1. pc = "asleep" /\ slept' = slept + wait
    BY DEF Next, Step, Cancel, Send, Arrive, ReturnSendErr, ReturnAnswer, ReturnTooLong,
           GiveUp, FallAsleep, Wake, WakeCancelled, Return, vars
  <2>2. last \in Responses /\ graphql \in BOOLEAN
    BY DEF IsResponse, IInv, TypeOK
  <2>3. IsLimit(last, graphql)
    BY <2>2, SaidIsLimit
  <2>4. t \in Int /\ w \in Int /\ (w >= t \/ w = MaxDuration)
    BY <2>2, NamedIsIndicated
  <2>5. w # None
    BY <2>4, RetryAssumption
  <2>6. wait = Larger(w, 0)
    BY <2>1, <2>3, <2>5 DEF Waits
  <2>7. w <= MaxWait
    <3>1. ~IsTooLong(last, graphql)
      BY <2>1 DEF IInv, AsleepOK, Verdict
    <3>. QED  BY <2>3, <2>4, <2>5, <3>1, RetryAssumption DEF IsTooLong
  <2>8. w >= t
    BY <2>4, <2>7, RetryAssumption
  <2>9. slept \in Nat /\ wait >= w /\ wait \in Int
    BY <2>4, <2>6 DEF Larger, IInv, TypeOK
  <2>. QED
    BY <2>1, <2>4, <2>7, <2>8, <2>9, RetryAssumption
<1>. QED  BY <1>1, Invariance, LimitSatOut, PTL DEF Spec, LimitHonoured

-----------------------------------------------------------------------------
(* Retry implements Request. *)

\* An attempt fails with the caller's context only once that is done.
ContextOK == last = [failed |-> "context"] => cancelled

LEMMA StartsPending == Init => Abstract!Init
  BY DEF Init, Result, Abstract!Init

\* What the loop's outcome is to its caller.
LEMMA Results ==
    /\ pc # "done" /\ outcome = "pending" => Result = "pending"
    /\ pc = "done" /\ outcome = "answer" => Result = "answer"
    /\ pc = "done" /\ outcome = "cancelled" => Result = "aborted"
    /\ pc = "done" /\ outcome = "sendError" /\ last = [failed |-> "context"] => Result = "aborted"
    /\ pc = "done" /\ outcome = "sendError" /\ last # [failed |-> "context"] => Result = "error"
    /\ pc = "done" /\ outcome \in {"tooLong", "exhausted"} => Result = "error"
  BY DEF Result

LEMMA ResultsNext ==
    /\ pc' # "done" /\ outcome' = "pending" => Result' = "pending"
    /\ pc' = "done" /\ outcome' = "answer" => Result' = "answer"
    /\ pc' = "done" /\ outcome' = "cancelled" => Result' = "aborted"
    /\ pc' = "done" /\ outcome' = "sendError" /\ last' = [failed |-> "context"] => Result' = "aborted"
    /\ pc' = "done" /\ outcome' = "sendError" /\ last' # [failed |-> "context"] => Result' = "error"
    /\ pc' = "done" /\ outcome' \in {"tooLong", "exhausted"} => Result' = "error"
  BY DEF Result

\* What a step of the loop is to its caller: nothing, a cancellation, or the end.
LEMMA StepIsAbstract ==
    ASSUME PendingOK, ContextOK, [Next]_vars
    PROVE  [Abstract!Next]_<<cancelled, Result>>
<1>1. CASE Cancel
  <2>1. Result = "pending" /\ Result' = "pending" /\ ~cancelled /\ cancelled' = TRUE
    BY <1>1, Results, ResultsNext DEF Cancel, PendingOK
  <2>. QED  BY <2>1 DEF Abstract!Next, Abstract!Cancel
<1>2. CASE Send \/ Arrive \/ FallAsleep \/ Wake
  <2>1. Result = "pending" /\ Result' = "pending" /\ UNCHANGED cancelled
    BY <1>2, Results, ResultsNext DEF Send, Arrive, FallAsleep, Wake, PendingOK
  <2>. QED  BY <2>1
<1>3. CASE pc # "done" /\ (Return("answer") \/ Return("tooLong") \/ Return("exhausted"))
  <2>1. Result = "pending" /\ Result' \in {"answer", "error"} /\ UNCHANGED cancelled
    BY <1>3, Results, ResultsNext DEF Return, PendingOK
  <2>. QED  BY <2>1 DEF Abstract!Next, Abstract!Resolve
<1>4. CASE pc # "done" /\ Return("sendError")
  <2>1. CASE last = [failed |-> "context"]
    <3>1. Result = "pending" /\ Result' = "aborted" /\ UNCHANGED cancelled
      BY <1>4, <2>1, Results, ResultsNext DEF Return, PendingOK
    <3>2. cancelled
      BY <2>1 DEF ContextOK
    <3>. QED  BY <3>1, <3>2 DEF Abstract!Next, Abstract!Abort
  <2>2. CASE last # [failed |-> "context"]
    <3>1. Result = "pending" /\ Result' = "error" /\ UNCHANGED cancelled
      BY <1>4, <2>2, Results, ResultsNext DEF Return, PendingOK
    <3>. QED  BY <3>1 DEF Abstract!Next, Abstract!Resolve
  <2>. QED  BY <2>1, <2>2
<1>5. CASE WakeCancelled
  <2>1. Result = "pending" /\ Result' = "aborted" /\ UNCHANGED cancelled
    BY <1>5, Results, ResultsNext DEF WakeCancelled, Return, PendingOK
  <2>2. cancelled
    BY <1>5 DEF WakeCancelled
  <2>. QED  BY <2>1, <2>2 DEF Abstract!Next, Abstract!Abort
<1>6. CASE UNCHANGED vars
  BY <1>6 DEF vars, Result
<1>. QED
  BY <1>1, <1>2, <1>3, <1>4, <1>5, <1>6
  DEF Next, Step, ReturnSendErr, ReturnAnswer, ReturnTooLong, GiveUp

\* doRetrying keeps the promise of one request: whatever GitHub answers, it ends
\* once, and reports an abort only when its caller was cancelled.
THEOREM RetryImplementsRequest == Spec => ImplementsRequest
<1>1. Init => ContextOK
  BY DEF Init, ContextOK, Nothing
<1>2. ContextOK /\ [Next]_vars => ContextOK'
  BY DEF ContextOK, Nothing, Next, Step, Cancel, Send, Arrive, ReturnSendErr, ReturnAnswer, ReturnTooLong, GiveUp,
         FallAsleep, Wake, WakeCancelled, Return, vars
<1>3. IInv /\ ContextOK /\ [Next]_vars => [Abstract!Next]_<<cancelled, Result>>
  BY StepIsAbstract DEF IInv
<1>. QED
  BY <1>1, <1>2, <1>3, StartsPending, Invariance, PTL DEF Spec, ImplementsRequest, Abstract!Spec
=============================================================================
