------------------------------- MODULE Retry -------------------------------
(* One HTTP request of internal/github.Client: the resend loop doRetrying,    *)
(* the reading of each answer (retryWait, rateLimitWait, indicatedWait,       *)
(* graphQLTransient) and the wait before the next attempt (backoff, waitFor). *)
(* net/http and GitHub are the environment: Arrive picks what comes back.     *)
EXTENDS Integers

CONSTANTS
    MaxAttempts,  \* sends of one request, the first included
    Base,         \* the first backoff window; each attempt doubles it
    MaxWait,      \* the longest rate limit this client sits out
    Statuses,     \* the statuses GitHub answers with
    Second,       \* the ticks of a second
    MaxDuration,  \* the longest time.Duration, in ticks
    Horizon,      \* the last instant a time.Time holds, from now
    Seconds,      \* numbers a Retry-After may be
    Instants,     \* instants GitHub may name, in ticks from now; negative is past
    Garbled,      \* a Retry-After that is neither a number nor a date
    None          \* a header that is absent

ASSUME RetryAssumption ==
    /\ MaxAttempts \in Nat \ {0}
    /\ Base \in Nat \ {0}
    /\ MaxWait \in Nat \ {0}
    /\ Second \in Nat \ {0} /\ Horizon \in Nat
    /\ MaxDuration \in Nat /\ MaxWait < MaxDuration
    /\ Statuses \subseteq Int /\ Seconds \subseteq Int /\ Instants \subseteq Int
    /\ {None, Garbled} \cap (Int \cup [seconds : Seconds] \cup [date : Instants]) = {} /\ None # Garbled

VARIABLES
    graphql,    \* whether the caller passed graphQLTransient; a REST call passes nil
    pc,         \* "send", "inflight", "judge", "asleep", "done"
    attempt,    \* the loop's counter
    cancelled,  \* the caller's context is done
    doomed,     \* the context was already done when this attempt was sent
    last,       \* what this turn's attempt came back with
    wait,       \* the wait chosen after it
    slept,      \* all the waits sat through (history)
    outcome     \* what doRetrying returned

vars == <<graphql, pc, attempt, cancelled, doomed, last, wait, slept, outcome>>

-----------------------------------------------------------------------------
(* What an attempt can come back with. *)

\* A GraphQL errors array, as the kinds of entry in it; {} is an answer.
Bodies == SUBSET {"rate_limited", "timeout", "other"}

\* A Retry-After is a number of seconds or a date; no date is past the horizon.
RetryAfters == [seconds : Seconds] \cup [date : {t \in Instants : t <= Horizon}] \cup {None, Garbled}

\* A REST answer carries no errors array, and only GraphQL answers one on a 200.
Responses == {r \in [status : Statuses, body : Bodies,
                     retryAfter : RetryAfters,
                     exhausted : BOOLEAN, reset : Instants \cup {None}] :
                r.status # 200 => r.body = {}}

\* How send can fail: the connection (or a body cut short), the 30 s bound of
\* one request, a body over maxBodyBytes, or the caller's own context.
SendErrors == [failed : {"transport", "requestTimeout", "bodyTooLarge", "context"}]

\* What has come back before an attempt is made.
Nothing == [failed |-> "nothing"]

IsResponse(a) == a \in Responses

-----------------------------------------------------------------------------
(* Reading an answer. *)

\* The kind of transient failure a 200 body is, "none" when it is an answer or
\* a final failure.  One entry that is neither kind makes the whole body final.
GraphQLTransient(body) ==
    CASE body = {} \/ "other" \in body -> "none"
      [] body # {} /\ "other" \notin body /\ "rate_limited" \in body -> "limit"
      [] OTHER -> "timeout"

MinDuration == -MaxDuration - 1

\* A product of int64s wraps round.
Wrapped(d) == ((d - MinDuration) % (2 * (MaxDuration + 1))) + MinDuration

\* Time.Sub stops at the ends of a Duration; past the horizon the instant itself
\* has wrapped round, into the past.
Until(t) == CASE t > Horizon \/ t < MinDuration -> MinDuration
              [] t <= Horizon /\ t > MaxDuration -> MaxDuration
              [] OTHER -> t

\* Mutant: the reset is looked at only where there is no Retry-After at all.
IndicatedWaitAbsent(r) ==
    CASE r.retryAfter \in [seconds : Seconds] -> Wrapped(r.retryAfter.seconds * Second)
      [] r.retryAfter \in [date : Instants] -> Until(r.retryAfter.date)
      [] r.retryAfter = None /\ r.reset # None -> Until(r.reset)
      [] OTHER -> None

\* How long GitHub asked to be left alone for, None when it named no time: by a
\* Retry-After that is one, else by the reset.
IndicatedWait(r) ==
    CASE r.retryAfter \in [seconds : Seconds] -> Wrapped(r.retryAfter.seconds * Second)
      [] r.retryAfter \in [date : Instants] -> Until(r.retryAfter.date)
      [] r.retryAfter \in {None, Garbled} /\ r.reset # None -> Until(r.reset)
      [] OTHER -> None

\* Mutant: every 403 and 429 is a limit.
IsLimitBare(r, gql) ==
    \/ r.status = 200 /\ gql /\ GraphQLTransient(r.body) = "limit"
    \/ r.status \in {403, 429}

\* A 403 or 429 is a rate limit only when its headers say so; a 200 only when
\* the caller can read it as one.
IsLimit(r, gql) ==
    \/ r.status = 200 /\ gql /\ GraphQLTransient(r.body) = "limit"
    \/ r.status \in {403, 429} /\ (r.retryAfter # None \/ r.exhausted)

\* Mutant: 503 is left out of the list.
IsFailingWithout503(r, gql) ==
    \/ r.status \in {500, 502, 504}
    \/ r.status = 200 /\ gql /\ GraphQLTransient(r.body) = "timeout"

\* A server error, or a query that ran out of time.
IsFailing(r, gql) ==
    \/ r.status \in {500, 502, 503, 504}
    \/ r.status = 200 /\ gql /\ GraphQLTransient(r.body) = "timeout"

\* Mutant: only Retry-After is held to the cap, the epoch of the reset is not.
IsTooLongRetryAfter(r, gql) ==
    /\ IsLimit(r, gql)
    /\ r.retryAfter \notin {None, Garbled}
    /\ IndicatedWait(r) > MaxWait

IsTooLong(r, gql) ==
    /\ IsLimit(r, gql)
    /\ IndicatedWait(r) # None
    /\ IndicatedWait(r) > MaxWait

\* The policy's verdict on an answer.
Verdict(r, gql) ==
    CASE IsTooLong(r, gql) -> "tooLong"
      [] ~IsTooLong(r, gql) /\ (IsLimit(r, gql) \/ IsFailing(r, gql)) -> "backoff"
      [] OTHER -> "none"

\* An expired deadline is never resent: net/http reports the request's own 30 s
\* bound as context.DeadlineExceeded too.
RetryableSendErr(e, ctxDone) ==
    ~ctxDone /\ e.failed \notin {"bodyTooLarge", "context", "requestTimeout"}

\* The last attempt called for another.
WantsResend ==
    IF IsResponse(last) THEN Verdict(last, graphql) = "backoff"
                        ELSE RetryableSendErr(last, cancelled)

-----------------------------------------------------------------------------
(* Waiting. *)

Larger(a, b) == IF a >= b THEN a ELSE b

\* Full jitter: any wait below the attempt's window, which the cap bounds.
Backoff(n) == {w \in 0 .. MaxWait - 1 : w < Base * 2^(n - 1)}

\* The waits that may follow answer a: the time a limit named, else backoff.
Waits(a, n) ==
    IF IsResponse(a) /\ IsLimit(a, graphql) /\ IndicatedWait(a) # None
    THEN {Larger(IndicatedWait(a), 0)}
    ELSE Backoff(n)

-----------------------------------------------------------------------------

Init ==
    /\ graphql \in BOOLEAN
    /\ pc = "send" /\ attempt = 1 /\ outcome = "pending"
    /\ cancelled = FALSE /\ doomed = FALSE
    /\ last = Nothing /\ wait = 0 /\ slept = 0

Return(o) == /\ pc' = "done"
             /\ outcome' = o
             /\ UNCHANGED <<graphql, attempt, cancelled, doomed, last, wait, slept>>

\* The caller's context ends at any moment.
Cancel == /\ ~cancelled /\ pc # "done"
          /\ cancelled' = TRUE
          /\ UNCHANGED <<graphql, pc, attempt, doomed, last, wait, slept, outcome>>

Send == /\ pc = "send"
        /\ pc' = "inflight"
        /\ doomed' = cancelled
        /\ UNCHANGED <<graphql, attempt, cancelled, last, wait, slept, outcome>>

\* A request sent under a finished context always fails with it; one the
\* context overtakes may fail with it or complete first.
Arrive ==
    /\ pc = "inflight"
    /\ last' \in Responses \cup SendErrors
    /\ IsResponse(last') /\ ~graphql => last'.body = {}
    /\ last' = [failed |-> "context"] => cancelled
    /\ doomed => last' = [failed |-> "context"]
    /\ pc' = "judge"
    /\ UNCHANGED <<graphql, attempt, cancelled, doomed, wait, slept, outcome>>

\* A send error that another attempt would not help.
ReturnSendErr == /\ pc = "judge"
                 /\ ~IsResponse(last)
                 /\ ~RetryableSendErr(last, cancelled)
                 /\ Return("sendError")

\* Whatever the status, the answer is the caller's to read.
ReturnAnswer == /\ pc = "judge"
                /\ IsResponse(last)
                /\ Verdict(last, graphql) = "none"
                /\ Return("answer")

ReturnTooLong == /\ pc = "judge"
                 /\ IsResponse(last)
                 /\ Verdict(last, graphql) = "tooLong"
                 /\ Return("tooLong")

GiveUp == /\ pc = "judge"
          /\ WantsResend
          /\ attempt >= MaxAttempts
          /\ Return("exhausted")

FallAsleep == /\ pc = "judge"
              /\ WantsResend
              /\ attempt < MaxAttempts
              /\ wait' \in Waits(last, attempt)
              /\ pc' = "asleep"
              /\ UNCHANGED <<graphql, attempt, cancelled, doomed, last, slept, outcome>>

\* The timer fires, and the next turn begins with nothing in hand.  A wait of zero or less asks the context instead; with both
\* ready, select may still take the timer.
Wake == /\ pc = "asleep"
        /\ cancelled => wait > 0
        /\ pc' = "send"
        /\ attempt' = attempt + 1
        /\ slept' = slept + wait
        /\ last' = Nothing /\ wait' = 0
        /\ UNCHANGED <<graphql, cancelled, doomed, outcome>>

\* Mutant: a zero wait does not look at the context.
WakeCancelledLate == /\ pc = "asleep"
                     /\ cancelled /\ wait > 0
                     /\ Return("cancelled")

\* Mutant: an interrupted wait reported though nobody cancelled.
WakeCancelledAlways == /\ pc = "asleep"
                       /\ Return("cancelled")

\* The context ends before the timer.
WakeCancelled == /\ pc = "asleep"
                 /\ cancelled
                 /\ Return("cancelled")

Step == \/ Send \/ Arrive
        \/ ReturnSendErr \/ ReturnAnswer \/ ReturnTooLong \/ GiveUp
        \/ FallAsleep \/ Wake \/ WakeCancelled

Next == Cancel \/ Step

\* net/http bounds every attempt, a timer always fires, and the loop runs on.
Fairness == WF_vars(Step)

Spec == Init /\ [][Next]_vars
FairSpec == Spec /\ Fairness

-----------------------------------------------------------------------------
(* Properties. *)

\* Type correctness of the loop's state.
TypeOK ==
    /\ graphql \in BOOLEAN /\ cancelled \in BOOLEAN /\ doomed \in BOOLEAN
    /\ pc \in {"send", "inflight", "judge", "asleep", "done"}
    /\ attempt \in 1 .. MaxAttempts
    /\ last \in Responses \cup SendErrors \cup {Nothing}
    /\ wait \in 0 .. MaxWait
    /\ slept \in Nat
    /\ outcome \in {"pending", "answer", "sendError", "tooLong", "exhausted", "cancelled"}

\* The time one request may spend waiting is bounded: MaxAttempts - 1 waits of
\* at most MaxWait, so a nightly run cannot be parked by one endpoint.
WaitingBounded == slept <= (MaxAttempts - 1) * MaxWait

\* An answer handed to the caller is never one of GitHub's ways to say "later":
\* no 5xx, no limit that names itself in its headers, no all-transient body.
AnswerIsFinal ==
    outcome = "answer" =>
        /\ last.status \notin {500, 502, 503, 504}
        /\ last.status \in {403, 429} => last.retryAfter = None /\ ~last.exhausted
        /\ graphql /\ last.status = 200 => last.body = {} \/ "other" \in last.body

\* A request is sent again only after something a second send may cure; above
\* all never after a bare 403, a missing scope no resend will grant.
ResentOnlyWhenCurable ==
    [][attempt' # attempt =>
          \/ last = [failed |-> "transport"]
          \/ /\ IsResponse(last)
             /\ \/ last.status \in {500, 502, 503, 504}
                \/ last.status \in {403, 429} /\ (last.retryAfter # None \/ last.exhausted)
                \/ last.status = 200 /\ last.body # {} /\ "other" \notin last.body]_vars

\* An answer that is a limit, whichever way GitHub says so.
SaysLimit(r) ==
    \/ r.status \in {403, 429} /\ (r.retryAfter # None \/ r.exhausted)
    \/ graphql /\ r.status = 200 /\ "rate_limited" \in r.body /\ "other" \notin r.body

\* The time an answer names, if it does, in ticks from now: by a number of
\* seconds, a date, or the reset beside a Retry-After that is neither.  Left out
\* are a number of seconds no Duration holds and an epoch past the horizon.
TimesNamed(r) ==
    {n * Second : n \in {m \in Seconds : r.retryAfter = [seconds |-> m] /\ m * Second <= MaxDuration}}
    \cup {t \in Instants : r.retryAfter = [date |-> t]}
    \cup {t \in Instants : r.retryAfter \in {None, Garbled} /\ r.reset = t /\ t <= Horizon}

\* A limit that named a time in any of its headers, a REST or a GraphQL one, is
\* not asked again before it, nor waited for beyond the cap (rateLimitWait,
\* indicatedWait, waitFor).  A time out of int64's range is the exception: it is
\* read as another, and may be asked again at once.
LimitHonoured ==
    [][attempt' # attempt /\ IsResponse(last) /\ SaysLimit(last)
          => \A t \in TimesNamed(last) : slept' - slept >= t /\ t <= MaxWait]_vars

\* As the comment on retryableSendErr has it: short of the caller giving up and
\* of an oversized body, a failed send gets the rest of its budget.
EveryOtherSendErrorResent ==
    [][(pc = "judge" /\ pc' = "done" /\ ~cancelled
          /\ last \in [failed : {"transport", "requestTimeout"}]) => attempt = MaxAttempts]_vars

\* Every request ends: under a server that hangs, fails or limits for ever.
Ends == <>(pc = "done")

-----------------------------------------------------------------------------
(* Retry implements Request. *)

Result == CASE pc # "done" -> "pending"
            [] outcome = "answer" -> "answer"
            [] outcome = "cancelled" \/ (outcome = "sendError" /\ last = [failed |-> "context"]) -> "aborted"
            [] OTHER -> "error"

Abstract == INSTANCE Request WITH result <- Result

\* The loop keeps the promise of one request: it ends once, and it reports an
\* abort only when its caller was cancelled.
ImplementsRequest == Abstract!Spec
=============================================================================
