------------------------------ MODULE Collect ------------------------------
(* The fan-out of internal/github.Client.Collect: an errgroup with a limit    *)
(* runs collectOne for every repository, and the collectors share one         *)
(* presetCache through the Renovate resolver.  One request of a collector is  *)
(* the Request contract that Retry implements: sent, then an answer, an error *)
(* or, once the run's context is done, an abort.                              *)
EXTENDS Integers, Sequences, FiniteSets, SequencesExt

CONSTANTS
    Names,     \* the repositories to audit, in the order they are started
    Limit,     \* fetchLimit: collectors running at once
    Blank,     \* repositories with no commit
    Presets,   \* cache keys: a preset file (repository, path and ref)
    Missing,   \* presets GitHub answers 404 for
    Extends,   \* repository or preset -> the in-account presets it extends, in order
    Fallback,  \* preset -> the renovate.json beside a default.json, else None
    Broken,    \* configs and presets whose text cannot be used
    MaxDepth,  \* maxDepth of the resolver
    Pushed,    \* bound: the presets somebody pushes to during the run
    MaxPush,   \* bound: pushes to each of them
    None

Repos == Range(Names)

ASSUME CollectAssumption ==
    /\ Names \in Seq(Repos)
    /\ \A i, j \in DOMAIN Names : Names[i] = Names[j] => i = j
    /\ Repos \cap Presets = {}
    /\ Limit \in Nat \ {0}
    /\ MaxDepth \in Nat /\ MaxPush \in Nat
    /\ Blank \subseteq Repos /\ Missing \subseteq Presets
    /\ Extends \in [Repos \cup Presets -> Seq(Presets)]
    /\ Fallback \in [Presets -> Presets \cup {None}]
    /\ None \notin Presets \cup {"error", "aborted"}

VARIABLES
    main,       \* Collect itself: "launch", "done"
    signalled,  \* the caller's context is done: a signal
    ctx,        \* "live" or "done": the group's context, every collector's
    groupErr,   \* the errgroup's first error: None, "error" or "aborted"
    pc,         \* repository -> "idle", a phase of collectOne, "ok" or "failed"
    sent,       \* repository -> its request in flight: "no", "live", "doomed"
    todo,       \* repository -> extends entries left to resolve, innermost first
    entry,      \* repository -> the cache key it is reading, or None
    seen,       \* repository -> the <<preset, version>> texts its facts rest on
    renovate,   \* repository -> "unread", "resolved" or "unresolved"
    cache,      \* preset -> its presetEntry
    fetches,    \* preset -> requests sent for it (history)
    version,    \* preset -> how often it was pushed to: GitHub's copy
    result      \* what Collect returned: "pending", "repos", "error", "aborted"

vars == <<main, signalled, ctx, groupErr, pc, sent, todo, entry, seen, renovate,
          cache, fetches, version, result>>

collector == <<pc, sent, todo, entry, seen, renovate>>

-----------------------------------------------------------------------------
(* collectOne's reads, in the order it makes them.  Each phase stands for one *)
(* or more requests; the ones in Optional send none when the tree names       *)
(* nothing for them to read.                                                  *)

Following ==
    [repository |-> "identities", identities |-> "presets", presets |-> "rest",
     rest |-> "ci", ci |-> "storage", storage |-> "tree", tree |-> "claude",
     claude |-> "files", files |-> "getflake", getflake |-> "gopaths",
     gopaths |-> "devshell", devshell |-> "ok"]

Phases == DOMAIN Following

Optional == {"identities", "claude", "getflake", "gopaths", "devshell"}

\* The phase after p: a repository with no commit has no CI to ask for, and
\* nothing past it.
After(r, p) == IF p = "rest" /\ r \in Blank THEN "ok" ELSE Following[p]

Running(r) == pc[r] \in Phases

InFlight == {r \in Repos : Running(r)}

\* An in-account extends entry waiting to be resolved, under the presets in stack.
Frame == [key : Presets, stack : Seq(Presets)]

Frames(keys, stack) == [i \in DOMAIN keys |-> [key |-> keys[i], stack |-> stack]]

\* presetEntry: the fetch not begun, running in a collector's Once, or over.
Outcomes == {"text", "notFound", "error", "aborted"}
Entries == [state : {"absent", "made"}] \cup [state : {"running"}, by : Repos]
             \cup [state : {"over"}, outcome : Outcomes, version : 0 .. MaxPush]

-----------------------------------------------------------------------------

Init ==
    /\ main = "launch" /\ signalled = FALSE /\ ctx = "live" /\ groupErr = None
    /\ pc = [r \in Repos |-> "idle"]
    /\ sent = [r \in Repos |-> "no"]
    /\ todo = [r \in Repos |-> <<>>]
    /\ entry = [r \in Repos |-> None]
    /\ seen = [r \in Repos |-> {}]
    /\ renovate = [r \in Repos |-> "unread"]
    /\ cache = [k \in Presets |-> [state |-> "absent"]]
    /\ fetches = [k \in Presets |-> 0]
    /\ version = [k \in Presets |-> 0]
    /\ result = "pending"

\* SIGINT or SIGTERM.
Signal == /\ ~signalled /\ main # "done"
          /\ signalled' = TRUE /\ ctx' = "done"
          /\ UNCHANGED <<main, groupErr, collector, cache, fetches, version, result>>

\* Somebody pushes to a preset's repository while the run reads.
Push(k) == /\ k \in Pushed /\ version[k] < MaxPush
           /\ version' = [version EXCEPT ![k] = @ + 1]
           /\ UNCHANGED <<main, signalled, ctx, groupErr, collector, cache, fetches, result>>

\* g.Go starts the next collector, blocking while Limit of them run; after a
\* failure it starts the rest all the same.
Launch(r) ==
    /\ main = "launch"
    /\ \E i \in DOMAIN Names : /\ Names[i] = r /\ pc[r] = "idle"
                            /\ \A j \in 1 .. i - 1 : pc[Names[j]] # "idle"
    /\ Cardinality(InFlight) < Limit
    /\ pc' = [pc EXCEPT ![r] = "repository"]
    /\ UNCHANGED <<main, signalled, ctx, groupErr, sent, todo, entry, seen, renovate,
                   cache, fetches, version, result>>

\* Mutant: the group's error is not looked at.
WaitNoError ==
    /\ main = "launch"
    /\ \A r \in Repos : pc[r] \in {"ok", "failed"}
    /\ main' = "done" /\ ctx' = "done"
    /\ result' = "repos"
    /\ UNCHANGED <<signalled, groupErr, collector, cache, fetches, version>>

\* Mutant: a failed collector never gives its place back.
WaitForSuccess ==
    /\ main = "launch"
    /\ \A r \in Repos : pc[r] = "ok"
    /\ main' = "done" /\ ctx' = "done"
    /\ result' = "repos"
    /\ UNCHANGED <<signalled, groupErr, collector, cache, fetches, version>>

\* g.Wait returns the first error, or the caller sorts and returns every repository.
Wait ==
    /\ main = "launch"
    /\ \A r \in Repos : pc[r] \in {"ok", "failed"}
    /\ main' = "done" /\ ctx' = "done"
    /\ result' = IF groupErr = None THEN "repos" ELSE groupErr
    /\ UNCHANGED <<signalled, groupErr, collector, cache, fetches, version>>

\* Mutant: the last error is kept, not the first.
FailLast(r, e) ==
    /\ pc' = [pc EXCEPT ![r] = "failed"]
    /\ groupErr' = e
    /\ ctx' = "done"

\* A collector returns an error: the group keeps the first and cancels the rest.
Fail(r, e) ==
    /\ pc' = [pc EXCEPT ![r] = "failed"]
    /\ groupErr' = IF groupErr = None THEN e ELSE groupErr
    /\ ctx' = "done"

\* A collector moves to its next phase; the presets begin from its own config.
Advance(r) ==
    /\ pc' = [pc EXCEPT ![r] = After(r, @)]
    /\ todo' = [todo EXCEPT ![r] = IF After(r, pc[r]) = "presets"
                                      /\ r \notin Broken
                                   THEN Frames(Extends[r], <<>>) ELSE <<>>]

\* A request leaves; under a finished context it cannot but fail.
Send(r) ==
    /\ Running(r) /\ pc[r] # "presets" /\ sent[r] = "no"
    /\ sent' = [sent EXCEPT ![r] = IF ctx = "live" THEN "live" ELSE "doomed"]
    /\ UNCHANGED <<main, signalled, ctx, groupErr, pc, todo, entry, seen, renovate,
                   cache, fetches, version, result>>

Answered(r) ==
    /\ Running(r) /\ pc[r] # "presets" /\ sent[r] = "live"
    /\ sent' = [sent EXCEPT ![r] = "no"]
    /\ Advance(r)
    /\ UNCHANGED <<main, signalled, ctx, groupErr, entry, seen, renovate,
                   cache, fetches, version, result>>

\* A phase with nothing to read makes no request, and so never meets the context.
Skip(r) ==
    /\ pc[r] \in Optional /\ sent[r] = "no"
    /\ Advance(r)
    /\ UNCHANGED <<main, signalled, ctx, groupErr, sent, entry, seen, renovate,
                   cache, fetches, version, result>>

\* The request ends in an error of its own, or in the context's.
RequestFails(r) ==
    /\ Running(r) /\ pc[r] # "presets" /\ sent[r] # "no"
    /\ \/ sent[r] = "live" /\ Fail(r, "error")
       \/ ctx = "done" /\ Fail(r, "aborted")
    /\ sent' = [sent EXCEPT ![r] = "no"]
    /\ UNCHANGED <<main, signalled, todo, entry, seen, renovate,
                   cache, fetches, version, result>>

-----------------------------------------------------------------------------
(* renovate.Resolve over presetCache.fetch: a depth-first walk of the extends *)
(* lists.                                                                     *)

Resolving(r) == pc[r] = "presets" /\ todo[r] # <<>>

Top(r) == Head(todo[r])

\* The resolution is over: the facts it decided, or why it could not.
Conclude(r, fact) ==
    /\ renovate' = [renovate EXCEPT ![r] = fact]
    /\ entry' = [entry EXCEPT ![r] = None]
    /\ pc' = [pc EXCEPT ![r] = After(r, "presets")]
    /\ todo' = [todo EXCEPT ![r] = <<>>]

\* Mutant: only a cycle stops the walk.
RefusedCycle(r) == \E i \in DOMAIN Top(r).stack : Top(r).stack[i] = Top(r).key

\* A preset that extends itself, or a chain too deep, is a fact, not an error.
Refused(r) == \/ \E i \in DOMAIN Top(r).stack : Top(r).stack[i] = Top(r).key
              \/ Len(Top(r).stack) >= MaxDepth

Resolved(r) ==
    /\ pc[r] = "presets" /\ todo[r] = <<>>
    /\ Conclude(r, IF r \in Broken THEN "unresolved" ELSE "resolved")
    /\ UNCHANGED <<main, signalled, ctx, groupErr, sent, seen, cache, fetches, version, result>>

Refuse(r) ==
    /\ Resolving(r) /\ entry[r] = None
    /\ Refused(r)
    /\ Conclude(r, "unresolved")
    /\ UNCHANGED <<main, signalled, ctx, groupErr, sent, seen, cache, fetches, version, result>>

\* presetCache.fetch, under the mutex: find the key's entry or make it.
Made(k) == [cache EXCEPT ![k] = IF @.state = "absent" THEN [state |-> "made"] ELSE @]

Lookup(r) ==
    /\ Resolving(r) /\ entry[r] = None /\ ~Refused(r)
    /\ entry' = [entry EXCEPT ![r] = Top(r).key]
    /\ cache' = Made(Top(r).key)
    /\ UNCHANGED <<main, signalled, ctx, groupErr, pc, sent, todo, seen, renovate,
                   fetches, version, result>>

\* Mutant: a lookup and a fetch with no Once between the callers.
MayFetchMeanwhile(k) == cache[k].state \in {"made", "running"}

\* Mutant: the cache is not trusted.
MayFetchAgain(k) == cache[k].state # "absent"

\* The first caller's Once runs the fetch; every other one waits on it.
MayFetch(k) == cache[k].state = "made"

Fetch(r) ==
    /\ Resolving(r) /\ entry[r] # None /\ MayFetch(entry[r])
    /\ cache' = [cache EXCEPT ![entry[r]] = [state |-> "running", by |-> r]]
    /\ sent' = [sent EXCEPT ![r] = IF ctx = "live" THEN "live" ELSE "doomed"]
    /\ fetches' = [fetches EXCEPT ![entry[r]] = @ + 1]
    /\ UNCHANGED <<main, signalled, ctx, groupErr, pc, todo, entry, seen, renovate,
                   version, result>>

\* The fetch ends: the entry keeps its outcome, an error as well as a text.
Fetched(r) ==
    LET k == entry[r] IN
    /\ pc[r] = "presets" /\ k # None /\ sent[r] # "no"
    /\ \E o \in {"text", "notFound", "error", "aborted"} :
          /\ o = "text" => k \notin Missing
          /\ o = "notFound" => k \in Missing
          /\ o = "aborted" => ctx = "done"
          /\ sent[r] = "doomed" => o = "aborted"
          /\ cache' = [cache EXCEPT ![k] =
                          [state |-> "over", outcome |-> o, version |-> version[k]]]
    /\ sent' = [sent EXCEPT ![r] = "no"]
    /\ UNCHANGED <<main, signalled, ctx, groupErr, pc, todo, entry, seen, renovate,
                   fetches, version, result>>

Over(r) == /\ Resolving(r) /\ entry[r] # None /\ sent[r] = "no"
           /\ cache[entry[r]].state = "over"

\* A text: its own extends entries come before what is left of this list.
ReadText(r) ==
    /\ Over(r) /\ cache[entry[r]].outcome = "text" /\ entry[r] \notin Broken
    /\ todo' = [todo EXCEPT ![r] =
                   Frames(Extends[entry[r]], Append(Top(r).stack, Top(r).key)) \o Tail(@)]
    /\ seen' = [seen EXCEPT ![r] = @ \cup {<<entry[r], cache[entry[r]].version>>}]
    /\ entry' = [entry EXCEPT ![r] = None]
    /\ UNCHANGED <<main, signalled, ctx, groupErr, pc, sent, renovate,
                   cache, fetches, version, result>>

\* A missing default.json falls back once to the renovate.json beside it.
ReadFallback(r) ==
    /\ Over(r) /\ cache[entry[r]].outcome = "notFound"
    /\ entry[r] = Top(r).key /\ Fallback[Top(r).key] # None
    /\ entry' = [entry EXCEPT ![r] = Fallback[Top(r).key]]
    /\ cache' = Made(Fallback[Top(r).key])
    /\ UNCHANGED <<main, signalled, ctx, groupErr, pc, sent, todo, seen, renovate,
                   fetches, version, result>>

\* A text that is no preset: the reason becomes the fact.
ReadBroken(r) ==
    /\ Over(r) /\ cache[entry[r]].outcome = "text" /\ entry[r] \in Broken
    /\ Conclude(r, "unresolved")
    /\ UNCHANGED <<main, signalled, ctx, groupErr, sent, seen, cache, fetches, version, result>>

\* No such file, nor one beside it.
ReadMissing(r) ==
    /\ Over(r) /\ cache[entry[r]].outcome = "notFound"
    /\ entry[r] # Top(r).key \/ Fallback[Top(r).key] = None
    /\ Conclude(r, "unresolved")
    /\ UNCHANGED <<main, signalled, ctx, groupErr, sent, seen, cache, fetches, version, result>>

ReadError(r) ==
    /\ Over(r) /\ cache[entry[r]].outcome \in {"error", "aborted"}
    /\ Fail(r, cache[entry[r]].outcome)
    /\ UNCHANGED <<main, signalled, sent, todo, entry, seen, renovate,
                   cache, fetches, version, result>>

-----------------------------------------------------------------------------

Collector(r) ==
    \/ Launch(r) \/ Send(r) \/ Answered(r) \/ Skip(r) \/ RequestFails(r)
    \/ Resolved(r) \/ Refuse(r) \/ Lookup(r) \/ Fetch(r) \/ Fetched(r)
    \/ ReadText(r) \/ ReadFallback(r) \/ ReadBroken(r) \/ ReadMissing(r) \/ ReadError(r)

Next == Signal \/ Wait \/ (\E k \in Presets : Push(k)) \/ (\E r \in Repos : Collector(r))

\* The Go scheduler runs every goroutine, and every request ends (Retry's Ends).
Fairness == WF_vars(Wait) /\ \A r \in Repos : WF_vars(Collector(r))

Spec == Init /\ [][Next]_vars
FairSpec == Spec /\ Fairness

-----------------------------------------------------------------------------
(* Properties. *)

TypeOK ==
    /\ main \in {"launch", "done"} /\ signalled \in BOOLEAN /\ ctx \in {"live", "done"}
    /\ groupErr \in {None, "error", "aborted"}
    /\ pc \in [Repos -> Phases \cup {"idle", "ok", "failed"}]
    /\ sent \in [Repos -> {"no", "live", "doomed"}]
    /\ todo \in [Repos -> Seq(Frame)]
    /\ entry \in [Repos -> Presets \cup {None}]
    /\ seen \in [Repos -> SUBSET (Presets \X (0 .. MaxPush))]
    /\ renovate \in [Repos -> {"unread", "resolved", "unresolved"}]
    /\ cache \in [Presets -> Entries]
    /\ fetches \in [Presets -> Nat]
    /\ version \in [Presets -> 0 .. MaxPush]
    /\ result \in {"pending", "repos", "error", "aborted"}

\* All or nothing: repositories are returned only when every one of them was
\* collected to its end, its Renovate facts decided; any failure returns none.
AllOrNothing ==
    result = "repos" => \A r \in Repos : pc[r] = "ok" /\ renovate[r] # "unread"

\* Each preset file costs one request per run, however many repositories reach
\* it and however their lookups interleave.
FetchedOnce == \A k \in Presets : fetches[k] <= 1

\* All facts of a run rest on one version of each preset, whatever is pushed
\* while it reads.
SameVersion ==
    \A r, s \in Repos : \A x \in seen[r], y \in seen[s] : x[1] = y[1] => x = y

\* A sibling's cancellation never hides the failure that caused it: an abort is
\* reported only after a signal.
CauseReported == groupErr = "aborted" => signalled

\* The file a preset's text comes from, None when there is none.
File(k) == CASE k \notin Missing -> k
             [] k \in Missing /\ Fallback[k] # None /\ Fallback[k] \notin Missing -> Fallback[k]
             [] OTHER -> None

\* A chain of presets, each extended by the one before it and the first by r.
IsChain(r, c) ==
    /\ c[1] \in Range(Extends[r])
    /\ \A i \in 1 .. Len(c) - 1 : File(c[i]) # None /\ c[i + 1] \in Range(Extends[File(c[i])])

\* Some chain from r ends in a cycle, too deep, or in a file that is no preset.
Undecidable(r) ==
    \/ r \in Broken
    \/ \E n \in 1 .. MaxDepth + 1 : \E c \in [1 .. n -> Presets] :
          /\ IsChain(r, c)
          /\ \/ n > MaxDepth
             \/ File(c[n]) = None \/ File(c[n]) \in Broken
             \/ \E i \in 1 .. n - 1 : c[i] = c[n]

\* What a repository's presets come to depends on the presets alone: not on
\* who fetched them first, on the cache, or on what else the run reads.
VerdictRight ==
    result = "repos" => \A r \in Repos : renovate[r] = "unresolved" <=> Undecidable(r)

\* Collect returns: no collector waits for ever on another's Once, though the
\* presets of different repositories extend each other in cycles.
Returns == <>(main = "done")

=============================================================================
