--------------------------- MODULE CollectProofs ---------------------------
(* The safety properties of Collect, for any number of repositories, any      *)
(* limit, any presets and any graph of extends lists.                         *)
EXTENDS Collect, SequenceTheorems, TLAPS

\* The Once protocol of presetCache: one request per entry, and a collector in
\* a fetch owns the entry it fetches for.
CountOK == \A k \in Presets :
              fetches[k] = IF cache[k].state \in {"absent", "made"} THEN 0 ELSE 1

OwnerOK == \A r \in Repos :
              pc[r] = "presets" /\ sent[r] # "no" =>
                 /\ entry[r] \in Presets
                 /\ cache[entry[r]] = [state |-> "running", by |-> r]

\* The facts rest on what the cache holds, and that never changes once it is there.
SeenOK == \A r \in Repos : \A x \in seen[r] :
             /\ x[1] \in Presets
             /\ cache[x[1]].state = "over"
             /\ cache[x[1]].version = x[2]

CacheInv == CountOK /\ OwnerOK /\ SeenOK

\* Why the group's context can be done, and what follows from it.
CtxOK == ctx = "done" => signalled \/ groupErr # None \/ main = "done"

SentOK == \A r \in Repos : /\ sent[r] # "no" => pc[r] \in Phases
                           /\ sent[r] = "doomed" => ctx = "done"

OutcomeOK == \A k \in Presets :
                cache[k].state = "over" /\ cache[k].outcome = "aborted" => ctx = "done"

\* The phases behind the presets: the Renovate facts are decided there.
Late == {"rest", "ci", "storage", "tree", "claude", "files", "getflake", "gopaths",
         "devshell", "ok"}

EndOK == \A r \in Repos :
            /\ pc[r] = "failed" => groupErr # None
            /\ pc[r] \in Late => renovate[r] # "unread"

MainOK == /\ main = "done" => \A r \in Repos : pc[r] \in {"ok", "failed"}
          /\ main # "done" => result = "pending"
          /\ result = "repos" => groupErr = None

GroupInv == CtxOK /\ SentOK /\ OutcomeOK /\ EndOK /\ MainOK /\ CauseReported

-----------------------------------------------------------------------------

\* The order of the phases, as one fact.
LEMMA PhaseFacts ==
    /\ Phases = {"repository", "identities", "presets", "rest", "ci", "storage", "tree",
                 "claude", "files", "getflake", "gopaths", "devshell"}
    /\ \A r, p : p \in Phases => After(r, p) \in Phases \cup {"ok"}
    /\ \A r : After(r, "presets") = "rest"
    /\ \A r, p : p \in Phases \ {"repository", "identities"} => After(r, p) \in Late
    /\ \A r : After(r, "repository") = "identities" /\ After(r, "identities") = "presets"
  BY DEF Phases, Following, After, Late

\* The frames of an extends list are entries to resolve.
LEMMA FramesType ==
    ASSUME NEW keys \in Seq(Presets), NEW stack \in Seq(Presets)
    PROVE  Frames(keys, stack) \in Seq(Frame)
<1>1. /\ Len(keys) \in Nat
      /\ DOMAIN keys = 1 .. Len(keys)
      /\ \A i \in 1 .. Len(keys) : keys[i] \in Presets
  BY LenProperties, ElementOfSeq
<1>2. \A i \in DOMAIN keys : [key |-> keys[i], stack |-> stack] \in Frame
  BY <1>1 DEF Frame
<1>3. Frames(keys, stack) \in [1 .. Len(keys) -> Frame]
  BY <1>1, <1>2 DEF Frames
<1>. QED  BY <1>1, <1>3, SeqDef

\* Every repository and preset has an extends list.
LEMMA ExtendsType ==
    ASSUME NEW x \in Repos \cup Presets
    PROVE  Extends[x] \in Seq(Presets)
  BY CollectAssumption

\* The head of the work list is an entry, the tail again a work list.
LEMMA TopType ==
    ASSUME TypeOK, NEW r \in Repos, todo[r] # <<>>
    PROVE  /\ Top(r).key \in Presets
           /\ Top(r).stack \in Seq(Presets)
           /\ Tail(todo[r]) \in Seq(Frame)
<1>1. todo[r] \in Seq(Frame)
  BY DEF TypeOK
<1>2. Head(todo[r]) \in Frame /\ Tail(todo[r]) \in Seq(Frame)
  BY <1>1, HeadTailProperties
<1>. QED  BY <1>2 DEF Top, Frame

\* The entry a lookup leaves behind is one.
LEMMA MadeType ==
    ASSUME cache \in [Presets -> Entries], NEW k \in Presets
    PROVE  Made(k) \in [Presets -> Entries]
<1>1. [state |-> "made"] \in Entries
  BY DEF Entries
<1>. QED  BY <1>1 DEF Made

-----------------------------------------------------------------------------

\* A repository's move to the next phase keeps the types.
LEMMA AdvanceType ==
    ASSUME TypeOK, NEW r \in Repos, pc[r] \in Phases, Advance(r)
    PROVE  /\ pc' \in [Repos -> Phases \cup {"idle", "ok", "failed"}]
           /\ todo' \in [Repos -> Seq(Frame)]
<1>1. After(r, pc[r]) \in Phases \cup {"ok"}
  BY PhaseFacts
<1>2. Extends[r] \in Seq(Presets) /\ <<>> \in Seq(Presets)
  BY ExtendsType
<1>3. Frames(Extends[r], <<>>) \in Seq(Frame)
  BY <1>2, FramesType, Zenon
<1>4. <<>> \in Seq(Frame)
  BY EmptySeq, Zenon
<1>. QED  BY <1>1, <1>3, <1>4 DEF Advance, TypeOK

\* So does the end of a resolution.
LEMMA ConcludeType ==
    ASSUME TypeOK, NEW r \in Repos, NEW fact \in {"resolved", "unresolved"},
           Conclude(r, fact)
    PROVE  /\ pc' \in [Repos -> Phases \cup {"idle", "ok", "failed"}]
           /\ todo' \in [Repos -> Seq(Frame)]
           /\ entry' \in [Repos -> Presets \cup {None}]
           /\ renovate' \in [Repos -> {"unread", "resolved", "unresolved"}]
<1>1. After(r, "presets") \in Phases
  BY PhaseFacts
<1>2. <<>> \in Seq(Frame)
  BY EmptySeq
<1>. QED  BY <1>1, <1>2 DEF Conclude, TypeOK

\* And a failure.
LEMMA FailType ==
    ASSUME TypeOK, NEW r \in Repos, NEW e \in {"error", "aborted"}, Fail(r, e)
    PROVE  /\ pc' \in [Repos -> Phases \cup {"idle", "ok", "failed"}]
           /\ groupErr' \in {None, "error", "aborted"}
           /\ ctx' \in {"live", "done"}
  BY DEF Fail, TypeOK

\* Type correctness (TypeOK) of Collect, its collectors and the preset cache.
THEOREM TypeCorrect == Spec => []TypeOK
<1>1. Init => TypeOK
  <2>. SUFFICES ASSUME Init PROVE TypeOK
    OBVIOUS
  <2>1. todo \in [Repos -> Seq(Frame)]
    BY EmptySeq DEF Init
  <2>2. cache \in [Presets -> Entries]
    BY DEF Init, Entries
  <2>3. fetches \in [Presets -> Nat] /\ version \in [Presets -> 0 .. MaxPush]
    BY CollectAssumption DEF Init
  <2>4. seen \in [Repos -> SUBSET (Presets \X (0 .. MaxPush))]
    BY DEF Init
  <2>. QED  BY <2>1, <2>2, <2>3, <2>4 DEF Init, TypeOK
<1>2. TypeOK /\ [Next]_vars => TypeOK'
  <2>. SUFFICES ASSUME TypeOK, [Next]_vars PROVE TypeOK'
    OBVIOUS
  <2>1. CASE Signal
    BY <2>1 DEF Signal, TypeOK, collector
  <2>2. CASE Wait
    BY <2>2 DEF Wait, TypeOK, collector
  <2>3. ASSUME NEW k \in Presets, Push(k) PROVE TypeOK'
    <3>1. version' \in [Presets -> 0 .. MaxPush]
      BY <2>3, CollectAssumption DEF Push, TypeOK
    <3>. QED  BY <2>3, <3>1 DEF Push, TypeOK, collector
  <2>4. ASSUME NEW r \in Repos, Collector(r) PROVE TypeOK'
    <3>1. CASE Launch(r)
      <4>1. "repository" \in Phases
        BY PhaseFacts
      <4>. QED  BY <3>1, <4>1 DEF Launch, TypeOK
    <3>2. CASE Send(r)
      BY <3>2 DEF Send, TypeOK
    <3>3. CASE Answered(r)
      <4>1. pc[r] \in Phases
        BY <3>3 DEF Answered, Running
      <4>. QED  BY <3>3, <4>1, AdvanceType DEF Answered, TypeOK
    <3>4. CASE Skip(r)
      <4>1. pc[r] \in Phases
        BY <3>4, PhaseFacts DEF Skip, Optional
      <4>. QED  BY <3>4, <4>1, AdvanceType DEF Skip, TypeOK
    <3>5. CASE RequestFails(r)
      <4>1. PICK e \in {"error", "aborted"} : Fail(r, e)
        BY <3>5 DEF RequestFails
      <4>2. sent' \in [Repos -> {"no", "live", "doomed"}]
        BY <3>5 DEF RequestFails, TypeOK
      <4>. QED  BY <3>5, <4>1, <4>2, FailType DEF RequestFails, TypeOK
    <3>6. CASE Resolved(r)
      <4>1. PICK fact \in {"resolved", "unresolved"} : Conclude(r, fact)
        BY <3>6 DEF Resolved
      <4>. QED  BY <3>6, <4>1, ConcludeType DEF Resolved, TypeOK
    <3>7. CASE Refuse(r)
      BY <3>7, ConcludeType DEF Refuse, TypeOK
    <3>8. CASE Lookup(r)
      <4>1. Top(r).key \in Presets
        BY <3>8, TopType DEF Lookup, Resolving
      <4>2. cache' \in [Presets -> Entries]
        BY <3>8, <4>1, MadeType DEF Lookup, TypeOK
      <4>. QED  BY <3>8, <4>1, <4>2 DEF Lookup, TypeOK
    <3>9. CASE Fetch(r)
      <4>1. [state |-> "running", by |-> r] \in Entries
        BY DEF Entries
      <4>2. cache' \in [Presets -> Entries]
        BY <3>9, <4>1 DEF Fetch, TypeOK
      <4>3. sent' \in [Repos -> {"no", "live", "doomed"}]
        BY <3>9 DEF Fetch, TypeOK
      <4>4. fetches' \in [Presets -> Nat]
        BY <3>9 DEF Fetch, TypeOK
      <4>. QED  BY <3>9, <4>2, <4>3, <4>4 DEF Fetch, TypeOK
    <3>10. CASE Fetched(r)
      <4>1. entry[r] \in Presets
        BY <3>10 DEF Fetched, TypeOK
      <4>2. \A o \in Outcomes :
              [state |-> "over", outcome |-> o, version |-> version[entry[r]]] \in Entries
        BY <4>1 DEF Entries, TypeOK
      <4>3. PICK o \in Outcomes :
              cache' = [cache EXCEPT ![entry[r]] =
                [state |-> "over", outcome |-> o, version |-> version[entry[r]]]]
        BY <3>10 DEF Fetched, Outcomes
      <4>4. cache' \in [Presets -> Entries]
        BY <4>2, <4>3 DEF TypeOK
      <4>5. sent' \in [Repos -> {"no", "live", "doomed"}]
        BY <3>10 DEF Fetched, TypeOK
      <4>. QED  BY <3>10, <4>4, <4>5 DEF Fetched, TypeOK
    <3>11. CASE ReadText(r)
      <4>1. /\ entry[r] \in Presets /\ todo[r] # <<>>
            /\ cache[entry[r]].state = "over"
        BY <3>11 DEF ReadText, Over, Resolving, TypeOK
      <4>2. /\ Top(r).key \in Presets /\ Top(r).stack \in Seq(Presets)
            /\ Tail(todo[r]) \in Seq(Frame)
        BY <4>1, TopType
      <4>3. Append(Top(r).stack, Top(r).key) \in Seq(Presets)
        BY <4>2, AppendProperties
      <4>4. Frames(Extends[entry[r]], Append(Top(r).stack, Top(r).key)) \in Seq(Frame)
        BY <4>1, <4>3, ExtendsType, FramesType
      <4>5. Frames(Extends[entry[r]], Append(Top(r).stack, Top(r).key)) \o Tail(todo[r])
              \in Seq(Frame)
        BY <4>2, <4>4, ConcatProperties
      <4>6. todo' \in [Repos -> Seq(Frame)]
        BY <3>11, <4>5 DEF ReadText, TypeOK
      <4>7. cache[entry[r]].version \in 0 .. MaxPush
        BY <4>1 DEF TypeOK, Entries
      <4>8. seen' \in [Repos -> SUBSET (Presets \X (0 .. MaxPush))]
        BY <3>11, <4>1, <4>7 DEF ReadText, TypeOK
      <4>. QED  BY <3>11, <4>6, <4>8 DEF ReadText, TypeOK
    <3>12. CASE ReadFallback(r)
      <4>1. Fallback[Top(r).key] \in Presets
        BY <3>12, TopType, CollectAssumption DEF ReadFallback, Over, Resolving
      <4>2. cache' \in [Presets -> Entries]
        BY <3>12, <4>1, MadeType DEF ReadFallback, TypeOK
      <4>. QED  BY <3>12, <4>1, <4>2 DEF ReadFallback, TypeOK
    <3>13. CASE ReadBroken(r) \/ ReadMissing(r)
      BY <3>13, ConcludeType DEF ReadBroken, ReadMissing, TypeOK
    <3>14. CASE ReadError(r)
      <4>1. PICK e \in {"error", "aborted"} : Fail(r, e)
        BY <3>14 DEF ReadError
      <4>. QED  BY <3>14, <4>1, FailType DEF ReadError, TypeOK
    <3>. QED
      BY <2>4, <3>1, <3>2, <3>3, <3>4, <3>5, <3>6, <3>7, <3>8, <3>9, <3>10, <3>11, <3>12,
         <3>13, <3>14
      DEF Collector
  <2>5. CASE UNCHANGED vars
    BY <2>5 DEF vars, collector, TypeOK
  <2>. QED  BY <2>1, <2>2, <2>3, <2>4, <2>5 DEF Next
<1>. QED  BY <1>1, <1>2, PTL DEF Spec

-----------------------------------------------------------------------------

\* Only the four cache steps touch the cache, and only the fetch counts.
LEMMA CacheFrame ==
    ASSUME NEW r \in Repos, Collector(r),
           ~Lookup(r), ~Fetch(r), ~Fetched(r), ~ReadFallback(r)
    PROVE  UNCHANGED <<cache, fetches>>
  BY DEF Collector, Launch, Send, Answered, Skip, RequestFails, Resolved, Refuse, ReadText,
         ReadBroken, ReadMissing, ReadError

\* Making an entry leaves every entry that is in use alone.
LEMMA MadeFacts ==
    ASSUME TypeOK, NEW k \in Presets, cache' = Made(k)
    PROVE  \A j \in Presets :
             /\ cache'[j].state \in {"absent", "made"}
                  <=> cache[j].state \in {"absent", "made"}
             /\ cache[j].state \in {"running", "over"} => cache'[j] = cache[j]
  BY DEF Made, TypeOK, Entries

\* The four states of a presetEntry.
LEMMA EntryStates ==
    ASSUME NEW e \in Entries
    PROVE  e.state \in {"absent", "made", "running", "over"}
  BY DEF Entries

\* A step of the collectors preserves the count of each preset's requests.
LEMMA CountStep ==
    ASSUME TypeOK, CountOK, OwnerOK, NEW r \in Repos, Collector(r)
    PROVE  CountOK'
<1>. USE DEF CountOK
<1>1. CASE Lookup(r)
  <2>1. Top(r).key \in Presets
    BY <1>1, TopType DEF Lookup, Resolving
  <2>. QED  BY <1>1, <2>1, MadeFacts DEF Lookup
<1>2. CASE Fetch(r)
  <2>1. entry[r] \in Presets /\ cache[entry[r]].state = "made"
    BY <1>2 DEF Fetch, MayFetch, TypeOK
  <2>2. fetches[entry[r]] = 0
    BY <2>1
  <2>3. \A j \in Presets : j # entry[r] =>
           cache'[j] = cache[j] /\ fetches'[j] = fetches[j]
    BY <1>2 DEF Fetch, TypeOK
  <2>4. fetches'[entry[r]] = 1 /\ cache'[entry[r]].state = "running"
    BY <1>2, <2>1, <2>2 DEF Fetch, TypeOK
  <2>. QED  BY <2>3, <2>4
<1>3. CASE Fetched(r)
  <2>1. entry[r] \in Presets /\ cache[entry[r]].state = "running"
    <3>1. entry[r] \in Presets /\ cache[entry[r]] = [state |-> "running", by |-> r]
      BY <1>3 DEF Fetched, OwnerOK
    <3>. QED  BY <3>1
  <2>2. \A j \in Presets : j # entry[r] => cache'[j] = cache[j]
    BY <1>3 DEF Fetched, TypeOK
  <2>3. cache'[entry[r]].state = "over" /\ fetches' = fetches
    BY <1>3, <2>1 DEF Fetched, TypeOK
  <2>. QED  BY <2>1, <2>2, <2>3
<1>4. CASE ReadFallback(r)
  <2>1. Fallback[Top(r).key] \in Presets
    BY <1>4, TopType, CollectAssumption DEF ReadFallback, Over, Resolving
  <2>. QED  BY <1>4, <2>1, MadeFacts DEF ReadFallback
<1>5. CASE ~Lookup(r) /\ ~Fetch(r) /\ ~Fetched(r) /\ ~ReadFallback(r)
  BY <1>5, CacheFrame
<1>. QED  BY <1>1, <1>2, <1>3, <1>4, <1>5

\* No step hands a running entry to another collector.
LEMMA OwnerStep ==
    ASSUME TypeOK, OwnerOK, NEW r \in Repos, Collector(r)
    PROVE  OwnerOK'
<1>. SUFFICES ASSUME NEW s \in Repos, pc'[s] = "presets", sent'[s] # "no"
              PROVE  /\ entry'[s] \in Presets
                     /\ cache'[entry'[s]] = [state |-> "running", by |-> s]
  BY DEF OwnerOK
<1>1. CASE Lookup(r)
  <2>1. Top(r).key \in Presets
    BY <1>1, TopType DEF Lookup, Resolving
  <2>2. s # r
    BY <1>1, CollectAssumption DEF Lookup, OwnerOK, Resolving, TypeOK
  <2>3. entry[s] \in Presets /\ cache[entry[s]] = [state |-> "running", by |-> s]
    BY <1>1, <2>2 DEF Lookup, OwnerOK
  <2>4. entry'[s] = entry[s]
    BY <1>1, <2>2 DEF Lookup, TypeOK
  <2>. QED  BY <1>1, <2>1, <2>3, <2>4, MadeFacts DEF Lookup
<1>2. CASE Fetch(r)
  <2>1. entry[r] \in Presets /\ cache[entry[r]].state = "made"
    BY <1>2 DEF Fetch, MayFetch, TypeOK
  <2>2. CASE s = r
    BY <1>2, <2>1, <2>2 DEF Fetch, TypeOK
  <2>3. CASE s # r
    <3>1. entry[s] \in Presets /\ cache[entry[s]] = [state |-> "running", by |-> s]
      BY <1>2, <2>3 DEF Fetch, OwnerOK, TypeOK
    <3>2. entry[s] # entry[r]
      BY <2>1, <3>1
    <3>. QED  BY <1>2, <3>1, <3>2 DEF Fetch, TypeOK
  <2>. QED  BY <2>2, <2>3
<1>3. CASE Fetched(r)
  <2>1. s # r
    BY <1>3 DEF Fetched, TypeOK
  <2>2. entry[s] \in Presets /\ cache[entry[s]] = [state |-> "running", by |-> s]
    BY <1>3, <2>1 DEF Fetched, OwnerOK, TypeOK
  <2>3. entry[r] \in Presets /\ cache[entry[r]] = [state |-> "running", by |-> r]
    BY <1>3 DEF Fetched, OwnerOK
  <2>4. entry[s] # entry[r]
    BY <2>1, <2>2, <2>3
  <2>. QED  BY <1>3, <2>2, <2>4 DEF Fetched, TypeOK
<1>4. CASE ReadFallback(r)
  <2>1. Fallback[Top(r).key] \in Presets
    BY <1>4, TopType, CollectAssumption DEF ReadFallback, Over, Resolving
  <2>2. s # r
    BY <1>4 DEF ReadFallback, Over
  <2>3. entry[s] \in Presets /\ cache[entry[s]] = [state |-> "running", by |-> s]
    BY <1>4, <2>2 DEF ReadFallback, OwnerOK
  <2>4. entry'[s] = entry[s]
    BY <1>4, <2>2 DEF ReadFallback, TypeOK
  <2>. QED  BY <1>4, <2>1, <2>3, <2>4, MadeFacts DEF ReadFallback
<1>5. CASE ~Lookup(r) /\ ~Fetch(r) /\ ~Fetched(r) /\ ~ReadFallback(r)
  <2>1. cache' = cache
    BY <1>5, CacheFrame
  <2>2. pc[s] = "presets" /\ sent[s] # "no" /\ entry'[s] = entry[s]
    <3>1. CASE s # r
      BY <1>5, <3>1
      DEF Collector, Launch, Send, Answered, Skip, RequestFails, Resolved, Refuse, ReadText,
          ReadBroken, ReadMissing, ReadError, Advance, Conclude, Fail, TypeOK
    <3>2. CASE s = r
      <4>1. "presets" # "repository" /\ After(r, "presets") = "rest"
        BY PhaseFacts
      <4>2. ~Launch(r) /\ ~Answered(r) /\ ~RequestFails(r) /\ ~Skip(r) /\ ~ReadError(r)
        BY <3>2
        DEF Launch, Answered, RequestFails, Skip, ReadError, Advance, Fail, Over, TypeOK
      <4>3. ~Resolved(r) /\ ~Refuse(r) /\ ~ReadBroken(r) /\ ~ReadMissing(r)
        BY <3>2, <4>1 DEF Resolved, Refuse, ReadBroken, ReadMissing, Conclude, TypeOK
      <4>4. ~Send(r) /\ ~ReadText(r)
        BY <3>2 DEF Send, ReadText, Over, TypeOK
      <4>. QED  BY <1>5, <4>2, <4>3, <4>4 DEF Collector
    <3>. QED  BY <3>1, <3>2
  <2>. QED  BY <2>1, <2>2 DEF OwnerOK
<1>. QED  BY <1>1, <1>2, <1>3, <1>4, <1>5

\* A text that facts rest on is never fetched again.
LEMMA SeenStep ==
    ASSUME TypeOK, OwnerOK, SeenOK, NEW r \in Repos, Collector(r)
    PROVE  SeenOK'
<1>. SUFFICES ASSUME NEW s \in Repos, NEW x \in seen'[s]
              PROVE  /\ x[1] \in Presets
                     /\ cache'[x[1]].state = "over"
                     /\ cache'[x[1]].version = x[2]
  BY DEF SeenOK
<1>1. CASE ReadText(r)
  <2>1. /\ entry[r] \in Presets /\ cache[entry[r]].state = "over"
        /\ cache' = cache
    BY <1>1 DEF ReadText, Over, TypeOK
  <2>2. CASE x \in seen[s]
    BY <2>1, <2>2 DEF SeenOK
  <2>3. CASE x = <<entry[r], cache[entry[r]].version>>
    BY <2>1, <2>3
  <2>. QED  BY <1>1, <2>2, <2>3 DEF ReadText, TypeOK
<1>2. CASE ~ReadText(r)
  <2>1. seen' = seen
    BY <1>2
    DEF Collector, Launch, Send, Answered, Skip, RequestFails, Resolved, Refuse, Lookup,
        Fetch, Fetched, ReadFallback, ReadBroken, ReadMissing, ReadError
  <2>2. x[1] \in Presets /\ cache[x[1]].state = "over" /\ cache[x[1]].version = x[2]
    BY <2>1 DEF SeenOK
  <2>3. cache'[x[1]] = cache[x[1]]
    <3>1. CASE Lookup(r)
      <4>1. Top(r).key \in Presets
        BY <3>1, TopType DEF Lookup, Resolving
      <4>. QED  BY <3>1, <4>1, <2>2, MadeFacts DEF Lookup
    <3>2. CASE Fetch(r)
      BY <3>2, <2>2 DEF Fetch, MayFetch, TypeOK
    <3>3. CASE Fetched(r)
      <4>1. entry[r] \in Presets /\ cache[entry[r]] = [state |-> "running", by |-> r]
        BY <3>3 DEF Fetched, OwnerOK
      <4>2. x[1] # entry[r]
        BY <4>1, <2>2
      <4>. QED  BY <3>3, <4>2, <2>2 DEF Fetched, TypeOK
    <3>4. CASE ReadFallback(r)
      <4>1. Fallback[Top(r).key] \in Presets
        BY <3>4, TopType, CollectAssumption DEF ReadFallback, Over, Resolving
      <4>. QED  BY <3>4, <4>1, <2>2, MadeFacts DEF ReadFallback
    <3>5. CASE ~Lookup(r) /\ ~Fetch(r) /\ ~Fetched(r) /\ ~ReadFallback(r)
      BY <3>5, CacheFrame
    <3>. QED  BY <3>1, <3>2, <3>3, <3>4, <3>5
  <2>. QED  BY <2>2, <2>3
<1>. QED  BY <1>1, <1>2

\* The Once protocol holds throughout a run.
THEOREM CacheInvariance == Spec => []CacheInv
<1>1. Init => CacheInv
  BY DEF Init, CacheInv, CountOK, OwnerOK, SeenOK
<1>2. TypeOK /\ CacheInv /\ [Next]_vars => CacheInv'
  <2>. SUFFICES ASSUME TypeOK, CacheInv, [Next]_vars PROVE CacheInv'
    OBVIOUS
  <2>1. ASSUME NEW r \in Repos, Collector(r) PROVE CacheInv'
    BY <2>1, CountStep, OwnerStep, SeenStep DEF CacheInv
  <2>2. CASE Signal \/ Wait \/ (\E k \in Presets : Push(k)) \/ UNCHANGED vars
    <3>1. UNCHANGED <<cache, fetches, pc, sent, entry, seen>>
      BY <2>2 DEF Signal, Wait, Push, vars, collector
    <3>. QED  BY <3>1 DEF CacheInv, CountOK, OwnerOK, SeenOK
  <2>. QED  BY <2>1, <2>2 DEF Next
<1>. QED  BY <1>1, <1>2, TypeCorrect, PTL DEF Spec

\* However many repositories reach a preset, and however their lookups
\* interleave, it is requested once.
THEOREM PresetsFetchedOnce == Spec => []FetchedOnce
<1>1. CacheInv => FetchedOnce
  BY DEF CacheInv, CountOK, FetchedOnce
<1>. QED  BY <1>1, CacheInvariance, PTL

\* All the facts of a run rest on one version of each preset.
THEOREM OneVersionPerRun == Spec => []SameVersion
<1>1. TypeOK /\ CacheInv => SameVersion
  <2>. SUFFICES ASSUME TypeOK, CacheInv, NEW r \in Repos, NEW s \in Repos,
                       NEW x \in seen[r], NEW y \in seen[s], x[1] = y[1]
                PROVE  x = y
    BY DEF SameVersion
  <2>1. x \in Presets \X (0 .. MaxPush) /\ y \in Presets \X (0 .. MaxPush)
    BY DEF TypeOK
  <2>2. x[2] = y[2]
    BY DEF CacheInv, SeenOK
  <2>. QED  BY <2>1, <2>2
<1>. QED  BY <1>1, CacheInvariance, TypeCorrect, PTL

-----------------------------------------------------------------------------

\* A step of a collector keeps the reasons for the group's cancellation.
LEMMA GroupStep ==
    ASSUME TypeOK, CacheInv, GroupInv, NEW r \in Repos, Collector(r)
    PROVE  GroupInv'
<1>1. CASE RequestFails(r) \/ ReadError(r)
  <2>1. pc[r] \in Phases /\ main # "done"
    BY <1>1, PhaseFacts
    DEF RequestFails, ReadError, Over, Resolving, Running, GroupInv, MainOK
  <2>2. PICK e \in {"error", "aborted"} : Fail(r, e) /\ (e = "aborted" => ctx = "done")
    <3>1. CASE RequestFails(r)
      BY <3>1 DEF RequestFails
    <3>2. CASE ReadError(r)
      BY <3>2 DEF ReadError, Over, TypeOK, GroupInv, OutcomeOK
    <3>. QED  BY <1>1, <3>1, <3>2
  <2>3. UNCHANGED <<main, signalled, result, renovate, cache>>
    BY <1>1 DEF RequestFails, ReadError
  <2>4. CtxOK' /\ CauseReported'
    BY <2>1, <2>2, <2>3, CollectAssumption DEF Fail, GroupInv, CtxOK, CauseReported, TypeOK
  <2>5. SentOK'
    <3>1. \A s \in Repos : sent'[s] # "no" => sent'[s] = sent[s] /\ s # r
      BY <1>1 DEF RequestFails, ReadError, Over, TypeOK
    <3>. QED  BY <3>1, <2>2 DEF Fail, GroupInv, SentOK, TypeOK
  <2>6. OutcomeOK'
    BY <2>2, <2>3 DEF Fail, GroupInv, OutcomeOK
  <2>7. EndOK'
    <3>1. groupErr' # None
      BY <2>2, CollectAssumption DEF Fail
    <3>2. \A s \in Repos : pc'[s] \in Late => pc[s] \in Late
      BY <2>2 DEF Fail, TypeOK, Late
    <3>. QED  BY <2>3, <3>1, <3>2 DEF GroupInv, EndOK
  <2>8. MainOK'
    BY <2>1, <2>3 DEF GroupInv, MainOK
  <2>. QED  BY <2>4, <2>5, <2>6, <2>7, <2>8 DEF GroupInv
<1>2. CASE ~RequestFails(r) /\ ~ReadError(r)
  <2>1. UNCHANGED <<main, signalled, ctx, groupErr, result>>
    BY <1>2
    DEF Collector, Launch, Send, Answered, Skip, Resolved, Refuse, Lookup, Fetch, Fetched,
        ReadText, ReadFallback, ReadBroken, ReadMissing
  <2>2. SentOK'
    <3>1. "repository" \in Phases /\ "presets" \in Phases /\ "rest" \in Phases
          /\ After(r, "presets") = "rest"
      BY PhaseFacts
    <3>2. \A s \in Repos : s # r => sent'[s] = sent[s] /\ pc'[s] = pc[s]
      BY <1>2
      DEF Collector, Launch, Send, Answered, Skip, Resolved, Refuse, Lookup, Fetch, Fetched,
          ReadText, ReadFallback, ReadBroken, ReadMissing, Advance, Conclude, TypeOK
    <3>3. sent'[r] # "no" => pc'[r] \in Phases
      <4>1. CASE Answered(r) \/ Skip(r) \/ Fetched(r)
        BY <4>1 DEF Answered, Skip, Fetched, TypeOK
      <4>2. CASE Launch(r) \/ Resolved(r) \/ Refuse(r) \/ ReadBroken(r) \/ ReadMissing(r)
        BY <4>2, <3>1 DEF Launch, Resolved, Refuse, ReadBroken, ReadMissing, Conclude, TypeOK
      <4>3. CASE Send(r) \/ Lookup(r) \/ Fetch(r) \/ ReadText(r) \/ ReadFallback(r)
        BY <4>3, <3>1
        DEF Send, Lookup, Fetch, ReadText, ReadFallback, Over, Resolving, Running
      <4>. QED  BY <1>2, <4>1, <4>2, <4>3 DEF Collector
    <3>4. sent'[r] = "doomed" => ctx = "done"
      BY <1>2
      DEF Collector, Launch, Send, Answered, Skip, Resolved, Refuse, Lookup, Fetch, Fetched,
          ReadText, ReadFallback, ReadBroken, ReadMissing, TypeOK, GroupInv, SentOK
    <3>. QED  BY <2>1, <3>2, <3>3, <3>4 DEF GroupInv, SentOK
  <2>3. OutcomeOK'
    <3>1. CASE Lookup(r)
      <4>1. Top(r).key \in Presets
        BY <3>1, TopType DEF Lookup, Resolving
      <4>2. \A j \in Presets : cache'[j].state = "over" => cache'[j] = cache[j]
        BY <3>1, <4>1, MadeFacts, EntryStates DEF Lookup, TypeOK
      <4>. QED  BY <4>2, <2>1 DEF GroupInv, OutcomeOK
    <3>2. CASE Fetch(r)
      BY <3>2, <2>1 DEF Fetch, GroupInv, OutcomeOK, TypeOK
    <3>3. CASE Fetched(r)
      BY <3>3, <2>1 DEF Fetched, GroupInv, OutcomeOK, TypeOK
    <3>4. CASE ReadFallback(r)
      <4>1. Fallback[Top(r).key] \in Presets
        BY <3>4, TopType, CollectAssumption DEF ReadFallback, Over, Resolving
      <4>2. \A j \in Presets : cache'[j].state = "over" => cache'[j] = cache[j]
        BY <3>4, <4>1, MadeFacts, EntryStates DEF ReadFallback, TypeOK
      <4>. QED  BY <4>2, <2>1 DEF GroupInv, OutcomeOK
    <3>5. CASE ~Lookup(r) /\ ~Fetch(r) /\ ~Fetched(r) /\ ~ReadFallback(r)
      BY <3>5, <2>1, CacheFrame DEF GroupInv, OutcomeOK
    <3>. QED  BY <3>1, <3>2, <3>3, <3>4, <3>5
  <2>4. EndOK'
    <3>1. \A s \in Repos : s # r => pc'[s] = pc[s] /\ renovate'[s] = renovate[s]
      BY <1>2
      DEF Collector, Launch, Send, Answered, Skip, Resolved, Refuse, Lookup, Fetch, Fetched,
          ReadText, ReadFallback, ReadBroken, ReadMissing, Advance, Conclude, TypeOK
    <3>2. /\ pc'[r] = "failed" => groupErr # None
          /\ pc'[r] \in Late => renovate'[r] # "unread"
      <4>1. CASE Launch(r)
        BY <4>1 DEF Launch, TypeOK, Late
      <4>2. CASE Answered(r) \/ Skip(r)
        <5>1. pc[r] \in Phases \ {"presets"}
          BY <4>2, PhaseFacts DEF Answered, Skip, Optional, Running
        <5>2. pc'[r] = After(r, pc[r]) /\ renovate' = renovate
          BY <4>2 DEF Answered, Skip, Advance, TypeOK
        <5>3. pc'[r] \in Late => pc[r] \in Late
          BY <5>1, <5>2, PhaseFacts DEF Late
        <5>4. pc'[r] # "failed"
          BY <5>1, <5>2, PhaseFacts
        <5>. QED  BY <5>2, <5>3, <5>4 DEF GroupInv, EndOK
      <4>3. CASE Resolved(r) \/ Refuse(r) \/ ReadBroken(r) \/ ReadMissing(r)
        <5>1. pc'[r] = "rest" /\ renovate'[r] # "unread"
          BY <4>3, PhaseFacts DEF Resolved, Refuse, ReadBroken, ReadMissing, Conclude, TypeOK
        <5>. QED  BY <5>1
      <4>4. CASE \/ Send(r) \/ Lookup(r) \/ Fetch(r) \/ Fetched(r)
                 \/ ReadText(r) \/ ReadFallback(r)
        BY <4>4
        DEF Send, Lookup, Fetch, Fetched, ReadText, ReadFallback, GroupInv, EndOK
      <4>. QED  BY <1>2, <4>1, <4>2, <4>3, <4>4 DEF Collector
    <3>. QED  BY <2>1, <3>1, <3>2 DEF GroupInv, EndOK
  <2>5. MainOK'
    <3>1. main # "done"
      <4>1. pc[r] \in Phases \/ main = "launch"
        BY <1>2, PhaseFacts
        DEF Collector, Launch, Send, Answered, Skip, Resolved, Refuse, Lookup, Fetch,
            Fetched, ReadText, ReadFallback, ReadBroken, ReadMissing, Over, Resolving, Running, Optional
      <4>. QED  BY <4>1, PhaseFacts DEF GroupInv, MainOK
    <3>. QED  BY <2>1, <3>1 DEF GroupInv, MainOK
  <2>. QED  BY <2>1, <2>2, <2>3, <2>4, <2>5 DEF GroupInv, CtxOK, CauseReported
<1>. QED  BY <1>1, <1>2

\* The group's error and its cancelled context always have a cause.
THEOREM GroupInvariance == Spec => []GroupInv
<1>1. Init => GroupInv
  <2>. SUFFICES ASSUME Init PROVE GroupInv
    OBVIOUS
  <2>1. \A r \in Repos : pc[r] = "idle" /\ sent[r] = "no"
    BY DEF Init
  <2>2. CtxOK /\ CauseReported /\ MainOK
    BY CollectAssumption DEF Init, CtxOK, CauseReported, MainOK
  <2>3. SentOK /\ EndOK
    BY <2>1 DEF SentOK, EndOK, Late
  <2>4. OutcomeOK
    BY DEF Init, OutcomeOK
  <2>. QED  BY <2>2, <2>3, <2>4 DEF GroupInv
<1>2. TypeOK /\ CacheInv /\ GroupInv /\ [Next]_vars => GroupInv'
  <2>. SUFFICES ASSUME TypeOK, CacheInv, GroupInv, [Next]_vars PROVE GroupInv'
    OBVIOUS
  <2>. USE DEF GroupInv, CtxOK, SentOK, OutcomeOK, EndOK, MainOK, CauseReported
  <2>1. ASSUME NEW r \in Repos, Collector(r) PROVE GroupInv'
    BY <2>1, GroupStep
  <2>2. CASE Signal
    BY <2>2 DEF Signal, collector
  <2>3. CASE Wait
    <3>1. groupErr \in {None, "error", "aborted"}
      BY DEF TypeOK
    <3>2. groupErr # None => groupErr # "repos"
      BY <3>1
    <3>. QED  BY <2>3, <3>2 DEF Wait, collector
  <2>4. CASE (\E k \in Presets : Push(k)) \/ UNCHANGED vars
    BY <2>4 DEF Push, vars, collector
  <2>. QED  BY <2>1, <2>2, <2>3, <2>4 DEF Next
<1>. QED  BY <1>1, <1>2, TypeCorrect, CacheInvariance, PTL DEF Spec

\* The error a run reports is the failure that stopped it, never the
\* cancellation that failure caused.
THEOREM CauseIsReported == Spec => []CauseReported
<1>1. GroupInv => CauseReported
  BY DEF GroupInv
<1>. QED  BY <1>1, GroupInvariance, PTL

\* Repositories are returned only when every one of them was collected whole.
THEOREM CollectedWhole == Spec => []AllOrNothing
<1>1. GroupInv => AllOrNothing
  BY DEF GroupInv, MainOK, EndOK, AllOrNothing, Late
<1>. QED  BY <1>1, GroupInvariance, PTL
-----------------------------------------------------------------------------
(* The depth-first walk decides each repository's presets as the presets      *)
(* alone say, whatever the cache and the other collectors do.                 *)

\* What the cache holds is what GitHub has: a text only of a file that is there.
HeldOK == \A k \in Presets :
             cache[k].state = "over" =>
                /\ cache[k].outcome = "text" => k \notin Missing
                /\ cache[k].outcome = "notFound" => k \in Missing

\* The entry being read is the key on top, or the fallback of one that is missing.
EntryOK(r) == \/ entry[r] = Top(r).key
              \/ /\ Top(r).key \in Missing /\ Fallback[Top(r).key] # None
                 /\ entry[r] = Fallback[Top(r).key]

\* What waits is the end of a chain of presets, no longer than is ever tried.
FrameOK(r, f) == Len(f.stack) <= MaxDepth /\ IsChain(r, Append(f.stack, f.key))

\* The n-th preset of chain c gives no reason to stop.
Fine(n, c) == /\ n <= MaxDepth
              /\ File(c[n]) # None /\ File(c[n]) \notin Broken
              /\ \A i \in 1 .. n - 1 : c[i] # c[n]

\* The entry f is on the way to the end of c.
OnWay(f, n, c) == /\ Len(f.stack) < n /\ f.key = c[Len(f.stack) + 1]
                  /\ \A i \in 1 .. Len(f.stack) : f.stack[i] = c[i]

\* Every chain is fine so far, or what waits leads to its end.
WalkOK(r) == pc[r] = "presets" =>
    /\ r \in Broken => todo[r] = <<>>
    /\ entry[r] # None => todo[r] # <<>> /\ ~Refused(r) /\ EntryOK(r)
    /\ \A j \in 1 .. Len(todo[r]) : FrameOK(r, todo[r][j])
    /\ r \notin Broken =>
          \A n \in 1 .. MaxDepth + 1 : \A c \in [1 .. n -> Presets] :
             IsChain(r, c) => Fine(n, c) \/ \E j \in 1 .. Len(todo[r]) : OnWay(todo[r][j], n, c)

EarlyOK(r) == pc[r] \in {"idle", "repository", "identities"} => entry[r] = None

FactOK(r) == renovate[r] # "unread" => (renovate[r] = "unresolved" <=> Undecidable(r))

VerdictInv == HeldOK /\ \A r \in Repos : WalkOK(r) /\ EarlyOK(r) /\ FactOK(r)

\* A function on 1 .. n is a sequence of n.
LEMMA ChainSeq ==
    ASSUME NEW n \in Nat, NEW c \in [1 .. n -> Presets]
    PROVE  c \in Seq(Presets) /\ Len(c) = n
<1>1. c \in Seq(Presets)
  BY SeqDef
<1>2. Len(c) \in Nat /\ DOMAIN c = 1 .. Len(c) /\ DOMAIN c = 1 .. n
  BY <1>1, LenProperties
<1>3. \A x \in Nat : x \in 1 .. Len(c) <=> x \in 1 .. n
  BY <1>2
<1>4. ~(Len(c) < n) /\ ~(n < Len(c))
  BY <1>2, <1>3
<1>. QED  BY <1>1, <1>2, <1>4

\* One preset more.
LEMMA Extended ==
    ASSUME NEW t \in Seq(Presets), NEW k \in Presets
    PROVE  /\ Append(t, k) \in [1 .. Len(t) + 1 -> Presets]
           /\ Append(t, k) \in Seq(Presets) /\ Len(t) \in Nat
           /\ Len(Append(t, k)) = Len(t) + 1
           /\ \A i \in 1 .. Len(t) : Append(t, k)[i] = t[i]
           /\ Append(t, k)[Len(t) + 1] = k
<1>1. /\ Append(t, k) \in Seq(Presets) /\ Len(t) \in Nat
      /\ Len(Append(t, k)) = Len(t) + 1
      /\ \A i \in 1 .. Len(t) : Append(t, k)[i] = t[i]
      /\ Append(t, k)[Len(t) + 1] = k
  BY AppendProperties, LenProperties
<1>2. Append(t, k) \in [1 .. Len(Append(t, k)) -> Presets]
  BY <1>1, LenProperties, ElementOfSeq
<1>. QED  BY <1>1, <1>2

\* A work list begins with the entries of an extends list, and goes on with rest.
Before(work, keys, stack, rest) ==
    /\ Len(work) = Len(keys) + Len(rest)
    /\ \A j \in 1 .. Len(keys) : work[j] = [key |-> keys[j], stack |-> stack]
    /\ \A j \in 1 .. Len(rest) : work[Len(keys) + j] = rest[j]

LEMMA FramesBefore ==
    ASSUME NEW keys \in Seq(Presets), NEW stack \in Seq(Presets), NEW rest \in Seq(Frame),
           NEW work, work = Frames(keys, stack) \o rest
    PROVE  Before(work, keys, stack, rest)
<1>1. /\ Len(keys) \in Nat /\ DOMAIN keys = 1 .. Len(keys)
      /\ Len(rest) \in Nat
  BY LenProperties
<1>2. Frames(keys, stack) \in Seq(Frame)
  BY FramesType
<1>3. DOMAIN Frames(keys, stack) = 1 .. Len(keys)
  BY <1>1 DEF Frames
<1>4. Len(Frames(keys, stack)) = Len(keys)
  <2>1. /\ Len(Frames(keys, stack)) \in Nat
        /\ DOMAIN Frames(keys, stack) = 1 .. Len(Frames(keys, stack))
    BY <1>2, LenProperties
  <2>2. \A x \in Nat : x \in 1 .. Len(Frames(keys, stack)) <=> x \in 1 .. Len(keys)
    BY <1>3, <2>1
  <2>3. ~(Len(Frames(keys, stack)) < Len(keys)) /\ ~(Len(keys) < Len(Frames(keys, stack)))
    BY <1>1, <2>1, <2>2
  <2>4. \A a, b \in Nat : ~(a < b) /\ ~(b < a) => a = b
    OBVIOUS
  <2>. QED  BY <1>1, <2>1, <2>3, <2>4
<1>5. \A j \in 1 .. Len(keys) : Frames(keys, stack)[j] = [key |-> keys[j], stack |-> stack]
  BY <1>1 DEF Frames
<1>6. /\ work \in Seq(Frame)
      /\ Len(work) = Len(Frames(keys, stack)) + Len(rest)
      /\ \A i \in 1 .. Len(Frames(keys, stack)) + Len(rest) :
            work[i] = IF i <= Len(Frames(keys, stack)) THEN Frames(keys, stack)[i]
                                                       ELSE rest[i - Len(Frames(keys, stack))]
  BY <1>2, ConcatProperties
<1>7. ASSUME NEW j \in 1 .. Len(rest)
      PROVE  work[Len(keys) + j] = rest[j]
  <2>1. Len(keys) + j \in 1 .. Len(keys) + Len(rest) /\ ~(Len(keys) + j <= Len(keys))
        /\ (Len(keys) + j) - Len(keys) = j
    BY <1>1
  <2>. QED  BY <1>4, <1>6, <2>1
<1>8. ASSUME NEW j \in 1 .. Len(keys)
      PROVE  work[j] = [key |-> keys[j], stack |-> stack]
  <2>1. j \in 1 .. Len(keys) + Len(rest) /\ j <= Len(keys)
    BY <1>1
  <2>2. work[j] = Frames(keys, stack)[j]
    BY <1>4, <1>6, <2>1
  <2>. QED  BY <1>5, <2>2
<1>. QED  BY <1>4, <1>6, <1>7, <1>8 DEF Before

\* A chain that ends in a reason to stop is one the presets cannot be decided by.
LEMMA StopsThere ==
    ASSUME NEW r \in Repos, NEW f \in Frame, FrameOK(r, f),
           \/ Len(f.stack) >= MaxDepth
           \/ \E i \in DOMAIN f.stack : f.stack[i] = f.key
           \/ File(f.key) = None
           \/ File(f.key) \in Broken
    PROVE  Undecidable(r)
<1>. DEFINE c == Append(f.stack, f.key)
            n == Len(f.stack) + 1
<1>1. f.stack \in Seq(Presets) /\ f.key \in Presets
  BY DEF Frame
<1>2. /\ c \in [1 .. n -> Presets] /\ Len(f.stack) \in Nat /\ Len(c) = n
      /\ \A i \in 1 .. Len(f.stack) : c[i] = f.stack[i]
      /\ c[n] = f.key
  BY <1>1, Extended
<1>3. DOMAIN f.stack = 1 .. Len(f.stack)
  BY <1>1, LenProperties
<1>4. n \in 1 .. MaxDepth + 1 /\ n - 1 = Len(f.stack)
  BY <1>2, CollectAssumption DEF FrameOK
<1>5. IsChain(r, c)
  BY DEF FrameOK
<1>6. \/ n > MaxDepth
      \/ File(c[n]) = None \/ File(c[n]) \in Broken
      \/ \E i \in 1 .. n - 1 : c[i] = c[n]
  <2>1. CASE Len(f.stack) >= MaxDepth
    BY <2>1, <1>2, CollectAssumption
  <2>2. CASE \E i \in DOMAIN f.stack : f.stack[i] = f.key
    BY <2>2, <1>2, <1>3, <1>4
  <2>3. CASE File(f.key) = None \/ File(f.key) \in Broken
    BY <2>3, <1>2
  <2>. QED  BY <2>1, <2>2, <2>3
<1>. HIDE DEF c, n
<1>. QED  BY <1>2, <1>4, <1>5, <1>6 DEF Undecidable

\* When every chain is fine, the presets are decided.
LEMMA NothingStops ==
    ASSUME NEW r \in Repos, r \notin Broken,
           \A n \in 1 .. MaxDepth + 1 : \A c \in [1 .. n -> Presets] : IsChain(r, c) => Fine(n, c)
    PROVE  ~Undecidable(r)
<1>. SUFFICES ASSUME NEW n \in 1 .. MaxDepth + 1, NEW c \in [1 .. n -> Presets], IsChain(r, c),
                     \/ n > MaxDepth
                     \/ File(c[n]) = None \/ File(c[n]) \in Broken
                     \/ \E i \in 1 .. n - 1 : c[i] = c[n]
              PROVE  FALSE
  BY DEF Undecidable
<1>1. Fine(n, c) /\ n \in Nat /\ MaxDepth \in Nat
  BY CollectAssumption
<1>. QED  BY <1>1 DEF Fine

\* The file that is read is the one the key on top stands for.
LEMMA FileRead ==
    ASSUME TypeOK, NEW r \in Repos, todo[r] # <<>>, EntryOK(r), entry[r] # None
    PROVE  /\ entry[r] \notin Missing => File(Top(r).key) = entry[r]
           /\ entry[r] \in Missing /\ (entry[r] # Top(r).key \/ Fallback[Top(r).key] = None)
                => File(Top(r).key) = None
  BY TopType, CollectAssumption DEF EntryOK, File

\* A collector's resolution is as it was when nothing of it changed.
LEMMA WalkFrame ==
    ASSUME NEW r \in Repos, WalkOK(r), EarlyOK(r),
           pc'[r] = pc[r], todo'[r] = todo[r], entry'[r] = entry[r]
    PROVE  WalkOK(r)' /\ EarlyOK(r)'
<1>1. Top(r)' = Top(r)
  BY DEF Top
<1>2. (Refused(r)' <=> Refused(r)) /\ (EntryOK(r)' <=> EntryOK(r))
  BY <1>1 DEF Refused, EntryOK
<1>. QED  BY <1>2 DEF WalkOK, EarlyOK

\* Nor is there anything of it outside its phase.
LEMMA WalkOver ==
    ASSUME NEW r \in Repos, pc'[r] \notin {"idle", "repository", "identities", "presets"}
    PROVE  WalkOK(r)' /\ EarlyOK(r)'
  BY DEF WalkOK, EarlyOK

-----------------------------------------------------------------------------

\* Entering the presets, every chain waits at its first preset.
LEMMA AdvanceWalk ==
    ASSUME TypeOK, NEW r \in Repos, WalkOK(r), EarlyOK(r), pc[r] \in Phases, pc[r] # "presets",
           Advance(r), entry' = entry
    PROVE  WalkOK(r)' /\ EarlyOK(r)'
<1>1. /\ pc'[r] = After(r, pc[r])
      /\ todo'[r] = IF After(r, pc[r]) = "presets" /\ r \notin Broken THEN Frames(Extends[r], <<>>)
                                                                     ELSE <<>>
  BY DEF Advance, TypeOK
<1>2. /\ pc'[r] # "idle" /\ pc'[r] # "repository"
      /\ pc'[r] \in {"identities", "presets"} => pc[r] \in {"repository", "identities"}
  BY <1>1, PhaseFacts DEF Late
<1>3. pc'[r] \in {"identities", "presets"} => entry'[r] = None
  BY <1>2 DEF EarlyOK
<1>4. EarlyOK(r)'
  BY <1>2, <1>3 DEF EarlyOK
<1>5. CASE pc'[r] = "presets" /\ r \notin Broken
  <2>1. Extends[r] \in Seq(Presets) /\ <<>> \in Seq(Presets) /\ <<>> \in Seq(Frame)
    BY ExtendsType
  <2>2. todo'[r] = Frames(Extends[r], <<>>)
    BY <1>1, <1>5
  <2>3. /\ todo'[r] \in Seq(Frame) /\ Len(todo'[r]) = Len(Extends[r]) /\ Len(Extends[r]) \in Nat
        /\ DOMAIN Extends[r] = 1 .. Len(Extends[r])
    <3>1. todo'[r] \in Seq(Frame)
      BY <2>1, <2>2, FramesType
    <3>2. DOMAIN todo'[r] = DOMAIN Extends[r]
      BY <2>2 DEF Frames
    <3>3. /\ Len(todo'[r]) \in Nat /\ DOMAIN todo'[r] = 1 .. Len(todo'[r])
          /\ Len(Extends[r]) \in Nat /\ DOMAIN Extends[r] = 1 .. Len(Extends[r])
      BY <2>1, <3>1, LenProperties
    <3>4. \A x \in Nat : x \in 1 .. Len(todo'[r]) <=> x \in 1 .. Len(Extends[r])
      BY <3>2, <3>3
    <3>5. ~(Len(todo'[r]) < Len(Extends[r])) /\ ~(Len(Extends[r]) < Len(todo'[r]))
      BY <3>3, <3>4
    <3>6. \A a, b \in Nat : ~(a < b) /\ ~(b < a) => a = b
      OBVIOUS
    <3>. QED  BY <3>1, <3>3, <3>5, <3>6
  <2>4. \A j \in 1 .. Len(Extends[r]) : todo'[r][j] = [key |-> Extends[r][j], stack |-> <<>>]
    BY <2>2, <2>3 DEF Frames
  <2>5. Len(<<>>) = 0
    OBVIOUS
  <2>6. ASSUME NEW j \in 1 .. Len(Extends[r])
        PROVE  FrameOK(r, todo'[r][j])
    <3>1. PICK f : f = todo'[r][j]
      OBVIOUS
    <3>2. f.stack = <<>> /\ f.key = Extends[r][j] /\ f.key \in Presets
      <4>1. f = [key |-> Extends[r][j], stack |-> <<>>]
        BY <2>4, <3>1
      <4>2. Extends[r][j] \in Presets
        BY <2>1, ElementOfSeq
      <4>. QED  BY <4>1, <4>2
    <3>3. Append(<<>>, f.key)[1] = f.key /\ Len(Append(<<>>, f.key)) = 1
      BY <2>1, <2>5, <3>2, Extended
    <3>4. f.key \in Range(Extends[r])
      BY <2>3, <3>2 DEF Range
    <3>5. IsChain(r, Append(f.stack, f.key))
      BY <3>2, <3>3, <3>4 DEF IsChain
    <3>. QED  BY <2>5, <3>1, <3>2, <3>5, CollectAssumption DEF FrameOK
  <2>7. ASSUME NEW n \in 1 .. MaxDepth + 1, NEW c \in [1 .. n -> Presets], IsChain(r, c)
        PROVE  \E j \in 1 .. Len(todo'[r]) : OnWay(todo'[r][j], n, c)
    <3>1. c[1] \in Range(Extends[r])
      BY <2>7 DEF IsChain
    <3>2. PICK j \in 1 .. Len(Extends[r]) : Extends[r][j] = c[1]
      BY <2>3, <3>1 DEF Range
    <3>3. PICK f : f = todo'[r][j]
      OBVIOUS
    <3>4. f.stack = <<>> /\ f.key = c[1]
      <4>1. f = [key |-> Extends[r][j], stack |-> <<>>]
        BY <2>4, <3>3
      <4>. QED  BY <3>2, <4>1
    <3>5. OnWay(f, n, c)
      BY <2>5, <3>4, CollectAssumption DEF OnWay
    <3>. QED  BY <2>3, <3>3, <3>5
  <2>. QED  BY <1>2, <1>3, <1>4, <1>5, <2>3, <2>6, <2>7 DEF WalkOK
<1>6. CASE ~(pc'[r] = "presets" /\ r \notin Broken)
  BY <1>1, <1>3, <1>4, <1>6 DEF WalkOK
<1>. QED  BY <1>5, <1>6

\* A text's own extends lead on from it: a chain that waited at it is fine there,
\* or waits at the next.
LEMMA ReadTextWalk ==
    ASSUME TypeOK, HeldOK, NEW r \in Repos, WalkOK(r), ReadText(r)
    PROVE  WalkOK(r)' /\ EarlyOK(r)'
<1>1. /\ pc[r] = "presets" /\ pc' = pc /\ todo[r] # <<>> /\ entry[r] # None /\ entry[r] \in Presets
      /\ cache[entry[r]].state = "over" /\ cache[entry[r]].outcome = "text"
      /\ entry[r] \notin Broken /\ entry'[r] = None
      /\ todo'[r] = Frames(Extends[entry[r]], Append(Top(r).stack, Top(r).key)) \o Tail(todo[r])
  BY DEF ReadText, Over, Resolving, TypeOK
<1>2. PICK top : top = Top(r)
  OBVIOUS
<1>3. PICK file : file = entry[r]
  OBVIOUS
<1>4. /\ file \in Presets /\ File(top.key) = file /\ file # None /\ file \notin Broken
      /\ ~Refused(r) /\ r \notin Broken
  BY <1>1, <1>2, <1>3, FileRead, CollectAssumption DEF HeldOK, WalkOK
<1>5. PICK rest : rest = Tail(todo[r])
  OBVIOUS
<1>6. /\ top.key \in Presets /\ top.stack \in Seq(Presets) /\ rest \in Seq(Frame) /\ top = todo[r][1]
      /\ Len(todo[r]) \in Nat \ {0} /\ Len(rest) = Len(todo[r]) - 1
      /\ \A j \in 1 .. Len(rest) : rest[j] = todo[r][j + 1]
  <2>1. todo[r] \in Seq(Frame)
    BY DEF TypeOK
  <2>. QED  BY <1>1, <1>2, <1>5, <2>1, TopType, HeadTailProperties, EmptySeq DEF Top
<1>7. PICK stack : stack = Append(top.stack, top.key)
  OBVIOUS
<1>8. /\ stack \in Seq(Presets) /\ Len(top.stack) \in Nat /\ Len(stack) = Len(top.stack) + 1
      /\ \A i \in 1 .. Len(top.stack) : stack[i] = top.stack[i]
      /\ stack[Len(top.stack) + 1] = top.key
      /\ stack \in [1 .. Len(top.stack) + 1 -> Presets]
  BY <1>6, <1>7, Extended
<1>9. PICK keys : keys = Extends[file]
  OBVIOUS
<1>10. keys \in Seq(Presets) /\ Len(keys) \in Nat /\ DOMAIN keys = 1 .. Len(keys)
  BY <1>4, <1>9, ExtendsType, LenProperties
<1>11. PICK work : work = todo'[r]
  OBVIOUS
<1>12. /\ Len(rest) \in Nat /\ Len(work) = Len(keys) + Len(rest)
       /\ \A j \in 1 .. Len(keys) : work[j] = [key |-> keys[j], stack |-> stack]
       /\ \A j \in 1 .. Len(rest) : work[Len(keys) + j] = rest[j]
  <2>1. work = Frames(keys, stack) \o rest
    BY <1>1, <1>2, <1>3, <1>5, <1>7, <1>9, <1>11
  <2>2. keys \in Seq(Presets) /\ stack \in Seq(Presets) /\ rest \in Seq(Frame)
    BY <1>6, <1>8, <1>10
  <2>3. Before(work, keys, stack, rest)
    BY <2>1, <2>2, FramesBefore
  <2>4. Len(rest) \in Nat
    BY <2>2, LenProperties
  <2>. QED  BY <2>3, <2>4 DEF Before
<1>13. /\ Len(top.stack) < MaxDepth /\ FrameOK(r, top)
       /\ \A i \in DOMAIN top.stack : top.stack[i] # top.key
  <2>1. \A j \in 1 .. Len(todo[r]) : FrameOK(r, todo[r][j])
    BY <1>1 DEF WalkOK
  <2>2. FrameOK(r, top)
    BY <1>6, <2>1
  <2>3. ~(Len(top.stack) >= MaxDepth) /\ \A i \in DOMAIN top.stack : top.stack[i] # top.key
    BY <1>2, <1>4, Zenon DEF Refused
  <2>4. Len(top.stack) < MaxDepth
    BY <1>8, <2>3, CollectAssumption
  <2>. QED  BY <2>2, <2>3, <2>4
<1>14. ASSUME NEW j \in 1 .. Len(work)
       PROVE  FrameOK(r, work[j])
  <2>1. CASE j \in 1 .. Len(keys)
    <3>1. PICK f : f = work[j]
      OBVIOUS
    <3>2. f.key = keys[j] /\ f.stack = stack /\ f.key \in Presets
      <4>1. f = [key |-> keys[j], stack |-> stack]
        BY <1>12, <2>1, <3>1
      <4>2. keys[j] \in Presets
        BY <1>10, <2>1, ElementOfSeq
      <4>. QED  BY <4>1, <4>2
    <3>3. PICK c : c = Append(stack, f.key)
      OBVIOUS
    <3>4. /\ Len(c) = Len(stack) + 1 /\ c[Len(stack) + 1] = f.key
          /\ \A i \in 1 .. Len(stack) : c[i] = stack[i]
      BY <1>8, <3>2, <3>3, Extended
    <3>5. IsChain(r, stack)
      BY <1>7, <1>13 DEF FrameOK
    <3>6. f.key \in Range(keys)
      BY <1>10, <2>1, <3>2 DEF Range
    <3>7. c[1] = stack[1] /\ c[1] \in Range(Extends[r])
      BY <1>8, <3>4, <3>5 DEF IsChain
    <3>8. ASSUME NEW i \in 1 .. Len(c) - 1
          PROVE  File(c[i]) # None /\ c[i + 1] \in Range(Extends[File(c[i])])
      <4>1. CASE i = Len(stack)
        BY <1>4, <1>8, <1>9, <3>4, <3>6, <4>1
      <4>2. CASE i # Len(stack)
        <5>1. i \in 1 .. Len(stack) - 1 /\ i \in 1 .. Len(stack) /\ i + 1 \in 1 .. Len(stack)
          BY <1>8, <3>4, <4>2
        <5>2. c[i] = stack[i] /\ c[i + 1] = stack[i + 1]
          BY <3>4, <5>1
        <5>. QED  BY <3>5, <5>1, <5>2 DEF IsChain
      <4>. QED  BY <4>1, <4>2
    <3>9. IsChain(r, c)
      BY <3>7, <3>8 DEF IsChain
    <3>. QED  BY <1>8, <1>13, <3>1, <3>2, <3>3, <3>9, CollectAssumption DEF FrameOK
  <2>2. CASE j \notin 1 .. Len(keys)
    <3>1. PICK i \in 1 .. Len(rest) : j = Len(keys) + i
      <4>1. j - Len(keys) \in 1 .. Len(rest) /\ j = Len(keys) + (j - Len(keys))
        BY <1>10, <1>12, <2>2
      <4>. QED  BY <4>1
    <3>2. work[j] = todo[r][i + 1] /\ i + 1 \in 1 .. Len(todo[r])
      BY <1>6, <1>12, <3>1
    <3>. QED  BY <1>1, <3>2 DEF WalkOK
  <2>. QED  BY <2>1, <2>2
<1>15. ASSUME NEW n \in 1 .. MaxDepth + 1, NEW c \in [1 .. n -> Presets], IsChain(r, c)
       PROVE  Fine(n, c) \/ \E j \in 1 .. Len(work) : OnWay(work[j], n, c)
  <2>1. CASE Fine(n, c)
    BY <2>1
  <2>2. ASSUME NEW j \in 1 .. Len(todo[r]), OnWay(todo[r][j], n, c), j # 1
        PROVE  \E i \in 1 .. Len(work) : OnWay(work[i], n, c)
    <3>1. j - 1 \in 1 .. Len(rest) /\ (j - 1) + 1 = j
      BY <1>6, <2>2
    <3>2. work[Len(keys) + (j - 1)] = rest[j - 1] /\ rest[j - 1] = todo[r][j]
      BY <1>6, <1>12, <3>1
    <3>3. Len(keys) + (j - 1) \in 1 .. Len(work)
      BY <1>10, <1>12, <3>1
    <3>. QED  BY <2>2, <3>2, <3>3
  <2>3. CASE OnWay(top, n, c)
    <3>1. /\ Len(top.stack) < n /\ c[Len(top.stack) + 1] = top.key
          /\ \A i \in 1 .. Len(top.stack) : c[i] = top.stack[i]
      BY <2>3 DEF OnWay
    <3>2. CASE n = Len(top.stack) + 1
      <4>1. c[n] = top.key /\ n - 1 = Len(top.stack) /\ n <= MaxDepth
        BY <1>8, <1>13, <3>1, <3>2, CollectAssumption
      <4>2. \A i \in 1 .. n - 1 : c[i] # c[n]
        BY <1>6, <1>13, <3>1, <4>1, LenProperties
      <4>. QED  BY <1>4, <4>1, <4>2 DEF Fine
    <3>3. CASE n # Len(top.stack) + 1
      <4>1. PICK m : m = Len(stack)
        OBVIOUS
      <4>2. m \in Nat /\ m = Len(top.stack) + 1 /\ m \in 1 .. n - 1 /\ n \in Nat
        BY <1>8, <3>1, <3>3, <4>1, CollectAssumption
      <4>3. c[m] = top.key /\ Len(c) = n
        BY <3>1, <4>2, ChainSeq
      <4>4. c[m + 1] \in Range(keys)
        BY <1>4, <1>9, <1>15, <4>2, <4>3 DEF IsChain
      <4>5. PICK j \in 1 .. Len(keys) : keys[j] = c[m + 1]
        BY <1>10, <4>4 DEF Range
      <4>6. PICK f : f = work[j]
        OBVIOUS
      <4>7. f.key = c[m + 1] /\ f.stack = stack
        <5>1. f = [key |-> keys[j], stack |-> stack]
          BY <1>12, <4>6
        <5>. QED  BY <4>5, <5>1
      <4>8. \A i \in 1 .. Len(stack) : stack[i] = c[i]
        BY <1>8, <3>1
      <4>9. Len(f.stack) = m /\ m < n
        <5>1. Len(f.stack) = Len(stack)
          BY <4>7
        <5>2. m < n
          BY <4>2
        <5>. QED  BY <4>1, <5>1, <5>2, Zenon
      <4>10. OnWay(f, n, c)
        BY <4>7, <4>8, <4>9 DEF OnWay
      <4>. QED  BY <1>10, <1>12, <4>5, <4>6, <4>10
    <3>. QED  BY <3>2, <3>3
  <2>4. Fine(n, c) \/ \E j \in 1 .. Len(todo[r]) : OnWay(todo[r][j], n, c)
    BY <1>1, <1>4, <1>15 DEF WalkOK
  <2>. QED  BY <1>6, <2>1, <2>2, <2>3, <2>4
<1>. QED  BY <1>1, <1>4, <1>11, <1>14, <1>15 DEF WalkOK, EarlyOK

\* The end of a resolution says of the presets what they are.
LEMMA ConcludeFact ==
    ASSUME TypeOK, HeldOK, NEW r \in Repos, WalkOK(r), FactOK(r),
           Resolved(r) \/ Refuse(r) \/ ReadBroken(r) \/ ReadMissing(r)
    PROVE  FactOK(r)' /\ pc'[r] = "rest"
<1>1. pc'[r] = "rest"
  BY PhaseFacts DEF Resolved, Refuse, ReadBroken, ReadMissing, Conclude, TypeOK
<1>2. CASE Resolved(r)
  <2>1. /\ pc[r] = "presets" /\ todo[r] = <<>>
        /\ renovate'[r] = IF r \in Broken THEN "unresolved" ELSE "resolved"
    BY <1>2 DEF Resolved, Conclude, TypeOK
  <2>2. r \in Broken => Undecidable(r)
    BY DEF Undecidable
  <2>3. r \notin Broken => ~Undecidable(r)
    <3>1. ~\E j \in 1 .. Len(todo[r]) : TRUE
      BY <2>1
    <3>. QED  BY <2>1, <3>1, NothingStops DEF WalkOK
  <2>. QED  BY <1>1, <2>1, <2>2, <2>3 DEF FactOK
<1>3. CASE Refuse(r) \/ ReadBroken(r) \/ ReadMissing(r)
  <2>1. pc[r] = "presets" /\ todo[r] # <<>> /\ renovate'[r] = "unresolved"
    BY <1>3 DEF Refuse, ReadBroken, ReadMissing, Over, Resolving, Conclude, TypeOK
  <2>2. Top(r) \in Frame /\ FrameOK(r, Top(r))
    <3>1. todo[r] \in Seq(Frame)
      BY DEF TypeOK
    <3>2. Top(r) = todo[r][1] /\ Top(r) \in Frame /\ 1 \in 1 .. Len(todo[r])
      BY <2>1, <3>1, HeadTailProperties, EmptySeq DEF Top
    <3>. QED  BY <2>1, <3>2 DEF WalkOK
  <2>3. CASE Refuse(r)
    <3>1. \/ Len(Top(r).stack) >= MaxDepth
          \/ \E i \in DOMAIN Top(r).stack : Top(r).stack[i] = Top(r).key
      BY <2>3 DEF Refuse, Refused
    <3>2. Undecidable(r)
      BY <2>2, <3>1, StopsThere
    <3>. QED  BY <1>1, <2>1, <3>2 DEF FactOK
  <2>4. CASE ReadBroken(r) \/ ReadMissing(r)
    <3>1. /\ entry[r] # None /\ entry[r] \in Presets /\ EntryOK(r) /\ cache[entry[r]].state = "over"
      BY <2>1, <2>4 DEF ReadBroken, ReadMissing, Over, TypeOK, WalkOK
    <3>2. File(Top(r).key) = None \/ File(Top(r).key) \in Broken
      BY <2>1, <2>4, <3>1, FileRead DEF ReadBroken, ReadMissing, HeldOK
    <3>3. Undecidable(r)
      BY <2>2, <3>2, StopsThere
    <3>. QED  BY <1>1, <2>1, <3>3 DEF FactOK
  <2>. QED  BY <1>1, <1>3, <2>3, <2>4
<1>. QED  BY <1>2, <1>3, <1>1

\* What the cache holds stays what GitHub has.
LEMMA HeldStep ==
    ASSUME TypeOK, OwnerOK, HeldOK, NEW r \in Repos, Collector(r)
    PROVE  HeldOK'
<1>1. CASE Lookup(r)
  <2>1. Top(r).key \in Presets
    BY <1>1, TopType DEF Lookup, Resolving
  <2>2. \A j \in Presets : cache'[j].state = "over" => cache'[j] = cache[j]
    BY <1>1, <2>1, MadeFacts, EntryStates DEF Lookup, TypeOK
  <2>. QED  BY <2>2 DEF HeldOK
<1>2. CASE Fetch(r)
  <2>1. \A j \in Presets : cache'[j].state = "over" => cache'[j] = cache[j]
    BY <1>2 DEF Fetch, TypeOK
  <2>. QED  BY <2>1 DEF HeldOK
<1>3. CASE Fetched(r)
  <2>1. entry[r] \in Presets
    BY <1>3 DEF Fetched, OwnerOK
  <2>2. PICK o \in {"text", "notFound", "error", "aborted"} :
           /\ o = "text" => entry[r] \notin Missing
           /\ o = "notFound" => entry[r] \in Missing
           /\ cache' = [cache EXCEPT ![entry[r]] =
                          [state |-> "over", outcome |-> o, version |-> version[entry[r]]]]
    BY <1>3 DEF Fetched
  <2>3. cache'[entry[r]].outcome = o /\ \A j \in Presets : j # entry[r] => cache'[j] = cache[j]
    BY <2>1, <2>2 DEF TypeOK
  <2>. QED  BY <2>2, <2>3 DEF HeldOK
<1>4. CASE ReadFallback(r)
  <2>1. Fallback[Top(r).key] \in Presets
    BY <1>4, TopType, CollectAssumption DEF ReadFallback, Over, Resolving
  <2>2. \A j \in Presets : cache'[j].state = "over" => cache'[j] = cache[j]
    BY <1>4, <2>1, MadeFacts, EntryStates DEF ReadFallback, TypeOK
  <2>. QED  BY <2>2 DEF HeldOK
<1>5. CASE ~Lookup(r) /\ ~Fetch(r) /\ ~Fetched(r) /\ ~ReadFallback(r)
  BY <1>5, CacheFrame DEF HeldOK
<1>. QED  BY <1>1, <1>2, <1>3, <1>4, <1>5

\* A step of one collector is one of the walk of its own presets.
LEMMA WalkStep ==
    ASSUME TypeOK, HeldOK, NEW r \in Repos, WalkOK(r), EarlyOK(r), Collector(r)
    PROVE  WalkOK(r)' /\ EarlyOK(r)'
<1>1. CASE Launch(r)
  <2>1. pc'[r] = "repository" /\ pc[r] = "idle" /\ entry' = entry
    BY <1>1 DEF Launch, TypeOK
  <2>. QED  BY <2>1 DEF WalkOK, EarlyOK
<1>2. CASE Answered(r) \/ Skip(r)
  BY <1>2, PhaseFacts, AdvanceWalk DEF Answered, Skip, Running, Optional
<1>3. CASE Send(r) \/ Fetch(r) \/ Fetched(r)
  BY <1>3, WalkFrame DEF Send, Fetch, Fetched
<1>4. CASE RequestFails(r) \/ ReadError(r)
  BY <1>4, WalkOver DEF RequestFails, ReadError, Fail, TypeOK
<1>5. CASE Resolved(r) \/ Refuse(r) \/ ReadBroken(r) \/ ReadMissing(r)
  <2>1. pc'[r] = "rest"
    BY <1>5, PhaseFacts DEF Resolved, Refuse, ReadBroken, ReadMissing, Conclude, TypeOK
  <2>. QED  BY <2>1, WalkOver
<1>6. CASE ReadText(r)
  BY <1>6, ReadTextWalk
<1>7. CASE Lookup(r) \/ ReadFallback(r)
  <2>1. /\ pc' = pc /\ pc[r] = "presets" /\ todo' = todo /\ todo[r] # <<>> /\ ~Refused(r)
    BY <1>7 DEF Lookup, ReadFallback, Over, Resolving, WalkOK
  <2>2. Top(r)' = Top(r)
    BY <2>1 DEF Top
  <2>3. ~Refused(r)'
    BY <2>1, <2>2 DEF Refused
  <2>4. EntryOK(r)'
    <3>1. CASE Lookup(r)
      BY <2>2, <3>1 DEF Lookup, EntryOK, TypeOK
    <3>2. CASE ReadFallback(r)
      <4>1. entry[r] \in Presets /\ entry[r] = Top(r).key /\ Top(r).key \in Missing
        BY <3>2 DEF ReadFallback, Over, TypeOK, HeldOK
      <4>. QED  BY <2>2, <3>2, <4>1 DEF ReadFallback, EntryOK, TypeOK
    <3>. QED  BY <1>7, <3>1, <3>2
  <2>5. r \in Broken => todo[r] = <<>>
    BY <2>1 DEF WalkOK
  <2>. QED  BY <2>1, <2>3, <2>4, <2>5 DEF WalkOK, EarlyOK
<1>. QED  BY <1>1, <1>2, <1>3, <1>4, <1>5, <1>6, <1>7 DEF Collector

\* The verdict of a repository is the presets' own, once it is given.
LEMMA VerdictStep ==
    ASSUME TypeOK, CacheInv, VerdictInv, NEW r \in Repos, Collector(r)
    PROVE  VerdictInv'
<1>1. HeldOK'
  BY HeldStep DEF CacheInv, VerdictInv
<1>2. ASSUME NEW s \in Repos, s # r
      PROVE  /\ pc'[s] = pc[s] /\ todo'[s] = todo[s] /\ entry'[s] = entry[s]
             /\ renovate'[s] = renovate[s]
  BY <1>2
  DEF Collector, Launch, Send, Answered, Skip, RequestFails, Resolved, Refuse, Lookup, Fetch, Fetched,
      ReadText, ReadFallback, ReadBroken, ReadMissing, ReadError, Advance, Conclude, Fail, TypeOK
<1>3. ASSUME NEW s \in Repos
      PROVE  WalkOK(s)' /\ EarlyOK(s)'
  <2>1. CASE s = r
    BY <2>1, WalkStep DEF VerdictInv
  <2>2. CASE s # r
    BY <1>2, <2>2, WalkFrame DEF VerdictInv
  <2>. QED  BY <2>1, <2>2
<1>4. ASSUME NEW s \in Repos
      PROVE  FactOK(s)'
  <2>1. CASE renovate'[s] = renovate[s]
    BY <2>1 DEF VerdictInv, FactOK
  <2>2. CASE s = r /\ (Resolved(r) \/ Refuse(r) \/ ReadBroken(r) \/ ReadMissing(r))
    BY <2>2, ConcludeFact DEF VerdictInv
  <2>3. CASE s = r /\ ~(Resolved(r) \/ Refuse(r) \/ ReadBroken(r) \/ ReadMissing(r))
    <3>1. renovate' = renovate
      BY <2>3
      DEF Collector, Launch, Send, Answered, Skip, RequestFails, Lookup, Fetch, Fetched,
          ReadText, ReadFallback, ReadError
    <3>. QED  BY <2>1, <3>1
  <2>. QED  BY <1>2, <2>1, <2>2, <2>3
<1>. QED  BY <1>1, <1>3, <1>4 DEF VerdictInv

\* The walks are right throughout a run.
THEOREM WalksAreRight == Spec => []VerdictInv
<1>1. Init => VerdictInv
  <2>. SUFFICES ASSUME Init PROVE VerdictInv
    OBVIOUS
  <2>1. HeldOK
    BY DEF Init, HeldOK
  <2>2. ASSUME NEW r \in Repos PROVE WalkOK(r) /\ EarlyOK(r) /\ FactOK(r)
    BY DEF Init, WalkOK, EarlyOK, FactOK
  <2>. QED  BY <2>1, <2>2 DEF VerdictInv
<1>2. TypeOK /\ CacheInv /\ VerdictInv /\ [Next]_vars => VerdictInv'
  <2>. SUFFICES ASSUME TypeOK, CacheInv, VerdictInv, [Next]_vars PROVE VerdictInv'
    OBVIOUS
  <2>1. ASSUME NEW r \in Repos, Collector(r) PROVE VerdictInv'
    BY <2>1, VerdictStep
  <2>2. CASE Signal \/ Wait \/ (\E k \in Presets : Push(k)) \/ UNCHANGED vars
    <3>1. UNCHANGED <<cache, pc, todo, entry, renovate>>
      BY <2>2 DEF Signal, Wait, Push, vars, collector
    <3>2. HeldOK'
      BY <3>1 DEF VerdictInv, HeldOK
    <3>3. ASSUME NEW r \in Repos PROVE WalkOK(r)' /\ EarlyOK(r)' /\ FactOK(r)'
      <4>1. WalkOK(r)' /\ EarlyOK(r)'
        BY <3>1, WalkFrame DEF VerdictInv
      <4>2. FactOK(r)'
        BY <3>1 DEF VerdictInv, FactOK
      <4>. QED  BY <4>1, <4>2
    <3>. QED  BY <3>2, <3>3 DEF VerdictInv
  <2>. QED  BY <2>1, <2>2 DEF Next
<1>. QED  BY <1>1, <1>2, TypeCorrect, CacheInvariance, PTL DEF Spec

\* Whoever fetched them first, and whatever else the run read: a repository's
\* presets are undecided exactly when a chain of them ends where Renovate stops.
THEOREM PresetsDecideAlone == Spec => []VerdictRight
<1>1. AllOrNothing /\ VerdictInv /\ TypeOK => VerdictRight
  BY DEF AllOrNothing, VerdictInv, FactOK, VerdictRight, TypeOK
<1>. QED  BY <1>1, WalksAreRight, CollectedWhole, TypeCorrect, PTL
=============================================================================
