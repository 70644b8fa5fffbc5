---------------------------- MODULE FilingProofs ----------------------------
(* What the filing jobs promise, for any crashers, versions and number of     *)
(* jobs.                                                                      *)
EXTENDS Filing, FiniteSetTheorems, SequenceTheorems, TLAPS

\* An open pull request has something on its branch.
OpenOK == \A i \in Items : pr[i] = "open" => branch[i] # None /\ branch[i].file # None

\* A branch was there when the job began, or is the job's own.
BranchOK == \A i \in Items : branch[i] # None => i \in had \cup marked

\* An item is in hand once; only the one in hand, past Post, can be marked.
OnceOK == \A j, k \in 1 .. Len(todo) : todo[j] = todo[k] => j = k

FreshOK ==
    pc # "done" => \A j \in 1 .. Len(todo) :
                      todo[j] \in marked => j = 1 /\ pc \in {"commit", "create", "merge"}

\* A bump is past Post only with a branch of this job's making, and alone.
BumpOK ==
    /\ pc # "done" => \A j \in 1 .. Len(todo) : todo[j] \in Bumps => Len(todo) = 1 /\ rc = "0"
    /\ pc # "done" /\ IsBump =>
        /\ pc \in {"commit", "create", "merge"} => Item \in marked
        /\ pc = "merge" => Item \in ever

\* Status 0 so far: what was found is filed, was marked before, or is left to do.
LeftOK ==
    pc # "done" /\ rc = "0" =>
        \A i \in found : i \in ever \cup had \/ \E j \in 1 .. Len(todo) : todo[j] = i

IInv == TypeOK /\ OpenOK /\ BranchOK /\ OnceOK /\ FreshOK /\ BumpOK /\ LeftOK /\ ZeroTells

-----------------------------------------------------------------------------

\* A finite set in some order: every element once.
LEMMA OrderOfSet ==
    ASSUME NEW S, IsFiniteSet(S), NEW s, s = SetToSeq(S)
    PROVE  /\ s \in Seq(S) /\ Len(s) = Cardinality(S)
           /\ \A j, k \in 1 .. Len(s) : s[j] = s[k] => j = k
           /\ \A i \in S : \E j \in 1 .. Len(s) : s[j] = i
           /\ S # {} => s # <<>>
<1> DEFINE n == Cardinality(S)
<1>1. n \in Nat /\ ExistsBijection(1 .. n, S)
    BY FS_CardinalityType
<1>2. \E f \in [1 .. n -> S] : IsInjective(f)
    BY <1>1 DEF ExistsBijection, Bijection, Injection
<1>3. s \in [1 .. n -> S] /\ IsInjective(s)
    BY <1>2 DEF SetToSeq
<1>4. IsFiniteSet(1 .. n) /\ Cardinality(1 .. n) = n
    <2>1. /\ IsFiniteSet(1 .. n)
          /\ Cardinality(1 .. n) = IF 1 > n THEN 0 ELSE n - 1 + 1
        BY <1>1, FS_Interval
    <2> QED  BY <1>1, <2>1
<1>5. s \in Surjection(1 .. n, S)
    BY <1>3, <1>4, FS_Injection DEF Injection
<1>6. s \in Seq(S)
    BY <1>1, <1>3, SeqDef
<1>7. Len(s) = n /\ DOMAIN s = 1 .. n
    <2>1. Len(s) \in Nat /\ DOMAIN s = 1 .. Len(s) /\ DOMAIN s = 1 .. n
        BY <1>3, <1>6, LenProperties
    <2>2. n \in Nat
        BY <1>1
    <2> HIDE DEF n
    <2>3. \A x \in Nat : x \in 1 .. Len(s) <=> x \in 1 .. n
        BY <2>1
    <2>4. ~(Len(s) < n)
        BY <2>1, <2>2, <2>3
    <2>5. ~(n < Len(s))
        BY <2>1, <2>2, <2>3
    <2>6. Len(s) \in Nat
        BY <2>1
    <2>7. Len(s) = n
        BY <2>2, <2>4, <2>5, <2>6
    <2> QED  BY <2>1, <2>7
<1>8. S # {} => Cardinality(S) # 0
    <2> HIDE DEF n
    <2>1. \A T : IsFiniteSet(T) => (Cardinality(T) = 0 <=> T = {})
        BY FS_EmptySet
    <2> QED  BY <2>1
<1>9. S # {} => s # <<>>
    BY <1>6, <1>7, <1>8, EmptySeq
<1> QED
    BY <1>3, <1>5, <1>6, <1>7, <1>9 DEF IsInjective, Surjection

\* The item in hand and the ones behind it.
LEMMA TodoFacts ==
    ASSUME todo \in Seq(Items), todo # <<>>
    PROVE  /\ Len(todo) \in Nat \ {0}
           /\ Item \in Items /\ Item = todo[1]
           /\ Tail(todo) \in Seq(Items) /\ Len(Tail(todo)) = Len(todo) - 1
           /\ \A j \in 1 .. Len(todo) - 1 : Tail(todo)[j] = todo[j + 1]
           /\ Len(todo) # 1 => Tail(todo) # <<>>
<1>1. Len(todo) \in Nat \ {0}
    BY EmptySeq
<1>2. /\ Head(todo) \in Items /\ Tail(todo) \in Seq(Items) /\ Len(Tail(todo)) = Len(todo) - 1
      /\ \A j \in 1 .. Len(Tail(todo)) : Tail(todo)[j] = todo[j + 1]
    BY HeadTailProperties
<1>3. Len(todo) # 1 => Tail(todo) # <<>>
    BY <1>1, <1>2, EmptySeq
<1> QED
    BY <1>1, <1>2, <1>3 DEF Item

\* Nothing in the environment or in GitHub's answers makes an item two things.
LEMMA ItemKinds == /\ \A i \in Items : i # None
                   /\ \A b \in Branches : b # None
                   /\ \A n \in Nat, f \in Items \cup {None} : [base |-> n, file |-> f] \in Branches
BY FilingAssumption DEF FilingAssumption, Branches
-----------------------------------------------------------------------------

Queue == OnceOK /\ FreshOK /\ BumpOK /\ LeftOK /\ ZeroTells

\* file_crasher has returned: what is left stays unmarked, and status 0 is
\* still owed to every item it passed.
LEMMA FinishStep ==
    ASSUME TypeOK, Queue, pc # "done", NEW status \in {"0", "1"}, Finish(status),
           ~IsBump \/ status = "0",
           UNCHANGED <<found, had, marked>>, ever \subseteq ever',
           status = "0" => Item \in ever' \cup had
    PROVE  /\ todo' \in Seq(Items) /\ rc' \in {"0", "1"} /\ exit' \in {"none", "0", "1", "killed"}
           /\ pc' \in {"look", "done"} /\ (pc' # "done" => todo' # <<>>)
           /\ Queue'
<1>1. todo \in Seq(Items) /\ todo # <<>>
    BY DEF TypeOK
<1>2. /\ Len(todo) \in Nat \ {0} /\ Item = todo[1]
      /\ todo' = Tail(todo) /\ todo' \in Seq(Items) /\ Len(todo') = Len(todo) - 1
      /\ \A j \in 1 .. Len(todo) - 1 : todo'[j] = todo[j + 1]
      /\ Len(todo) # 1 => todo' # <<>>
    BY <1>1, TodoFacts DEF Finish
<1>3. /\ rc' = IF status = "0" THEN rc ELSE "1"
      /\ pc' = IF Len(todo) = 1 THEN "done" ELSE "look"
      /\ exit' = IF Len(todo) = 1 THEN rc' ELSE exit
    BY DEF Finish
<1>4. OnceOK'
    BY <1>2 DEF OnceOK, Queue
<1>5. FreshOK'
    BY <1>2, <1>3 DEF FreshOK, Queue
<1>6. \A i \in found : i \in ever \cup had \/ (\E j \in 1 .. Len(todo') : todo'[j] = i) \/ i = Item
                       \/ rc = "1"
    <2> SUFFICES ASSUME NEW i \in found, i \notin ever \cup had, rc # "1", i # Item
                 PROVE  \E j \in 1 .. Len(todo') : todo'[j] = i
        OBVIOUS
    <2>1. PICK j \in 1 .. Len(todo) : todo[j] = i
        BY DEF Queue, LeftOK, TypeOK
    <2>2. j # 1 /\ j - 1 \in 1 .. Len(todo) - 1 /\ (j - 1) + 1 = j
        BY <1>2, <2>1
    <2> QED  BY <1>2, <2>1, <2>2
<1>7. LeftOK' /\ ZeroTells'
    <2>1. \A i \in found : rc' = "0" => i \in ever' \cup had \/ \E j \in 1 .. Len(todo') : todo'[j] = i
        BY <1>3, <1>6
    <2>2. LeftOK'
        BY <2>1 DEF LeftOK
    <2>3. ASSUME pc' = "done", exit' = "0", NEW i \in found'
          PROVE  i \in ever' \cup had'
        <3>1. Len(todo) = 1 /\ rc' = "0"
            BY <1>3, <2>3
        <3>2. ~\E j \in 1 .. Len(todo') : todo'[j] = i
            BY <1>2, <3>1
        <3> QED  BY <2>1, <2>3, <3>1, <3>2
    <2> QED  BY <2>2, <2>3 DEF ZeroTells
<1>8. BumpOK'
    <2> SUFFICES ASSUME pc' # "done"
                 PROVE  /\ \A j \in 1 .. Len(todo') : todo'[j] \notin Bumps
                        /\ ~IsBump'
        BY <1>3 DEF BumpOK
    <2>1. Len(todo) # 1 /\ todo' # <<>>
        BY <1>2, <1>3
    <2>2. \A j \in 1 .. Len(todo') : todo'[j] \notin Bumps
        BY <1>2, <2>1 DEF Queue, BumpOK
    <2>3. Head(todo') = todo'[1] /\ Len(todo') \in Nat \ {0}
        BY <1>2, <2>1, EmptySeq
    <2> QED  BY <2>2, <2>3 DEF IsBump, Item
<1> QED
    BY <1>2, <1>3, <1>4, <1>5, <1>7, <1>8 DEF Queue, TypeOK

-----------------------------------------------------------------------------

\* What a job holds does not change when somebody touches GitHub.
LEMMA QueueFrame ==
    ASSUME Queue, UNCHANGED <<pc, todo, rc, exit, found, had, marked, ever>>
    PROVE  Queue'
BY DEF Queue, OnceOK, FreshOK, BumpOK, LeftOK, ZeroTells, IsBump, Item

\* A step within one item's calls: nothing found is lost sight of.
LEMMA GoStep ==
    ASSUME TypeOK, Queue, pc # "done", NEW step, Go(step),
           step \in {"base", "look", "post", "commit", "create", "merge"},
           UNCHANGED <<found, had>>, ever \subseteq ever',
           step \in {"commit", "create", "merge"} => marked' \in {marked, marked \cup {Item}},
           step \notin {"commit", "create", "merge"} => marked' = marked,
           pc \in {"commit", "create", "merge"} => step \in {"commit", "create", "merge"},
           IsBump /\ step \in {"commit", "create", "merge"} => Item \in marked',
           IsBump /\ step = "merge" => Item \in ever',
           step = "merge" => IsBump
    PROVE  /\ todo' \in Seq(Items) /\ rc' \in {"0", "1"} /\ exit' \in {"none", "0", "1", "killed"}
           /\ todo' # <<>> /\ (pc' = "merge" => IsBump')
           /\ Queue'
<1>1. todo \in Seq(Items) /\ todo # <<>> /\ todo' = todo /\ rc' = rc /\ exit' = exit /\ pc' = step
    BY DEF TypeOK, Go
<1>2. Item' = Item /\ (IsBump' <=> IsBump) /\ Item = todo[1] /\ Len(todo) \in Nat \ {0}
    BY <1>1, TodoFacts DEF IsBump, Item
<1>3. OnceOK' /\ LeftOK' /\ ZeroTells'
    BY <1>1 DEF Queue, OnceOK, LeftOK, ZeroTells
<1>4. BumpOK'
    BY <1>1, <1>2 DEF Queue, BumpOK
<1>5. FreshOK'
    <2> SUFFICES ASSUME NEW j \in 1 .. Len(todo), todo[j] \in marked'
                 PROVE  j = 1 /\ step \in {"commit", "create", "merge"}
        BY <1>1 DEF FreshOK
    <2>1. CASE todo[j] \in marked
        BY <1>1, <2>1 DEF Queue, FreshOK
    <2>2. CASE todo[j] = Item /\ step \in {"commit", "create", "merge"}
        BY <1>2, <2>2 DEF Queue, OnceOK
    <2> QED  BY <2>1, <2>2
<1> QED
    BY <1>1, <1>2, <1>3, <1>4, <1>5 DEF Queue, TypeOK

\* The script exits in the middle of an item.
LEMMA ExitStep ==
    ASSUME TypeOK, Queue, NEW code \in {"0", "1"}, Exit(code),
           UNCHANGED <<found, had>>, ever \subseteq ever',
           code = "0" => \A i \in found : i \in ever' \cup had
    PROVE  /\ todo' \in Seq(Items) /\ rc' \in {"0", "1"} /\ exit' \in {"none", "0", "1", "killed"}
           /\ pc' = "done"
           /\ Queue'
BY DEF Exit, TypeOK, Queue, OnceOK, FreshOK, BumpOK, LeftOK, ZeroTells

\* The same, as TypeOK has it.
JobOK ==
    /\ pc \in {"base", "look", "post", "commit", "create", "merge", "done"}
    /\ todo \in Seq(Items) /\ (pc # "done" => todo # <<>>)
    /\ pc = "merge" => IsBump
    /\ rc \in {"0", "1"} /\ exit \in {"none", "0", "1", "killed"}

GithubOK ==
    /\ tip \in Nat /\ pushes \in 0 .. MaxPush /\ run \in 0 .. MaxRuns /\ base \in Nat
    /\ merged \subseteq Items /\ auto \subseteq Items
    /\ branch \in [Items -> Branches \cup {None}]
    /\ pr \in [Items -> {"none", "open", "closed", "merged"}]
    /\ found \subseteq Items /\ had \subseteq Items /\ marked \subseteq Items /\ ever \subseteq Items
    /\ disturbed \in BOOLEAN

\* The invariant, taken from its parts.
LEMMA Parts == JobOK' /\ GithubOK' /\ OpenOK' /\ BranchOK' /\ Queue' => IInv'
BY DEF IInv, TypeOK, JobOK, GithubOK, Queue

\* Nothing happens to an item while a look, or a read of the base, is made.
LEMMA LookStep == ASSUME IInv, Look PROVE IInv'
<1>1. TypeOK /\ Queue /\ pc = "look" /\ Item \in Items
    BY TodoFacts DEF Look, IInv, Queue, TypeOK
<1>2. GithubOK' /\ OpenOK' /\ BranchOK'
    <2>1. disturbed' \in BOOLEAN /\ base' \in Nat
        BY DEF Look, Sure, IInv, TypeOK
    <2>2. UNCHANGED <<github, run, history>>
        BY DEF Look
    <2> QED  BY <2>1, <2>2 DEF IInv, TypeOK, GithubOK, OpenOK, BranchOK, github, history
<1>3. JobOK' /\ Queue'
    <2>1. CASE branch[Item] # None /\ Finish("0")
        <3>1. Item \in had
            BY <1>1, <2>1, TodoFacts DEF IInv, BranchOK, Queue, FreshOK, TypeOK
        <3> QED  BY <1>1, <2>1, <3>1, FinishStep DEF Look, history, JobOK
    <2>2. CASE Go(IF IsBump THEN "base" ELSE "post")
        BY <1>1, <2>2, GoStep DEF Look, history, JobOK, Go
    <2> QED  BY <2>1, <2>2 DEF Look, Sure
<1> QED  BY <1>2, <1>3, Parts

LEMMA ReadBaseStep == ASSUME IInv, ReadBase PROVE IInv'
<1>1. TypeOK /\ Queue /\ pc = "base" /\ Item \in Items
    BY TodoFacts DEF ReadBase, IInv, Queue, TypeOK
<1>2. GithubOK' /\ OpenOK' /\ BranchOK'
    <2>1. disturbed' \in BOOLEAN /\ base' \in Nat
        BY DEF ReadBase, Sure, IInv, TypeOK
    <2>2. UNCHANGED <<github, run, history>>
        BY DEF ReadBase
    <2> QED  BY <2>1, <2>2 DEF IInv, TypeOK, GithubOK, OpenOK, BranchOK, github, history
<1>3. JobOK' /\ Queue'
    <2>1. CASE Go(IF IsBump THEN "post" ELSE "look")
        BY <1>1, <2>1, GoStep DEF ReadBase, history, JobOK, Go
    <2>2. CASE Exit("1")
        BY <1>1, <2>2, ExitStep DEF ReadBase, history, JobOK
    <2> QED  BY <2>1, <2>2 DEF ReadBase, Sure
<1> QED  BY <1>2, <1>3, Parts

\* POST makes a branch for an item that has none, so for none with an open pull
\* request.
LEMMA PostStep == ASSUME IInv, Post PROVE IInv'
<1>1. TypeOK /\ Queue /\ pc = "post" /\ Item \in Items
    BY TodoFacts DEF Post, IInv, Queue, TypeOK
<1>2. /\ UNCHANGED <<tip, merged, pr, auto, pushes, run, base, found, had, ever>>
      /\ disturbed' \in BOOLEAN
    BY DEF Post, Sure, Lost, Refused, IInv, TypeOK
<1>3. \/ /\ branch[Item] = None
         /\ branch' = [branch EXCEPT ![Item] = [base |-> base, file |-> None]]
         /\ marked' = marked \cup {Item}
      \/ UNCHANGED <<branch, marked>>
    BY DEF Post
<1>4. GithubOK' /\ OpenOK' /\ BranchOK'
    <2>1. [base |-> base, file |-> None] \in Branches
        BY ItemKinds DEF IInv, TypeOK
    <2> QED
        BY <1>1, <1>2, <1>3, <2>1 DEF IInv, TypeOK, GithubOK, OpenOK, BranchOK
<1>5. JobOK' /\ Queue'
    <2>1. CASE Go("commit") /\ (IsBump => Item \in marked')
        BY <1>1, <1>2, <1>3, <2>1, GoStep DEF JobOK, Go
    <2>2. CASE Exit("1")
        BY <1>1, <1>2, <2>2, ExitStep DEF JobOK
    <2>3. \/ Go("commit") /\ (IsBump => Item \in marked')
          \/ Exit("1")
        BY DEF Post, Sure, Lost, Refused, FailTo
    <2> QED  BY <2>1, <2>2, <2>3
<1> QED  BY <1>4, <1>5, Parts

\* The commit lands on a branch that has nothing on it.
LEMMA CommitStep == ASSUME IInv, Commit PROVE IInv'
<1>1. TypeOK /\ Queue /\ pc = "commit" /\ Item \in Items
    BY TodoFacts DEF Commit, IInv, Queue, TypeOK
<1>2. /\ UNCHANGED <<tip, merged, pr, auto, pushes, run, base, history>>
      /\ disturbed' \in BOOLEAN
    BY DEF Commit, Sure, Lost, Refused, IInv, TypeOK
<1>3. \/ /\ branch[Item] = [base |-> base, file |-> None]
         /\ branch' = [branch EXCEPT ![Item].file = Item]
      \/ UNCHANGED branch
    BY DEF Commit
<1>4. GithubOK' /\ OpenOK' /\ BranchOK'
    <2>1. CASE UNCHANGED branch
        BY <1>2, <2>1 DEF IInv, TypeOK, GithubOK, OpenOK, BranchOK, history
    <2>2. CASE /\ branch[Item] = [base |-> base, file |-> None]
               /\ branch' = [branch EXCEPT ![Item].file = Item]
        <3>1. base \in Nat /\ branch[Item] \in Branches /\ branch[Item] # None
            BY <2>2, ItemKinds DEF IInv, TypeOK
        <3>2. branch' = [branch EXCEPT ![Item] = [base |-> base, file |-> Item]]
            <4>1. [branch[Item] EXCEPT !.file = Item] = [base |-> base, file |-> Item]
                BY <2>2
            <4> QED  BY <2>2, <4>1
        <3>3. [base |-> base, file |-> Item] \in Branches /\ Item # None
            BY <1>1, <3>1, ItemKinds
        <3>4. /\ branch' \in [Items -> Branches \cup {None}]
              /\ branch'[Item] # None /\ branch'[Item].file # None
              /\ \A i \in Items : i # Item => branch'[i] = branch[i]
            BY <1>1, <3>2, <3>3, ItemKinds DEF TypeOK
        <3>5. OpenOK' /\ BranchOK'
            BY <1>2, <3>1, <3>4 DEF IInv, OpenOK, BranchOK, history
        <3> QED
            BY <1>2, <3>4, <3>5 DEF IInv, TypeOK, GithubOK, history
    <2> QED  BY <1>3, <2>1, <2>2
<1>5. JobOK' /\ Queue'
    <2>1. CASE Go("create")
        <3>1. IsBump => Item \in marked
            BY <1>1 DEF Queue, BumpOK
        <3> QED  BY <1>1, <1>2, <2>1, <3>1, GoStep DEF JobOK, Go, history
    <2>2. CASE Exit("1")
        BY <1>1, <1>2, <2>2, ExitStep DEF JobOK, history
    <2>3. Go("create") \/ Exit("1")
        BY DEF Commit, Sure, Lost, Refused, FailTo
    <2> QED  BY <2>1, <2>2, <2>3
<1> QED  BY <1>4, <1>5, Parts

\* A pull request opens on a branch with something on it.
LEMMA CreateStep == ASSUME IInv, Create PROVE IInv'
<1>1. TypeOK /\ Queue /\ pc = "create" /\ Item \in Items
    BY TodoFacts DEF Create, IInv, Queue, TypeOK
<1>2. /\ UNCHANGED <<tip, merged, branch, auto, pushes, run, base, found, had, marked>>
      /\ disturbed' \in BOOLEAN
    BY DEF Create, IInv, TypeOK
<1>3. \/ /\ Creatable(Item)
         /\ pr' = [pr EXCEPT ![Item] = "open"] /\ ever' = ever \cup {Item}
         /\ Created \/ NotCreated
      \/ UNCHANGED <<pr, ever>> /\ NotCreated
    BY DEF Create
<1>4. GithubOK' /\ OpenOK' /\ BranchOK'
    BY <1>1, <1>2, <1>3 DEF Creatable, IInv, TypeOK, GithubOK, OpenOK, BranchOK
<1>5. JobOK' /\ Queue'
    <2>1. IsBump => Item \in marked
        BY <1>1 DEF Queue, BumpOK
    <2>2. CASE Go("merge") /\ IsBump /\ Item \in ever'
        BY <1>1, <1>2, <1>3, <2>1, <2>2, GoStep DEF JobOK, Go
    <2>3. CASE Finish("0") /\ ~IsBump /\ Item \in ever'
        BY <1>1, <1>2, <1>3, <2>3, FinishStep DEF JobOK
    <2>4. CASE Exit("1")
        BY <1>1, <1>2, <1>3, <2>4, ExitStep DEF JobOK
    <2>5. CASE Finish("1") /\ ~IsBump
        BY <1>1, <1>2, <1>3, <2>5, FinishStep DEF JobOK
    <2>6. \/ Go("merge") /\ IsBump /\ Item \in ever'
          \/ Finish("0") /\ ~IsBump /\ Item \in ever'
          \/ Exit("1")
          \/ Finish("1") /\ ~IsBump
        BY <1>3 DEF Created, NotCreated
    <2> QED  BY <2>2, <2>3, <2>4, <2>5, <2>6
<1> QED  BY <1>4, <1>5, Parts

\* The bump that reaches its merge is all the job found, and was opened.
LEMMA MergeStep == ASSUME IInv, Merge PROVE IInv'
<1>1. TypeOK /\ Queue /\ pc = "merge" /\ Item \in Items /\ Item = todo[1] /\ IsBump
    BY TodoFacts DEF Merge, IInv, Queue, TypeOK
<1>2. /\ UNCHANGED <<branch, pushes, run, base, history>>
      /\ disturbed' \in BOOLEAN /\ tip' \in {tip, tip + 1}
    BY DEF Merge, IInv, TypeOK
<1>3. /\ auto' \in {auto, auto \cup {Item}} /\ merged' \in {merged, merged \cup {Item}}
      /\ pr' \in {pr, [pr EXCEPT ![Item] = "merged"]}
      /\ Exit("0") \/ Exit("1")
    BY DEF Merge
<1>4. GithubOK' /\ OpenOK' /\ BranchOK'
    BY <1>1, <1>2, <1>3 DEF IInv, TypeOK, GithubOK, OpenOK, BranchOK, history
<1>5. \A i \in found : i \in ever \cup had
    <2>1. Len(todo) = 1 /\ rc = "0" /\ Item \in ever
        BY <1>1, TodoFacts DEF Queue, BumpOK, IsBump, TypeOK
    <2> QED  BY <1>1, <2>1 DEF Queue, LeftOK
<1>6. JobOK' /\ Queue'
    BY <1>1, <1>2, <1>3, <1>5, ExitStep DEF JobOK, history
<1> QED  BY <1>4, <1>6, Parts

\* A job begins with what it found, in some order.
LEMMA StartStep == ASSUME IInv, Start PROVE IInv'
<1>1. /\ UNCHANGED <<github, base, ever>> /\ run' = run + 1 /\ run' \in 0 .. MaxRuns
      /\ pc' \in {"look", "base"} /\ rc' = "0" /\ exit' = "none" /\ disturbed' = FALSE
      /\ marked' = {} /\ had' = {i \in Items : branch[i] # None}
    BY FilingAssumption DEF Start, IInv, TypeOK, FilingAssumption
<1>2. found' \subseteq Items /\ found' # {} /\ IsFiniteSet(found')
    <2>1. CASE found' \in (SUBSET (Crashers \ merged)) \ {{}}
        <3>1. found' \in SUBSET Crashers /\ IsFiniteSet(Crashers)
            BY <2>1, FilingAssumption DEF FilingAssumption
        <3>2. IsFiniteSet(found')
            BY <3>1, FS_Subset
        <3>3. found' # {}
            BY <2>1
        <3>4. found' \subseteq Items
            BY <3>1 DEF Items
        <3> QED  BY <3>2, <3>3, <3>4
    <2>2. CASE found' \in {{v} : v \in Bumps \ merged}
        <3>1. PICK v \in Bumps : found' = {v}
            BY <2>2
        <3>2. IsFiniteSet({v})
            BY FS_Singleton
        <3> QED  BY <3>1, <3>2 DEF Items
    <2>3. \/ found' \in (SUBSET (Crashers \ merged)) \ {{}}
          \/ found' \in {{v} : v \in Bumps \ merged}
        BY DEF Start
    <2> QED  BY <2>1, <2>2, <2>3
<1>3. /\ todo' \in Seq(found') /\ Len(todo') = Cardinality(found')
      /\ \A j, k \in 1 .. Len(todo') : todo'[j] = todo'[k] => j = k
      /\ \A i \in found' : \E j \in 1 .. Len(todo') : todo'[j] = i
      /\ todo' # <<>>
    BY <1>2, OrderOfSet DEF Start
<1>4. todo' \in Seq(Items)
    BY <1>2, <1>3, SeqMonotonic
<1>5. GithubOK' /\ OpenOK' /\ BranchOK'
    BY <1>1, <1>2 DEF IInv, TypeOK, GithubOK, OpenOK, BranchOK, github
<1>6. \A j \in 1 .. Len(todo') : todo'[j] \in Bumps => Len(todo') = 1
    <2> SUFFICES ASSUME NEW j \in 1 .. Len(todo'), todo'[j] \in Bumps
                 PROVE  Len(todo') = 1
        OBVIOUS
    <2>1. todo'[j] \in found'
        BY <1>3, ElementOfSeq
    <2>2. PICK v \in Bumps : found' = {v}
        BY <2>1, FilingAssumption DEF Start, FilingAssumption
    <2> QED  BY <1>3, <2>2, FS_Singleton
<1>7. JobOK' /\ Queue'
    BY <1>1, <1>3, <1>4, <1>6 DEF JobOK, Queue, OnceOK, FreshOK, BumpOK, LeftOK, ZeroTells
<1> QED  BY <1>5, <1>7, Parts

\* What others do moves no branch but that of a pull request that is over.
LEMMA OthersStep ==
    ASSUME IInv,
           Push \/ Kill \/ UNCHANGED vars \/ \E i \in Items : MergePR(i) \/ Close(i) \/ Delete(i)
    PROVE  IInv'
<1>1. CASE Push \/ UNCHANGED vars
    <2>1. /\ UNCHANGED <<merged, branch, pr, auto, run, pc, todo, base, rc, exit, history, disturbed>>
          /\ tip' \in {tip, tip + 1}
        BY <1>1 DEF Push, vars, github
    <2>2. tip' \in Nat /\ pushes' \in 0 .. MaxPush
        BY <1>1, <2>1, FilingAssumption DEF Push, vars, github, IInv, TypeOK, FilingAssumption
    <2>3. GithubOK' /\ OpenOK' /\ BranchOK'
        BY <2>1, <2>2 DEF IInv, TypeOK, GithubOK, OpenOK, BranchOK, history
    <2>4. JobOK' /\ Queue'
        BY <2>1, QueueFrame DEF IInv, TypeOK, JobOK, Queue, history, IsBump, Item
    <2> QED  BY <2>3, <2>4, Parts
<1>2. CASE Kill
    BY <1>2, Parts
    DEF Kill, github, history, IInv, TypeOK, JobOK, GithubOK, OpenOK, BranchOK, Queue, OnceOK,
        FreshOK, BumpOK, LeftOK, ZeroTells
<1>3. ASSUME NEW i \in Items, MergePR(i) \/ Close(i) \/ Delete(i)
      PROVE  IInv'
    <2>1. /\ UNCHANGED <<pushes, run, pc, todo, base, rc, exit, history>>
          /\ disturbed' = TRUE
        BY <1>3 DEF MergePR, Close, Delete
    <2>2. /\ tip' \in {tip, tip + 1} /\ merged' \in {merged, merged \cup {i}}
          /\ auto' \in {auto, auto \ {i}}
          /\ \/ branch' = branch /\ pr' \in {[pr EXCEPT ![i] = "merged"], [pr EXCEPT ![i] = "closed"]}
             \/ branch' = [branch EXCEPT ![i] = None] /\ pr' = pr /\ pr[i] # "open"
        BY <1>3 DEF MergePR, Close, Delete
    <2>3. GithubOK' /\ OpenOK' /\ BranchOK'
        BY <2>1, <2>2 DEF IInv, TypeOK, GithubOK, OpenOK, BranchOK, history
    <2>4. JobOK' /\ Queue'
        BY <2>1, QueueFrame DEF IInv, TypeOK, JobOK, Queue, history, IsBump, Item
    <2> QED  BY <2>3, <2>4, Parts
<1> QED  BY <1>1, <1>2, <1>3

-----------------------------------------------------------------------------

\* Nothing has been found, filed or marked yet.
LEMMA InitHolds == Init => IInv
<1> SUFFICES ASSUME Init
             PROVE  IInv
    OBVIOUS
<1>1. todo \in Seq(Items) /\ Len(todo) = 0
    BY EmptySeq DEF Init
<1>2. TypeOK
    <2>1. 0 \in 0 .. MaxPush /\ 0 \in 0 .. MaxRuns
        BY FilingAssumption DEF FilingAssumption
    <2>2. /\ branch \in [Items -> Branches \cup {None}]
          /\ pr \in [Items -> {"none", "open", "closed", "merged"}]
        BY DEF Init
    <2> QED  BY <1>1, <2>1, <2>2 DEF Init, TypeOK
<1>3. OpenOK /\ BranchOK /\ OnceOK /\ FreshOK /\ BumpOK /\ LeftOK /\ ZeroTells
    BY <1>1 DEF Init, OpenOK, BranchOK, OnceOK, FreshOK, BumpOK, LeftOK, ZeroTells
<1> QED  BY <1>2, <1>3 DEF IInv

\* The inductive invariant holds in every behaviour.
LEMMA Invariance == Spec => []IInv
<1>1. IInv /\ [Next]_vars => IInv'
    BY StartStep, OthersStep, ReadBaseStep, LookStep, PostStep, CommitStep, CreateStep, MergeStep
    DEF Next, Script
<1> QED
    BY InitHolds, <1>1, PTL DEF Spec

\* The state of every job and of GitHub is well typed.
THEOREM TypeCorrect == Spec => []TypeOK
<1>1. IInv => TypeOK
    BY DEF IInv
<1> QED
    BY <1>1, Invariance, PTL

\* Status 0 means that everything found was opened once or had its branch before.
THEOREM StatusTells == Spec => []ZeroTells
<1>1. IInv => ZeroTells
    BY DEF IInv
<1> QED
    BY <1>1, Invariance, PTL

\* No step of any job, nor of anybody else, moves the branch of a pull request
\* that is open.
THEOREM OpenIsLeftAlone == Spec => NotClobbered
<1> DEFINE Kept == \A i \in Items : pr[i] = "open" => branch'[i] = branch[i]
<1>1. IInv /\ [Next]_vars => Kept \/ UNCHANGED vars
    <2> SUFFICES ASSUME IInv, [Next]_vars, ~UNCHANGED branch
                 PROVE  Kept
        BY DEF vars, github
    <2>1. CASE Post
        <3>1. /\ Item \in Items /\ branch[Item] = None
              /\ branch' = [branch EXCEPT ![Item] = [base |-> base, file |-> None]]
            BY <2>1, TodoFacts DEF Post, IInv, TypeOK
        <3> QED  BY <3>1 DEF IInv, TypeOK, OpenOK
    <2>2. CASE Commit
        <3>1. /\ Item \in Items /\ branch[Item] = [base |-> base, file |-> None]
              /\ branch' = [branch EXCEPT ![Item].file = Item]
            BY <2>2, TodoFacts DEF Commit, IInv, TypeOK
        <3>2. pr[Item] # "open"
            BY <3>1 DEF IInv, OpenOK
        <3> QED  BY <3>1, <3>2 DEF IInv, TypeOK
    <2>3. CASE \E i \in Items : MergePR(i) \/ Close(i) \/ Delete(i)
        BY <2>3 DEF MergePR, Close, Delete, IInv, TypeOK
    <2> QED
        BY <2>1, <2>2, <2>3
        DEF Next, Script, Start, Push, Kill, ReadBase, Look, Create, Merge, vars, github
<1>2. IInv /\ [Next]_vars => [Kept]_vars
    BY <1>1
<1> QED
    BY <1>2, Invariance, PTL DEF Spec, NotClobbered

\* A bump's pull request is opened by the job that made its branch.
THEOREM BumpsFiledByTheirMaker == Spec => BumpFiledByItsMaker
<1> DEFINE Own == \A v \in Bumps : pr[v] # "open" /\ pr'[v] = "open" => v \in marked
<1>1. IInv /\ [Next]_vars => [Own]_vars
    <2> SUFFICES ASSUME IInv, [Next]_vars, NEW v \in Bumps, pr[v] # "open", pr'[v] = "open"
                 PROVE  v \in marked
        OBVIOUS
    <2>0. v \in Items
        BY DEF Items
    <2>1. CASE Create
        <3>1. Item \in Items /\ pc = "create"
              /\ (pr' = [pr EXCEPT ![Item] = "open"] \/ pr' = pr)
            BY <2>1, TodoFacts DEF Create, IInv, TypeOK
        <3>2. v = Item
            BY <2>0, <3>1 DEF IInv, TypeOK
        <3> QED  BY <3>1, <3>2 DEF IInv, BumpOK, IsBump
    <2>2. CASE Merge
        <3>1. Item \in Items /\ (pr' = [pr EXCEPT ![Item] = "merged"] \/ pr' = pr)
            BY <2>2, TodoFacts DEF Merge, IInv, TypeOK
        <3> QED  BY <2>0, <3>1 DEF IInv, TypeOK
    <2>3. CASE \E i \in Items : MergePR(i) \/ Close(i) \/ Delete(i)
        BY <2>0, <2>3 DEF MergePR, Close, Delete, IInv, TypeOK
    <2> QED
        BY <2>1, <2>2, <2>3
        DEF Next, Script, Start, Push, Kill, ReadBase, Look, Post, Commit, vars, github
<1> QED
    BY <1>1, Invariance, PTL DEF Spec, BumpFiledByItsMaker
-----------------------------------------------------------------------------
(* What a job that nothing disturbs has done so far.                          *)

\* The item is filed as UndisturbedFiles has it.
Filed(i) ==
    /\ branch[i] # None /\ branch[i].file = i
    /\ i \in Crashers => pr[i] = "open"
    /\ i \in Bumps => pr[i] = "merged" \/ (pr[i] = "open" /\ i \in auto)

Left(i) == pc # "done" /\ \E j \in 1 .. Len(todo) : todo[j] = i

StatusOK == IF pc = "done" THEN exit = "0" ELSE rc = "0"

\* The item in hand is as far as the script says it is.
CourseOK ==
    /\ pc = "post" \/ (pc = "base" /\ IsBump) => branch[Item] = None
    /\ pc = "commit" => branch[Item] = [base |-> base, file |-> None]
    /\ pc \in {"create", "merge"} => branch[Item] # None /\ branch[Item].file = Item
    /\ pc = "create" => pr[Item] # "open"
    /\ pc = "merge" => pr[Item] = "open"

\* What had no branch before the job is filed or left to do.
ShelfOK == \A i \in found \ had : Filed(i) \/ Left(i)

FiledOK == run # 0 /\ ~disturbed => StatusOK /\ ShelfOK /\ CourseOK

-----------------------------------------------------------------------------

\* The calls for one item leave the others as filed as they were.
LEMMA OthersStayFiled ==
    ASSUME TypeOK, pc # "done",
           \A i \in Items \ {Item} :
              branch'[i] = branch[i] /\ pr'[i] = pr[i] /\ (i \in auto => i \in auto')
    PROVE  \A i \in Items \ {Item} : Filed(i) => Filed(i)'
BY DEF Filed, TypeOK

\* A step within one item's calls.
LEMMA GoFiled ==
    ASSUME IInv, StatusOK, ShelfOK, pc # "done", NEW step, Go(step), step # "done",
           UNCHANGED <<found, had>>,
           \A i \in Items \ {Item} :
              branch'[i] = branch[i] /\ pr'[i] = pr[i] /\ (i \in auto => i \in auto')
    PROVE  StatusOK' /\ ShelfOK' /\ Item' = Item
<1>1. /\ TypeOK /\ Len(todo) \in Nat \ {0} /\ Item = todo[1]
      /\ todo' = todo /\ rc' = rc /\ pc' # "done"
    BY TodoFacts DEF IInv, TypeOK, Go
<1>2. StatusOK' /\ Item' = Item
    BY <1>1 DEF StatusOK, Item
<1>3. ASSUME NEW i \in found', i \notin had'
      PROVE  Filed(i)' \/ Left(i)'
    <2>1. i \in Items /\ (Filed(i) \/ Left(i))
        BY <1>1, <1>3 DEF ShelfOK, TypeOK
    <2>2. Left(i) \/ i = Item => Left(i)'
        BY <1>1 DEF Left
    <2> QED  BY <1>1, <2>1, <2>2, OthersStayFiled
<1> QED  BY <1>2, <1>3 DEF ShelfOK

\* file_crasher has returned 0 for an item that is filed, or had its branch.
LEMMA FinishFiled ==
    ASSUME IInv, StatusOK, ShelfOK, pc # "done", Finish("0"),
           UNCHANGED <<found, had>>, NEW item, item = Item, item \in had \/ Filed(item)',
           \A i \in Items \ {Item} :
              branch'[i] = branch[i] /\ pr'[i] = pr[i] /\ (i \in auto => i \in auto')
    PROVE  StatusOK' /\ ShelfOK' /\ pc' \in {"look", "done"}
<1>1. /\ TypeOK /\ Len(todo) \in Nat \ {0} /\ Item = todo[1] /\ Item \in Items
      /\ todo' = Tail(todo) /\ Len(todo') = Len(todo) - 1
      /\ \A j \in 1 .. Len(todo) - 1 : todo'[j] = todo[j + 1]
    BY TodoFacts DEF IInv, TypeOK, Finish
<1>2. /\ rc' = rc /\ pc' = IF Len(todo) = 1 THEN "done" ELSE "look"
      /\ Len(todo) = 1 => exit' = rc'
    BY DEF Finish
<1>3. StatusOK'
    BY <1>2 DEF StatusOK
<1>4. ASSUME NEW i \in found', i \notin had'
      PROVE  Filed(i)' \/ Left(i)'
    <2>1. i \in Items /\ (Filed(i) \/ Left(i))
        BY <1>1, <1>4 DEF ShelfOK, TypeOK
    <2>2. CASE i = item
        BY <1>4, <2>2
    <2>3. CASE i # Item /\ Filed(i)
        BY <1>1, <2>1, <2>3, OthersStayFiled
    <2>4. CASE i # Item /\ Left(i)
        <3>1. PICK j \in 1 .. Len(todo) : todo[j] = i
            BY <2>4 DEF Left
        <3>2. j # 1 /\ j - 1 \in 1 .. Len(todo) - 1 /\ (j - 1) + 1 = j
            BY <1>1, <2>4, <3>1
        <3>3. Len(todo) # 1 /\ j - 1 \in 1 .. Len(todo') /\ todo'[j - 1] = i
            BY <1>1, <3>1, <3>2
        <3> QED  BY <1>2, <3>3 DEF Left
    <2> QED  BY <2>1, <2>2, <2>3, <2>4
<1> QED  BY <1>2, <1>3, <1>4 DEF ShelfOK

\* What was read of the branch is still true when the job acts on it.
LEMMA LookFiled == ASSUME IInv, FiledOK, Look PROVE FiledOK'
<1> SUFFICES ASSUME run # 0, ~disturbed, ~disturbed'
             PROVE  StatusOK' /\ ShelfOK' /\ CourseOK'
    BY DEF Look, Sure, FiledOK
<1>1. /\ StatusOK /\ ShelfOK /\ pc = "look" /\ TypeOK /\ Item \in Items /\ Item = todo[1]
      /\ UNCHANGED <<branch, pr, auto, found, had>>
    BY TodoFacts DEF Look, FiledOK, IInv, TypeOK, github, history
<1>2. CASE branch[Item] # None /\ Finish("0")
    <2>1. Item \in had
        BY <1>1, <1>2, TodoFacts DEF IInv, BranchOK, FreshOK, TypeOK
    <2>2. StatusOK' /\ ShelfOK' /\ pc' \in {"look", "done"}
        BY <1>1, <1>2, <2>1, FinishFiled
    <2> QED  BY <2>2 DEF CourseOK
<1>3. CASE branch[Item] = None /\ Go(IF IsBump THEN "base" ELSE "post")
    <2>1. StatusOK' /\ ShelfOK' /\ Item' = Item
        BY <1>1, <1>3, GoFiled
    <2>2. pc' \in {"base", "post"} /\ branch'[Item'] = None
        BY <1>1, <1>3, <2>1 DEF Go
    <2> QED  BY <2>1, <2>2 DEF CourseOK
<1> QED  BY <1>2, <1>3 DEF Look, Sure

LEMMA ReadBaseFiled == ASSUME IInv, FiledOK, ReadBase PROVE FiledOK'
<1> SUFFICES ASSUME run # 0, ~disturbed, ~disturbed'
             PROVE  StatusOK' /\ ShelfOK' /\ CourseOK'
    BY DEF ReadBase, Sure, FiledOK
<1>1. /\ StatusOK /\ ShelfOK /\ CourseOK /\ pc = "base" /\ UNCHANGED <<branch, pr, auto, found, had>>
      /\ Go(IF IsBump THEN "post" ELSE "look")
    BY DEF ReadBase, Sure, FiledOK, github, history
<1>2. StatusOK' /\ ShelfOK' /\ Item' = Item
    BY <1>1, GoFiled
<1>3. pc' \in {"look", "post"} /\ (pc' = "post" => branch'[Item'] = None)
    BY <1>1, <1>2 DEF Go, CourseOK
<1> QED  BY <1>2, <1>3 DEF CourseOK

LEMMA PostFiled == ASSUME IInv, FiledOK, Post PROVE FiledOK'
<1> SUFFICES ASSUME run # 0, ~disturbed, ~disturbed'
             PROVE  StatusOK' /\ ShelfOK' /\ CourseOK'
    BY DEF Post, Sure, Lost, Refused, FiledOK
<1>1. /\ StatusOK /\ ShelfOK /\ CourseOK /\ pc = "post" /\ TypeOK /\ Item \in Items
      /\ UNCHANGED <<pr, auto, base, found, had>>
    BY TodoFacts DEF Post, FiledOK, IInv, TypeOK
<1>2. branch' = [branch EXCEPT ![Item] = [base |-> base, file |-> None]] /\ Go("commit")
    BY <1>1 DEF Post, Sure, Lost, CourseOK
<1>3. /\ branch'[Item] = [base |-> base, file |-> None]
      /\ \A i \in Items \ {Item} : branch'[i] = branch[i]
    BY <1>1, <1>2 DEF TypeOK
<1>4. StatusOK' /\ ShelfOK' /\ Item' = Item
    BY <1>1, <1>2, <1>3, GoFiled
<1>5. pc' = "commit" /\ branch'[Item'] = [base |-> base', file |-> None]
    BY <1>1, <1>2, <1>3, <1>4 DEF Go
<1> QED  BY <1>4, <1>5 DEF CourseOK

\* The branch the job made has nothing on it, so no open pull request.
LEMMA CommitFiled == ASSUME IInv, FiledOK, Commit PROVE FiledOK'
<1> SUFFICES ASSUME run # 0, ~disturbed, ~disturbed'
             PROVE  StatusOK' /\ ShelfOK' /\ CourseOK'
    BY DEF Commit, Sure, Lost, Refused, FiledOK
<1>1. /\ StatusOK /\ ShelfOK /\ CourseOK /\ pc = "commit" /\ TypeOK /\ Item \in Items
      /\ UNCHANGED <<pr, auto, base, found, had>>
    BY TodoFacts DEF Commit, FiledOK, IInv, TypeOK, history
<1>2. branch[Item] = [base |-> base, file |-> None]
    BY <1>1 DEF CourseOK
<1>3. branch' = [branch EXCEPT ![Item].file = Item] /\ Go("create")
    BY <1>2 DEF Commit, Sure, Lost
<1>4. [branch[Item] EXCEPT !.file = Item] = [base |-> base, file |-> Item]
    BY <1>2
<1>5. /\ branch'[Item] = [base |-> base, file |-> Item]
      /\ \A i \in Items \ {Item} : branch'[i] = branch[i]
    BY <1>1, <1>3, <1>4 DEF TypeOK
<1>6. [base |-> base, file |-> Item] # None /\ pr[Item] # "open"
    BY <1>1, <1>2, ItemKinds DEF IInv, OpenOK, TypeOK
<1>7. StatusOK' /\ ShelfOK' /\ Item' = Item
    BY <1>1, <1>3, <1>5, GoFiled
<1>8. /\ pc' = "create" /\ branch'[Item'] # None /\ branch'[Item'].file = Item'
      /\ pr'[Item'] # "open"
    BY <1>1, <1>3, <1>5, <1>6, <1>7 DEF Go
<1> QED  BY <1>7, <1>8 DEF CourseOK

\* With the input on its branch and no open pull request, one opens.
LEMMA CreateFiled == ASSUME IInv, FiledOK, Create PROVE FiledOK'
<1> SUFFICES ASSUME run # 0, ~disturbed, ~disturbed'
             PROVE  StatusOK' /\ ShelfOK' /\ CourseOK'
    BY DEF Create, FiledOK
<1>1. /\ StatusOK /\ ShelfOK /\ CourseOK /\ pc = "create" /\ TypeOK /\ Item \in Items
      /\ UNCHANGED <<branch, auto, found, had>>
    BY TodoFacts DEF Create, FiledOK, IInv, TypeOK
<1>2. branch[Item] # None /\ branch[Item].file = Item /\ Creatable(Item)
    BY <1>1, ItemKinds DEF CourseOK, Creatable
<1>3. pr' = [pr EXCEPT ![Item] = "open"] /\ Created
    BY <1>2 DEF Create
<1>4. pr'[Item] = "open" /\ \A i \in Items \ {Item} : pr'[i] = pr[i]
    BY <1>1, <1>3 DEF TypeOK
<1>5. CASE IsBump
    <2>1. Go("merge")
        BY <1>3, <1>5 DEF Created
    <2>2. StatusOK' /\ ShelfOK' /\ Item' = Item
        BY <1>1, <1>4, <2>1, GoFiled
    <2>3. pc' = "merge" /\ branch'[Item'] # None /\ branch'[Item'].file = Item' /\ pr'[Item'] = "open"
        BY <1>1, <1>2, <1>4, <2>1, <2>2 DEF Go
    <2> QED  BY <2>2, <2>3 DEF CourseOK
<1>6. CASE ~IsBump
    <2>1. Finish("0")
        BY <1>3, <1>6 DEF Created
    <2>2. PICK i : i = Item
        OBVIOUS
    <2>3. Filed(i)'
        BY <1>1, <1>2, <1>4, <1>6, <2>2 DEF Filed, IsBump
    <2>4. StatusOK' /\ ShelfOK' /\ pc' \in {"look", "done"}
        BY <1>1, <1>4, <2>1, <2>2, <2>3, FinishFiled
    <2> QED  BY <2>4 DEF CourseOK
<1> QED  BY <1>5, <1>6

\* The bump, alone in its job, is queued or merged.
LEMMA MergeFiled == ASSUME IInv, FiledOK, Merge PROVE FiledOK'
<1> SUFFICES ASSUME run # 0, ~disturbed, ~disturbed'
             PROVE  StatusOK' /\ ShelfOK' /\ CourseOK'
    BY DEF Merge, FiledOK
<1>1. /\ StatusOK /\ ShelfOK /\ CourseOK /\ pc = "merge" /\ TypeOK /\ Item \in Items
      /\ UNCHANGED <<branch, found, had>> /\ IsBump /\ Item = todo[1] /\ Len(todo) = 1
    BY TodoFacts DEF Merge, FiledOK, IInv, TypeOK, BumpOK, IsBump, history
<1>2. branch[Item] # None /\ branch[Item].file = Item /\ pr[Item] = "open"
    BY <1>1 DEF CourseOK
<1>3. /\ Exit("0")
      /\ \/ auto' = auto \cup {Item} /\ pr' = pr
         \/ auto' = auto /\ pr' = [pr EXCEPT ![Item] = "merged"]
    BY <1>2 DEF Merge
<1>4. /\ pr'[Item] = "merged" \/ (pr'[Item] = "open" /\ Item \in auto')
      /\ \A i \in Items \ {Item} : pr'[i] = pr[i] /\ (i \in auto => i \in auto')
    BY <1>1, <1>2, <1>3 DEF TypeOK
<1>5. pc' = "done" /\ exit' = "0"
    BY <1>3 DEF Exit
<1>6. ASSUME NEW i \in found', i \notin had'
      PROVE  Filed(i)'
    <2>1. i \in Items /\ (Filed(i) \/ Left(i))
        BY <1>1, <1>6 DEF ShelfOK, TypeOK
    <2>2. Left(i) => i = Item
        BY <1>1 DEF Left
    <2>3. CASE i = Item
        <3>1. i \in Bumps /\ i \notin Crashers
            BY <1>1, <2>3, FilingAssumption DEF IsBump, FilingAssumption
        <3> QED  BY <1>1, <1>2, <1>4, <2>3, <3>1 DEF Filed
    <2> QED  BY <1>1, <1>4, <2>1, <2>2, <2>3, OthersStayFiled
<1> QED  BY <1>5, <1>6 DEF StatusOK, ShelfOK, CourseOK

\* A job begins with all it found left to do.
LEMMA StartFiled == ASSUME IInv, Start PROVE FiledOK'
<1>1. pc' \in {"look", "base"} /\ rc' = "0" /\ todo' # <<>>
    BY StartStep DEF Start, IInv, TypeOK
<1>2. found' \subseteq Items /\ IsFiniteSet(found') /\ todo' = SetToSeq(found')
    <2>1. found' \subseteq Items /\ todo' = SetToSeq(found')
        BY StartStep DEF Start, IInv, TypeOK
    <2>2. CASE found' \in SUBSET Crashers
        <3>1. IsFiniteSet(Crashers)
            BY FilingAssumption DEF FilingAssumption
        <3> QED  BY <2>1, <2>2, <3>1, FS_Subset
    <2>3. ASSUME NEW v \in Bumps, found' = {v}
          PROVE  IsFiniteSet(found')
        BY <2>3, FS_Singleton
    <2>4. found' \in SUBSET Crashers \/ \E v \in Bumps : found' = {v}
        BY DEF Start
    <2> QED  BY <2>1, <2>2, <2>3, <2>4
<1>3. \A i \in found' : \E j \in 1 .. Len(todo') : todo'[j] = i
    BY <1>2, OrderOfSet
<1>4. ShelfOK'
    BY <1>1, <1>3 DEF ShelfOK, Left
<1>5. pc' = "base" => ~IsBump'
    <2> SUFFICES ASSUME pc' = "base"
                 PROVE  ~IsBump'
        OBVIOUS
    <2>1. found' \subseteq Crashers
        BY <1>2 DEF Start
    <2>2. todo' \in Seq(found')
        BY <1>2, OrderOfSet
    <2>3. Head(todo') \in found'
        BY <1>1, <2>2, HeadTailProperties
    <2> QED  BY <2>1, <2>3, FilingAssumption DEF FilingAssumption, IsBump, Item
<1> QED  BY <1>1, <1>4, <1>5 DEF FiledOK, StatusOK, CourseOK

\* Whoever touches an item disturbs the job; a push to main does not matter.
LEMMA OthersFiled ==
    ASSUME FiledOK,
           Push \/ Kill \/ UNCHANGED vars \/ \E i \in Items : MergePR(i) \/ Close(i) \/ Delete(i)
    PROVE  FiledOK'
<1>1. CASE Push \/ UNCHANGED vars
    <2>1. UNCHANGED <<branch, pr, auto, run, pc, todo, base, rc, exit, found, had, disturbed>>
        BY <1>1 DEF Push, vars, github, history
    <2>2. Item' = Item /\ (IsBump' <=> IsBump)
        BY <2>1 DEF Item, IsBump
    <2>3. (StatusOK' <=> StatusOK) /\ (CourseOK' <=> CourseOK)
        BY <2>1, <2>2 DEF StatusOK, CourseOK
    <2>4. ShelfOK => ShelfOK'
        BY <2>1 DEF ShelfOK, Filed, Left
    <2> QED  BY <2>1, <2>3, <2>4 DEF FiledOK
<1>2. CASE Kill \/ \E i \in Items : MergePR(i) \/ Close(i) \/ Delete(i)
    BY <1>2 DEF Kill, MergePR, Close, Delete, FiledOK
<1> QED  BY <1>1, <1>2

\* A run nothing disturbs exits with 0, and each thing it found that had no
\* branch before it is on an open pull request, the bump's merged or queued.
THEOREM UndisturbedJobFiles == Spec => []UndisturbedFiles
<1>1. Init => FiledOK
    BY DEF Init, FiledOK
<1>2. IInv /\ FiledOK /\ [Next]_vars => FiledOK'
    BY StartFiled, OthersFiled, ReadBaseFiled, LookFiled, PostFiled, CommitFiled, CreateFiled,
       MergeFiled
    DEF Next, Script
<1>3. FiledOK => UndisturbedFiles
    BY DEF FiledOK, UndisturbedFiles, StatusOK, ShelfOK, Left, Filed
<1> QED
    BY <1>1, <1>2, <1>3, Invariance, PTL DEF Spec

=============================================================================
