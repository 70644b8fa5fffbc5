------------------------------- MODULE MCReads -------------------------------
\* Eight commits: 1, 2 and 3 on one line, 4 forced over 2 and 3; 5 with more
\* files than are read, 6 with a tree too large, 7 without any of these files, 8 a plugin that
\* declares what is not there.
EXTENDS Reads

MCLine == <<<<1>>, <<2, 1>>, <<3, 2, 1>>, <<4, 1>>, <<5>>, <<6, 5>>, <<7>>, <<8, 7>>>>

MCAuthor == <<"a", "b", "c", "d", "a", "b", "a", "c">>

F(text) == [mode |-> "100644", text |-> text]
X(text) == [mode |-> "100755", text |-> text]
L(text) == [mode |-> "120000", text |-> text]

Project == <<".claude", "skills", "p", "SKILL.md">>
Extra == <<"extra", "a", "SKILL.md">>

First ==
    (PluginManifest :> F("m1")) @@ (Project :> F("t1")) @@ (Extra :> F("t1")) @@ (DefaultHooks :> F("t1"))
    @@ (<<"commands", "c.md">> :> F("t1")) @@ (<<"flake.nix">> :> F("call")) @@ (<<"go.mod">> :> F("t1"))
    @@ (<<".ci", "run">> :> X("sh")) @@ (Wrapper :> X("t1")) @@ (<<".github", "workflows", "ci.yml">> :> F("call"))
    @@ (<<".github", "actions", "a", "action.yml">> :> F("t1"))
    @@ (<<".github", "actions", "a", "action.yaml">> :> F("t2")) @@ (<<"flake.lock">> :> F("t1"))

\* The manifest is another, a skill and the flake are gone, a script is binary.
Second ==
    [p \in DOMAIN First \ {Extra, <<"flake.nix">>} |->
       CASE p = PluginManifest -> F("m2") [] p = Project -> F("t2") [] p = <<".ci", "run">> -> X("binary")
         [] p = <<".github", "workflows", "ci.yml">> -> F("cut") [] OTHER -> First[p]]

\* No manifest, a wrapper that is a link.
Third ==
    [p \in DOMAIN First \ {PluginManifest} |->
       CASE p = Wrapper -> L("t1") [] p = <<"flake.nix">> -> F("gopath") [] p = Project -> F("cut") [] OTHER -> First[p]]

Crowd == [n \in {"a", "b", "c", "d", "e", "f", "g"} |-> n]

Crowded ==
    [p \in {<<".claude", "skills", n, "SKILL.md">> : n \in DOMAIN Crowd} \cup {<<".ci", n>> : n \in DOMAIN Crowd} |-> X("sh")]
    @@ (<<"x.nix">> :> F("call")) @@ (<<".claude", "settings.json">> :> F("t1"))

MCTree ==
    <<First, First, Second, Third, Crowded, Crowded, (<<"README.md">> :> F("t1")),
      (PluginManifest :> F("m3")) @@ (<<"go.mod">> :> F("t1")) @@ (<<"flake.nix">> :> X("binary"))>>

MCMarks == [t1 |-> {}, t2 |-> {}, m1 |-> {}, m2 |-> {}, m3 |-> {}, call |-> {"getflake"}, gopath |-> {"gopath", "getflake"}, sh |-> {"shell"}]

MCManifests ==
    [m1 |-> [NoManifest EXCEPT !.skillDirs = {<<"extra">>}, !.skillsSet = TRUE],
     m2 |-> [NoManifest EXCEPT !.commandsSet = TRUE, !.commandPaths = {<<"commands">>, <<"no.md">>},
                               !.sources = {<<"commands", "c.md">>}, !.hooksFiles = {<<"h.json">>}],
     m3 |-> [NoManifest EXCEPT !.skillDirs = {<<"no">>}, !.hooksFiles = {<<"..", "h.json">>}],
     t1 |-> [NoManifest EXCEPT !.unreadable = TRUE]]

MCMerged == [c \in 1..8 |-> IF c \in {2, 3} THEN {1} ELSE {}]

Job(start, end) == [start |-> start, end |-> end]

Run(sha, event, created, status, jobs) ==
    [sha |-> sha, event |-> event, created |-> created, status |-> status, jobs |-> jobs,
     branch |-> "main", own |-> TRUE]

StartRuns ==
    {<<Run(2, "push", 1, "completed", <<Job(2, 4)>>), Run(2, "push", 2, "completed", <<Job(3, 5)>>),
       Run(2, "schedule", 7, "completed", <<Job(7, 8)>>)>>,
     <<[Run(1, "push", 1, "completed", <<Job(2, 4), Job(2, 5), Job(3, 3)>>) EXCEPT !.branch = "other"],
       Run(1, "push", 3, "in_progress", <<Job(4, 6)>>),
       [Run(1, "pull_request", 6, "completed", <<Job(6, 9)>>) EXCEPT !.own = FALSE]>>}

MCStarts ==
    [head : {0, 3, 4, 5, 6, 7, 8}, runs : StartRuns, fault : {"none"}]
      \cup [head : {2, 3}, runs : StartRuns, fault : Faults \ {"none"}]

MCNewer == <<{}, {3, 4}, {4}, {}, {6}, {}, {8}, {7}>>

MCStartLists ==
    [caches |-> <<[id |-> 1, expired |-> FALSE], [id |-> 2, expired |-> FALSE], [id |-> 3, expired |-> FALSE]>>,
     artifacts |-> <<[id |-> 4, expired |-> TRUE], [id |-> 5, expired |-> FALSE]>>]

MCMarkdown == {"SKILL.md", "c.md", "no.md", "README.md"}
=============================================================================
