------------------------------ MODULE MCJudge ------------------------------
(***************************************************************************)
(* The files and accounts the judge runs try: families of cases, each      *)
(* varying one area around a repository that is in order.                  *)
(***************************************************************************)
EXTENDS Judge

(***************************************************************************)
(* Tables: what the words of the cases say.                                *)
(***************************************************************************)
Join(letters) == FoldLeft(LAMBDA acc, c : acc \o c, "", letters)

PatternChars == {"!", "*", "?", "+", "[", "]", "-", "\\", "/", "a", "m"}

Short == {<<c>> : c \in PatternChars} \cup {<<c, d>> : c, d \in PatternChars}

Longer == {<<"m", "a", "i", "n">>, <<"!", "m", "a", "i", "n">>, <<"m", "a", "?", "i", "n">>, <<"*", "a", "?", "m", "?">>,
           <<"[", "a", "-", "i", "]", "+", "n">>, <<"m", "[", "a", "]", "*">>, <<"[", "i", "-", "a", "]">>,
           <<"[", "a", "-", "]">>, <<"[", "/", "]">>, <<"*", "/", "*">>, <<"*", "*", "/", "a">>, <<"*", "*", "n">>,
           <<"a", "+", "*", "m">>, <<"[", "m", "b", "]", "?", "*">>, <<"\\", "*">>, <<"*", "+", "a">>, <<"b">>}

Names == {<<"m", "a", "i", "n">>, <<"a">>, <<"m">>, <<"a", "m">>, <<"a", "a", "m">>, <<"a", "/", "m">>,
          <<"m", "/", "a">>, <<"*">>}

Spelt == Short \cup Longer \cup Names

MCLetters == [w \in {Join(s) : s \in Spelt} |-> CHOOSE s \in Spelt : Join(s) = w]

MCBranches == {Join(s) : s \in Names}

Patterns == {Join(s) : s \in Short \cup Longer}

Pinned(name, owner) == [name |-> name, owner |-> owner, pinned |-> TRUE, dir |-> ""]

Local(dir) == [name |-> "", owner |-> "", pinned |-> FALSE, dir |-> dir]

ActionNames == {"actions/cache", "actions/cache/save", "actions/setup-go", "actions/setup-node",
                "actions/checkout", CacheNix, "cachix/install-nix-action"}

MCActionRef ==
    [n \in ActionNames |-> Pinned(n, "other")]
    @@ [n \in DiagnosticActions \cup {"determinatesystems/flake-checker-action",
                                      "determinatesystems/update-flake-lock"} |->
          Pinned(n, "determinatesystems")]
    @@ [d \in {"./a", "./b", "./c"} |-> Local(d)]
    @@ ("docker://nix" :> [Pinned("", "") EXCEPT !.pinned = FALSE])

Plain == [terms |-> {}, or |-> FALSE, paren |-> FALSE]

OnMain == [field |-> "ref", literal |-> "refs/heads/main"]

MCExpression ==
    [e \in {"", "always()", "true", "false", "x"} |-> Plain]
    @@ ("ref is main" :> [Plain EXCEPT !.terms = {OnMain}])
    @@ ("ref_name is main" :> [Plain EXCEPT !.terms = {[field |-> "ref_name", literal |-> "main"]}])
    @@ ("ref is main && x" :> [Plain EXCEPT !.terms = {OnMain, [field |-> "x", literal |-> ""]}])
    @@ ("ref is main || x" :> [Plain EXCEPT !.terms = {OnMain}, !.or = TRUE])
    @@ ("!(ref is main)" :> [Plain EXCEPT !.terms = {OnMain}, !.paren = TRUE])

MCLower ==
    [k \in {"save", "cache", "purge", "purge-created", "gc-max-store-size", "send-statistics",
            "diagnostic-endpoint"} |-> k]
    @@ ("Send-Statistics" :> "send-statistics") @@ ("Diagnostic-Endpoint" :> "diagnostic-endpoint")

Version(core, pre) == [valid |-> TRUE, core |-> core, pre |-> pre]

Num(n) == [num |-> n, text |-> 0]

MCSemver ==
    ("1.0.0" :> Version(<<1, 0, 0>>, <<>>)) @@ ("v1.0.0" :> Version(<<1, 0, 0>>, <<>>))
    @@ ("1.0.1" :> Version(<<1, 0, 1>>, <<>>)) @@ ("v1.1.0" :> Version(<<1, 1, 0>>, <<>>))
    @@ ("1.1.0-rc" :> Version(<<1, 1, 0>>, <<[num |-> 0, text |-> 1]>>))
    @@ ("1.1.0-1" :> Version(<<1, 1, 0>>, <<Num(1)>>)) @@ ("v1.1.0-1.2" :> Version(<<1, 1, 0>>, <<Num(1), Num(2)>>))
    @@ [w \in {"", "nightly"} |-> [valid |-> FALSE, core |-> <<>>, pre |-> <<>>]]

MCSpelling ==
    ("14 days" :> [n |-> 14, unit |-> "day"]) @@ ("2 weeks" :> [n |-> 2, unit |-> "week"])
    @@ ("3 days" :> [n |-> 3, unit |-> "day"]) @@ ("9999999 weeks" :> [n |-> 9999999, unit |-> "week"])

Part(n, unit) == <<[n |-> n, unit |-> unit]>>

MCRenovateSpelling ==
    ("14 days" :> Part(14, "day")) @@ ("3 days" :> Part(3, "day")) @@ ("1 week 7 days" :> Part(1, "week") \o Part(7, "day"))
    @@ ("-1 day" :> Part(-1, "day")) @@ ("" :> <<>>)

(***************************************************************************)
(* Documents.                                                              *)
(***************************************************************************)
Map1(k, v) == Mapping(<<Entry(k, v)>>)

StepNode(uses, cond, with) ==
    Mapping(<<Entry("uses", Scalar(uses)), Entry("if", cond), Entry("with", with)>>)

Step0(uses) == StepNode(uses, Absent, Absent)

Quiet(s) == [s EXCEPT !.entries = @ \o <<Entry("env", Map1("OTEL_SDK_DISABLED", Scalar("true")))>>]

RunStep(v) == Map1("run", v)

JobNode(cond, timeout, cancel, perm, steps) ==
    Mapping(<<Entry("if", cond), Entry("timeout-minutes", timeout), Entry("concurrency", cancel),
              Entry("permissions", perm), Entry("steps", steps)>>)

Job0(steps) == JobNode(Absent, Scalar("5"), Absent, Absent, Sequence(steps))

DocNode(on, cancel, perm, jobs) ==
    Mapping(<<Entry("on", on), Entry("concurrency", cancel), Entry("permissions", perm), Entry("jobs", jobs)>>)

OnBoth == Sequence(<<Scalar("push"), Scalar("pull_request")>>)

Cancels == Map1("cancel-in-progress", Scalar("true"))

Scheduled == Map1("schedule", Sequence(<<>>))

Install == Quiet(StepNode(DeterminateNix, Absent, Map1("diagnostic-endpoint", Scalar(""))))

NixCacheStep ==
    StepNode(CacheNix, Scalar("ref is main"),
             Mapping(<<Entry("purge", Scalar("True")), Entry("purge-created", Scalar("x")),
                       Entry("gc-max-store-size", Scalar("x"))>>))

Doc(on, steps) == DocNode(on, Cancels, Map1("actions", Scalar("write")), Map1("build", Job0(steps)))

GoodSteps == <<Install, NixCacheStep>>

GoodDoc == Doc(OnBoth, GoodSteps)

UpdateDoc == Doc(Scheduled, <<RunStep(Scalar("nix flake update"))>>)

Composite(steps) == Map1("runs", Map1("steps", Sequence(steps)))

BadDoc == Scalar("no workflow")

MCDocuments ==
    {GoodDoc, UpdateDoc, Doc(Scalar("pull_request"), <<Step0("actions/cache")>>),
     DocNode(OnBoth, Absent, Absent, Map1("build", JobNode(Absent, Absent, Absent, Absent, Absent))),
     Composite(<<NixCacheStep>>), Composite(<<Step0(NixInstallerAction), RunStep(Scalar("nix flake update"))>>)}

Strings(ws) == Sequence([i \in DOMAIN ws |-> Scalar(ws[i])])

Ons ==
    {Absent, Scalar("pull_request"), Scalar("push"), OnBoth, Sequence(<<Scheduled>>), Scheduled}
    \cup {Map1("pull_request", n) :
             n \in {Absent, Scalar("x"), Map1("types", Strings(<<"opened">>)), Map1("types", Strings(<<>>)),
                    Map1("types", Scalar("synchronize")), Map1("types", Scheduled),
                    Map1("branches", Scalar("b")), Map1("branches", Strings(<<"m*", "!main">>)),
                    Map1("branches-ignore", Strings(<<"main">>)),
                    Mapping(<<Entry("branches", Scalar("main")), Entry("branches-ignore", Scalar("b"))>>),
                    Mapping(<<Entry("branches", Absent), Entry("branches", Scalar("main"))>>)}}
    \cup {Mapping(<<Entry("pull_request_target", Absent), Entry("push", n)>>) :
             n \in {Absent, Map1("tags", Strings(<<>>)), Map1("tags", Absent), Map1("tags-ignore", Map1("x", Absent)),
                    Map1("branches", Scalar("main")), Map1("branches", Strings(<<"!main">>)),
                    Mapping(<<Entry("branches", Strings(<<"main">>)), Entry("tags", Scalar("v"))>>),
                    Map1("branches", Strings(<<"!main", "m*">>)), Map1("branches-ignore", Strings(<<"b", "*">>))}}
    \cup {Map1("push", Map1("branches", Scalar("main"))), Map1("push", Map1("branches", Strings(<<"main", "b">>)))}

Concurrencies ==
    {Absent, Scalar("group"), Sequence(<<>>), Map1("cancel-in-progress", Sequence(<<>>))}
    \cup {Map1("cancel-in-progress", Scalar(v)) : v \in {"true", "false", "${{ false }}", "x"}}

PermissionNodes ==
    {Absent, Scalar("write-all"), Scalar("read-all"), Mapping(<<>>), Map1("actions", Scalar("write")),
     Map1("contents", Scalar("write")), Sequence(<<>>)}

Conditions == {Absent} \cup {Scalar(e) : e \in DOMAIN MCExpression \ {"", "true", "false", "x"}}

SaveSteps ==
    {StepNode(u, c, Absent) : u \in ActionNames, c \in Conditions}
    \cup {StepNode(u, Absent, Map1(IF u = CacheNix THEN "save" ELSE "cache", Scalar(v))) :
             u \in {CacheNix, "actions/setup-go", "actions/setup-node"}, v \in {"", "true", "false", "ref is main"}}

TelemetrySteps ==
    {StepNode(u, Absent, w) :
       u \in DiagnosticActions \cup {"determinatesystems/flake-checker-action"},
       w \in {Absent, Map1("diagnostic-endpoint", Scalar("")), Map1("Diagnostic-Endpoint", Absent),
              Map1("send-statistics", Scalar("true")), Map1("Send-Statistics", Scalar("false"))}}

Endpoint == Map1("diagnostic-endpoint", Scalar(""))

OddSteps ==
    {Scalar("x"), Map1("uses", Sequence(<<>>)), StepNode(CacheNix, Absent, Scalar("x")), RunStep(Sequence(<<>>)),
     [Step0(CacheNix) EXCEPT !.entries = @ \o <<Entry("env", Scalar("x"))>>],
     [Step0(DeterminateNix) EXCEPT !.entries = @ \o <<Entry("env", Scalar("${{ }}"))>>],
     [RunStep(Scalar("x")) EXCEPT !.entries = @ \o <<Entry("env", Scalar("x"))>>],
     Mapping(<<Entry("uses", Scalar(CacheNix)), Entry("uses", Scalar("docker://nix"))>>), Step0("docker://nix")}

\* Documents that vary one part of a workflow.
WorkflowDocs ==
    {Doc(on, GoodSteps) : on \in Ons}
    \cup {DocNode(OnBoth, c, Absent, Map1("build", JobNode(Absent, Scalar("5"), d, Absent, Absent))) :
             c \in Concurrencies, d \in {Absent, Cancels}}
    \cup {DocNode(OnBoth, Absent, p, Map1("build", JobNode(Absent, t, Absent, q, Sequence(<<NixCacheStep>>)))) :
             p \in PermissionNodes, q \in PermissionNodes, t \in {Absent, Scalar("5")}}
    \cup {DocNode(OnBoth, Cancels, Absent, Map1("build", JobNode(c, Scalar("5"), Absent, Absent, Sequence(<<Step0("actions/cache")>>)))) :
             c \in Conditions}
    \cup {Doc(on, <<s>>) : on \in {OnBoth, Map1("push", Map1("branches", Scalar("main")))}, s \in SaveSteps}
    \cup {Doc(OnBoth, <<s>>) : s \in TelemetrySteps \cup {Quiet(t) : t \in TelemetrySteps} \cup OddSteps}
    \cup {DocNode(OnBoth, Cancels, Absent, Mapping(<<Entry("build", Job0(<<>>)), Entry("build", Job0(GoodSteps))>>)),
           DocNode(OnBoth, Cancels, Absent, Map1("call", Map1("uses", Scalar("x")))),
           DocNode(OnBoth, Cancels, Absent, Absent), BadDoc, Absent, Mapping(<<>>),
           [GoodDoc EXCEPT !.entries = @ \o <<Entry("on", Absent)>>]}

(***************************************************************************)
(* One repository that is in order, and the file that declares it.         *)
(***************************************************************************)
File(path, doc) == [path |-> path, doc |-> doc]

Cache(ref, tool, family, created, size) ==
    [ref |-> ref, tool |-> tool, family |-> family, created |-> created, size |-> size, pull |-> FALSE]

GoCacheEntry == Cache("refs/heads/main", "go", "go-linux", 990, 5000)
NixCacheEntry == Cache("refs/heads/main", "nix", "nix-linux", 990, 5000)

Rule == [object |-> TRUE, selectors |-> {}, lists |-> <<{"major"}>>,
         automerge |-> "absent", enabled |-> "absent", approval |-> "absent"]

EmptyRenovate ==
    [object |-> TRUE, extendsList |-> TRUE, extends |-> <<>>, minimumReleaseAge |-> "absent",
     stabilityDays |-> "absent", nix |-> "absent", lockFile |-> "absent",
     managers |-> [set |-> FALSE, names |-> {}], flags |-> [f \in Flags |-> "absent"],
     majorBad |-> FALSE, rulesList |-> TRUE, rules |-> <<>>]

GoodRenovate ==
    [EmptyRenovate EXCEPT !.minimumReleaseAge = "14 days", !.nix = "yes", !.lockFile = "yes",
                          !.flags.automerge = "yes"]

Skill == [path |-> "s/SKILL.md", dir |-> "s", name |-> "s", unreadable |-> FALSE, disableModel |-> TRUE,
          userInvocableFalse |-> FALSE, keys |-> [k \in {"name", "description"} |-> "!!str"],
          description |-> 20, wraps |-> ""]

Hook == [source |-> "hooks.json", plugin |-> TRUE, unreadable |-> FALSE, event |-> "PreToolUse", script |-> "x",
         type |-> "command", mode |-> "100755", interpreter |-> FALSE, pathForm |-> "plugin_root",
         timeoutSet |-> TRUE, matcher |-> "Bash"]

Plugin == [present |-> TRUE, unreadable |-> FALSE, fields |-> RequiredPluginFields, ownMarketplace |-> FALSE,
           version |-> "1.0.0"]

NoPlugin == [Plugin EXCEPT !.present = FALSE]

NoClaude == [skills |-> {}, commands |-> {}, hooks |-> {}, plugin |-> NoPlugin, unreadable |-> FALSE]

GoodClaude == [skills |-> {Skill}, commands |-> {}, hooks |-> {Hook}, plugin |-> Plugin, unreadable |-> FALSE]

Wait(number, wait, seconds) ==
    [wait |-> wait, complete |-> TRUE, bot |-> FALSE, merged |-> number,
     jobs |-> <<[label |-> "build", seconds |-> seconds]>>]

Norms == [auto_merge |-> "on", wiki |-> "off"]

Base == [name |-> "r", type |-> "", published |-> FALSE, overrides |-> <<>>, visibility |-> "public",
         description |-> TRUE, homepage |-> TRUE, license |-> "MIT", topics |-> 2, empty |-> FALSE,
         identities |-> {}, files |-> [c \in PathChecks \cup {"claude_mcp_config", "claude_settings"} |-> {c}],
         present |-> [f \in {"readme", "gitignore", "editorconfig", "flake_nix", "changelog", "security",
                              "contributing", "code_of_conduct", "go_mod"} |-> TRUE],
         workflows |-> <<File("ci.yml", GoodDoc), File("update.yml", UpdateDoc)>>, actions |-> {},
         renovate |-> GoodRenovate, dashboard |-> "open",
         flake |-> [hasLock |-> TRUE, lockError |-> FALSE, lastModified |-> 980, allRevPinned |-> FALSE],
         claude |-> GoodClaude,
         releases |-> [latest |-> "v1.0.0", publishedAt |-> 950, total |-> 3, drafts |-> 1],
         rulesets |-> <<[target |-> "TAG", enforcement |-> "ACTIVE", name |-> "tags", whole |-> TRUE, rules |-> {}],
                        [target |-> "BRANCH", enforcement |-> "ACTIVE", name |-> "main", whole |-> TRUE,
                         rules |-> {"PULL_REQUEST"}]>>,
         branch |-> [known |-> TRUE, types |-> {"pull_request", "required_signatures"},
                     requiredChecks |-> {"build", MergeGateCheck}, strict |-> TRUE],
         settings |-> [hasIssues |-> TRUE, secretScanning |-> "enabled", vulnReporting |-> "on",
                       workflowPermissions |-> "read", norms |-> Norms],
         ciState |-> "SUCCESS",
         ci |-> [pullRequests |-> <<Wait(1, 60, 50)>>, defaultBranch |-> <<Wait(2, 90, 80)>>],
         lastDefaultRun |-> 999,
         storage |-> [caches |-> {GoCacheEntry, NixCacheEntry}, limit |-> 100, usage |-> 50],
         nixGetFlake |-> [nixFiles |-> TRUE, tooMany |-> FALSE, files |-> {}],
         goPaths |-> [tooMany |-> FALSE,
                      files |-> {[path |-> "flake.nix", unreadable |-> FALSE, lines |-> GoPathNames]}],
         devshell |-> [tooMany |-> FALSE, scripts |-> {}, wrapper |-> "none", wrapperLines |-> {}],
         defaultBranch |-> "main"]

Me == [name |-> "Me", email |-> "me@x", form |-> 1]
MeUpper == [Me EXCEPT !.form = 2]
MeOld == [name |-> "Me", email |-> "old@x", form |-> 1]
MeOldUpper == [MeOld EXCEPT !.form = 2]
MeWrong == [name |-> "me", email |-> "me@x", form |-> 1]
Bot == [name |-> "bot", email |-> "bot@x", form |-> 1]

GoodIdentity ==
    [canonical |-> Me, accepted |-> <<MeOld>>, match |-> {Me, MeUpper, MeOld, MeOldUpper, MeWrong}, compiles |-> TRUE]

Word(c) == CASE c = "direct_push" -> "blocked"
             [] c = Threshold -> "14 days"
             [] c \in ValueOnly -> "info"
             [] OTHER -> "required"

Judged == [c \in Check |-> Word(c)]

Declared1 == [type |-> "judged", published |-> FALSE, overrides |-> <<>>]

NoAccountMarketplace == [repo |-> "", unreadable |-> FALSE, entries |-> <<>>]

World(repos, config, presets, marketplace) ==
    [config |-> config, account |-> [repos |-> repos, presets |-> presets, marketplace |-> marketplace]]

ConfigOf(decls) ==
    [unknownKeys |-> FALSE, types |-> ("judged" :> Judged), repos |-> decls, impossible |-> {},
     identity |-> GoodIdentity, marketplace |-> ""]

GoodConfig == ConfigOf("r" :> Declared1)

Solo(r) == World({r}, GoodConfig, <<>>, NoAccountMarketplace)

(***************************************************************************)
(* Workflow files and composites.                                          *)
(***************************************************************************)
FileCases == {Solo([Base EXCEPT !.workflows[1].doc = d]) : d \in WorkflowDocs}

Gate(doc) == File("merge-gate.yml", doc)

WorkflowSets ==
    {<<>>, <<Gate(GoodDoc)>>, <<Gate(BadDoc)>>, <<File("ci.yml", BadDoc)>>, <<File("ci.yml", BadDoc), File("u.yml", GoodDoc)>>,
     <<File("ci.yml", BadDoc), File("u.yml", BadDoc)>>, <<File("ci.yml", BadDoc), File("u.yml", UpdateDoc)>>,
     <<File("u.yml", UpdateDoc), Gate(GoodDoc)>>}

ActionAt(dir, name, doc) == [path |-> <<dir, name>>, doc |-> doc]

ActionDocs == {Composite(GoodSteps), Composite(<<Step0("actions/cache")>>), Composite(<<RunStep(Scalar("nix flake update"))>>),
               Composite(<<Step0("./b")>>), Composite(<<StepNode("./b", Scalar("ref is main"), Absent)>>),
               Map1("runs", Map1("using", Scalar("node20"))), BadDoc, Map1("runs", Scalar("x"))}

ActionSets ==
    {{ActionAt("./a", n, d)} : n \in {"action.yml", "action.yaml"}, d \in ActionDocs}
    \cup {{ActionAt("./a", "action.yml", d), ActionAt("./b", "action.yml", e)} : d \in ActionDocs,
             e \in {Composite(<<Step0("actions/cache")>>), Composite(<<Step0("./a")>>), BadDoc}}
    \cup {{ActionAt("./a", "action.yml", Composite(<<>>)), ActionAt("./a", "action.yaml", Composite(GoodSteps))}}

Callers == {<<File("ci.yml", Doc(OnBoth, <<Step0("./a")>>))>>,
            <<File("ci.yml", Doc(OnBoth, <<Install, StepNode("./a", Scalar("ref is main"), Absent)>>))>>,
            <<File("ci.yml", Doc(Scheduled, <<Step0("./a")>>)), File("z.yml", GoodDoc)>>}

NoRefresh == [Base EXCEPT !.renovate = EmptyRenovate]

ComposedCases ==
    {Solo([NoRefresh EXCEPT !.workflows = ws]) : ws \in WorkflowSets}
    \cup {Solo([NoRefresh EXCEPT !.workflows = ws, !.actions = as]) : ws \in Callers, as \in ActionSets}
    \cup {Solo([NoRefresh EXCEPT !.workflows = <<File("ci.yml", Doc(Scheduled, <<Step0("determinatesystems/update-flake-lock")>>))>>])}

FilterCases ==
    {Solo([Base EXCEPT !.workflows[1].doc = Doc(Map1("push", Map1(key, Strings(ps))), <<>>)]) :
       key \in {"branches", "branches-ignore"}, ps \in {FoldSet(LAMBDA p, acc : Append(acc, p), <<>>, Patterns)}}

(***************************************************************************)
(* What the file declares.                                                 *)
(***************************************************************************)
Declares(c, word, over, published, visibility) ==
    World({[Base EXCEPT !.visibility = visibility]},
          [GoodConfig EXCEPT !.types = ("judged" :> [Judged EXCEPT ![c] = word]),
                             !.repos = ("r" :> [Declared1 EXCEPT !.published = published, !.overrides =
                                                IF over = "none" THEN <<>> ELSE (c :> over)])],
          <<>>, NoAccountMarketplace)

WordCases ==
    {Declares(c, word, over, published, visibility) :
       c \in {"changelog", "branches"}, word \in Expectations, over \in Expectations \cup {"none"},
       published \in BOOLEAN, visibility \in {"public", "private"}}
    \cup {Declares("direct_push", word, over, FALSE, "public") :
             word \in {"blocked", "allowed", "info"}, over \in {"none", "blocked", "allowed", "required", "not_required", "info"}}
    \cup {Declares(Threshold, word, over, FALSE, "public") :
             word \in {"info", "not_required", "14 days", "3 days", "9999999 weeks"},
             over \in {"none", "info", "not_required", "14 days", "2 weeks", "3 days", "required"}}
    \cup {Declares("git_identity", word, over, FALSE, "public") :
             word \in {"required", "not_required"}, over \in {"none", "required", "not_required"}}

\* Repositories that lack what the row asks for, held to it or not.
LackingCases ==
    {[Declares(c, word, "none", FALSE, v) EXCEPT
        !.account.repos = {[Base EXCEPT !.visibility = v, !.present["security"] = FALSE, !.branch.types = {},
                                        !.branch.known = known, !.rulesets = <<>>]}] :
       c \in {"community_files", "required_checks"}, word \in Expectations, v \in {"public", "private"}, known \in BOOLEAN}

IdentityTables ==
    {GoodIdentity, NoStandard, [GoodIdentity EXCEPT !.canonical = Malformed], [GoodIdentity EXCEPT !.compiles = FALSE],
     [GoodIdentity EXCEPT !.match = {MeOld}], [GoodIdentity EXCEPT !.accepted = <<MeOld, MeOldUpper>>],
     [GoodIdentity EXCEPT !.accepted = <<MeUpper>>], [GoodIdentity EXCEPT !.accepted = <<Malformed>>],
     [GoodIdentity EXCEPT !.accepted = <<Bot>>], [GoodIdentity EXCEPT !.accepted = <<>>]}

IdentityCases ==
    {[Declares("git_identity", word, over, FALSE, "public") EXCEPT !.config.identity = std] :
       word \in {"required", "not_required"}, over \in {"none", "required"}, std \in IdentityTables}
    \cup {Solo([Base EXCEPT !.identities = ids, !.empty = empty]) :
             ids \in SUBSET {Me, MeUpper, MeOldUpper, MeWrong, Bot}, empty \in BOOLEAN}

ConfigCases ==
    {[Solo(Base) EXCEPT !.config = c] :
       c \in {[GoodConfig EXCEPT !.unknownKeys = TRUE], [GoodConfig EXCEPT !.types = <<>>],
              [GoodConfig EXCEPT !.repos = <<>>], [GoodConfig EXCEPT !.impossible = {"r"}],
              [GoodConfig EXCEPT !.repos["r"].type = "other"], [GoodConfig EXCEPT !.marketplace = "x"],
              [GoodConfig EXCEPT !.types["judged"] = [c \in Check \ {"readme"} |-> Word(c)]],
              [GoodConfig EXCEPT !.repos["r"].overrides = ("nothing" :> "required")],
              [GoodConfig EXCEPT !.repos["r"].overrides = ("readme" :> "")]}}
    \cup {World({[Base EXCEPT !.name = n] : n \in there}, ConfigOf([n \in declared |-> Declared1]), <<>>, NoAccountMarketplace) :
             there \in SUBSET {"r", "s"}, declared \in SUBSET {"r", "s"} \ {{}}}

(***************************************************************************)
(* Facts, one at a time.                                                   *)
(***************************************************************************)
BranchRepos ==
    {[Base EXCEPT !.branch = [known |-> known, types |-> types, requiredChecks |-> checks, strict |-> strict],
                  !.rulesets = sets] :
       known \in BOOLEAN, types \in {{}, {"pull_request"}, {"required_signatures"}},
       checks \in {{}, {MergeGateCheck}, {"build", MergeGateCheck}}, strict \in BOOLEAN,
       sets \in {<<>>, Base.rulesets, [Base.rulesets EXCEPT ![2].enforcement = "EVALUATE", ![1].whole = FALSE]}}

FactRepos ==
    {[Base EXCEPT !.present = [f \in DOMAIN @ |-> f \notin gone]] :
       gone \in {{"readme"}, {"go_mod"}, {"flake_nix"}, {"changelog", "gitignore"}} \cup SUBSET CommunityFiles}
    \cup {[Base EXCEPT !.ciState = v] : v \in {"", "PENDING", "FAILURE", "EXPECTED"}}
    \cup {[Base EXCEPT !.license = v] : v \in {"", "NOASSERTION"}}
    \cup {[Base EXCEPT !.dashboard = v, !.settings.hasIssues = h] : v \in {"open", "closed", "none"}, h \in BOOLEAN}
    \cup {[Base EXCEPT !.settings.secretScanning = v, !.settings.vulnReporting = w] :
             v \in {"", "disabled"}, w \in {"unread", "off"}}
    \cup {[Base EXCEPT !.releases = [latest |-> l, publishedAt |-> 999, total |-> t, drafts |-> 1]] :
             l \in {"", "nightly", "v1.1.0"}, t \in {1, 2}}
    \cup {[Base EXCEPT !.flake = [hasLock |-> h, lockError |-> e, lastModified |-> m, allRevPinned |-> p]] :
             h \in BOOLEAN, e \in BOOLEAN, p \in BOOLEAN, m \in {0, 960, 970, 971}}
    \cup {[Base EXCEPT !.lastDefaultRun = t] : t \in {0, 992, 993}}
    \cup {[Base EXCEPT !.storage = [caches |-> cs, limit |-> l, usage |-> u]] :
             l \in {0, 100}, u \in {80, 81},
             cs \in {{}, {GoCacheEntry}, {[GoCacheEntry EXCEPT !.size = 999], NixCacheEntry},
                     {GoCacheEntry, [GoCacheEntry EXCEPT !.created = 995, !.size = 1]},
                     {[NixCacheEntry EXCEPT !.size = NixCacheCeiling + 1]},
                     {[GoCacheEntry EXCEPT !.ref = "refs/pull/1/merge", !.pull = TRUE], Cache("refs/heads/b", "other", "x", 1, 1),
                      Cache("refs/heads/main", "action", "y", 1, 1)}}}
    \cup {[Base EXCEPT !.ci = [pullRequests |-> prs, defaultBranch |-> main]] :
             prs \in {<<>>, [i \in 1..7 |-> Wait(i, 10 * i, i)], <<[Wait(1, 5, 5) EXCEPT !.bot = TRUE], Wait(2, 7, 0)>>},
             main \in {<<>>, <<[Wait(1, 5, 5) EXCEPT !.complete = FALSE], Wait(2, 7, 9)>>}}
    \cup {[Base EXCEPT !.nixGetFlake = [nixFiles |-> n, tooMany |-> t,
                                       files |-> {[path |-> "a.nix", unreadable |-> u, args |-> as]}]] :
             n \in BOOLEAN, t \in BOOLEAN, u \in BOOLEAN, as \in {{}, {"url"}, {"registry", "path"}}}
    \cup {[Base EXCEPT !.goPaths = [tooMany |-> t, files |-> {[path |-> "flake.nix", unreadable |-> u, lines |-> ls]}]] :
             t \in BOOLEAN, u \in BOOLEAN, ls \in SUBSET GoPathNames}
    \cup {[Base EXCEPT !.devshell = [tooMany |-> t, scripts |-> ss, wrapper |-> w, wrapperLines |-> ls]] :
             t \in BOOLEAN, w \in {"none", "unreadable", "read"}, ls \in {{}, WrapperLines},
             ss \in {{}} \cup {{[path |-> "x", unreadable |-> u, exempt |-> e, wraps |-> v]} :
                              u \in BOOLEAN, e \in {"no", "bare", "reasoned"}, v \in BOOLEAN}}

\* A norm of three repositories, where a setting need not have been read.
NormCases ==
    {World({[Base EXCEPT !.name = n, !.settings.norms = [auto_merge |-> v[n], wiki |-> "on"],
                         !.files["justfile"] = IF p[n] = "" THEN {} ELSE {p[n]}] : n \in {"r", "s", "t"}},
           ConfigOf([n \in {"r", "s", "t"} |-> Declared1]), <<>>, NoAccountMarketplace) :
       v \in [{"r", "s", "t"} -> {"on", "off", ""}], p \in {("r" :> "a") @@ ("s" :> "a") @@ ("t" :> "b"),
                                                       ("r" :> "a") @@ ("s" :> "b") @@ ("t" :> "")}}

(***************************************************************************)
(* Renovate.                                                               *)
(***************************************************************************)
Bare(name) == [platform |-> "", owner |-> "", repo |-> "", unsupported |-> FALSE, dir |-> "", name |-> name,
               file |-> "", gitRef |-> ""]

Mine1(name, file) == [platform |-> "github", owner |-> "me", repo |-> "p", unsupported |-> FALSE, dir |-> "",
                      name |-> name, file |-> file, gitRef |-> ""]

Preset(file) == <<"p", file, "">>

Presets ==
    (Preset("a.json") :> [EmptyRenovate EXCEPT !.minimumReleaseAge = "3 days", !.flags.automerge = "no", !.nix = "no"])
    @@ (Preset("b.json") :> [EmptyRenovate EXCEPT !.extends = <<Mine1("a", "a.json")>>, !.flags.automerge = "yes",
                                                  !.rules = <<Rule>>])
    @@ (Preset("c.json") :> [EmptyRenovate EXCEPT !.extends = <<Mine1("c", "c.json")>>])
    @@ (Preset("d.json") :> [EmptyRenovate EXCEPT !.extends = <<Mine1("b", "b.json")>>])
    @@ (Preset("bad.json") :> [EmptyRenovate EXCEPT !.object = FALSE])
    @@ (Preset("renovate.json") :> [EmptyRenovate EXCEPT !.minimumReleaseAge = "null", !.lockFile = "noEnabled"])

Refs ==
    {Bare(n) : n \in {":automergeMajor", ":automergeDisabled", ":approveMajorUpdates", ":dependencyDashboardApproval",
                      ":disableMajorUpdates", ":disableRenovate", ":enableRenovate", ":maintainLockFilesDisabled",
                      "config:best-practices", "config:recommended"}}
    \cup {Mine1(n, n \o ".json") : n \in {"a", "b", "c", "d", "bad", "gone", "default"}}
    \cup {[Mine1("a", "a.json") EXCEPT !.owner = "you"], [Mine1("a", "a.json") EXCEPT !.platform = "foreign"],
          [Mine1("a", "a.json") EXCEPT !.unsupported = TRUE]}

Words3 == {"absent", "yes", "no"}

RuleSet ==
    {[Rule EXCEPT !.automerge = m] : m \in {"yes", "no", "bad"}}
    \cup {[Rule EXCEPT !.lists = ls, !.automerge = m] :
             ls \in {<<>>, <<{"minor"}>>, <<{"pattern"}>>, <<{}>>, <<{"bad"}>>, <<{"major"}, {"minor"}>>}, m \in {"yes", "no"}}
    \cup {[Rule EXCEPT !.selectors = {"matchPackageNames"}, !.lists = ls, !.approval = a, !.enabled = e] :
             ls \in {<<>>, <<{"minor"}>>}, a \in Words3, e \in {"absent", "no"}}
    \cup {[Rule EXCEPT !.object = FALSE], [Rule EXCEPT !.approval = "yes"], [Rule EXCEPT !.approval = "no"]}

Merging == [EmptyRenovate EXCEPT !.flags.automerge = "yes"]

RenovateConfigs ==
    {[GoodRenovate EXCEPT !.extends = <<a, b>>] : a \in Refs, b \in Refs}
    \cup {[Merging EXCEPT !.rules = <<a, b>>] : a \in RuleSet, b \in RuleSet}
    \cup {[EmptyRenovate EXCEPT !.flags = [f \in Flags |-> CASE f = "automerge" -> a [] f = "majorAutomerge" -> b
                                                             [] f = "approval" -> c [] f = "majorEnabled" -> d
                                                             [] OTHER -> "absent"]] :
             a \in Words3, b \in Words3 \cup {"bad"}, c \in {"absent", "yes"}, d \in {"absent", "no"}}
    \cup {[EmptyRenovate EXCEPT !.minimumReleaseAge = m, !.stabilityDays = d] :
             m \in {"absent", "null", "bad", "3 days", "1 week 7 days", "-1 day"}, d \in {"absent", "0 days", "14 days", "bad"}}
    \cup {[GoodRenovate EXCEPT !.nix = n, !.lockFile = l, !.managers = [set |-> m # {"none"}, names |-> m \ {"none"}]] :
             n \in {"yes", "noEnabled", "bad"}, l \in {"yes", "no"}, m \in {{"none"}, {}, {"nix"}}}
    \cup {[GoodRenovate EXCEPT !.object = FALSE], [GoodRenovate EXCEPT !.extendsList = FALSE],
          [GoodRenovate EXCEPT !.majorBad = TRUE], [GoodRenovate EXCEPT !.rulesList = FALSE]}

RenovateCases ==
    {World({[Base EXCEPT !.renovate = c]}, GoodConfig, Presets, NoAccountMarketplace) : c \in RenovateConfigs}
    \cup {Solo([Base EXCEPT !.files["renovate"] = {}, !.renovate = EmptyRenovate])}

(***************************************************************************)
(* Claude Code files.                                                      *)
(***************************************************************************)
Skills ==
    {[Skill EXCEPT !.unreadable = u, !.disableModel = d, !.name = n, !.description = l] :
       u \in BOOLEAN, d \in BOOLEAN, n \in {"", "s", "t"}, l \in {0, SkillDescriptionMax, SkillDescriptionMax + 1}}
    \cup {[Skill EXCEPT !.userInvocableFalse = TRUE], [Skill EXCEPT !.keys = ("nothing" :> "!!str")],
          [Skill EXCEPT !.keys = ("agent" :> "!!bool")], [Skill EXCEPT !.wraps = "just"]}

Hooks ==
    {[Hook EXCEPT !.unreadable = u, !.plugin = p, !.mode = m, !.interpreter = i] :
       u \in BOOLEAN, p \in BOOLEAN, m \in {"", "100644", "100755"}, i \in BOOLEAN}
    \cup {[Hook EXCEPT !.event = e, !.matcher = ""] : e \in {"PreToolUse", "Stop", "Nothing"}}
    \cup {[Hook EXCEPT !.timeoutSet = FALSE], [Hook EXCEPT !.script = ""], [Hook EXCEPT !.type = "prompt"],
          [Hook EXCEPT !.pathForm = "relative"]}

Claudes ==
    {[GoodClaude EXCEPT !.skills = {Skill, [s EXCEPT !.path = "t/SKILL.md"]}] : s \in Skills}
    \cup {[GoodClaude EXCEPT !.skills = {}, !.commands = {s}] : s \in Skills}
    \cup {[GoodClaude EXCEPT !.hooks = {Hook, h}] : h \in Hooks} \cup {[NoClaude EXCEPT !.hooks = {h}] : h \in Hooks}
    \cup {NoClaude, [NoClaude EXCEPT !.unreadable = TRUE], [NoClaude EXCEPT !.unreadable = TRUE, !.plugin = Plugin],
          [NoClaude EXCEPT !.unreadable = TRUE, !.plugin = [Plugin EXCEPT !.unreadable = TRUE]]}

Plugins ==
    {[Plugin EXCEPT !.present = p, !.version = v, !.ownMarketplace = o] : p \in BOOLEAN, o \in BOOLEAN,
       v \in {"", "1.0.0", "1.0.1", "1.1.0-rc", "1.1.0-1", "nightly"}}
    \cup {[Plugin EXCEPT !.fields = {"name"}]}

ClaudeCases ==
    {Solo([Base EXCEPT !.claude = c]) : c \in Claudes}
    \cup {Solo([Base EXCEPT !.claude.plugin = p, !.releases.latest = l]) :
             p \in Plugins, l \in {"", "v1.0.0", "v1.1.0-1.2"}}

Pin == [name |-> "r", owner |-> "me", repo |-> "r", ref |-> "v1.0.0", sha |-> "c1", releaseTag |-> TRUE,
        tagCommit |-> "c1", pluginName |-> "r", hasVersion |-> FALSE]

Pins == {Pin, [Pin EXCEPT !.owner = "you"], [Pin EXCEPT !.repo = "s"], [Pin EXCEPT !.ref = ""], [Pin EXCEPT !.sha = ""],
         [Pin EXCEPT !.sha = "c2"], [Pin EXCEPT !.releaseTag = FALSE], [Pin EXCEPT !.pluginName = ""],
         [Pin EXCEPT !.hasVersion = TRUE], [Pin EXCEPT !.ref = "v1.1.0"], [Pin EXCEPT !.ref = "nightly"]}

MarketplaceConfig(kept) ==
    [ConfigOf([n \in {"r", "s"} |-> Declared1]) EXCEPT !.marketplace = IF kept THEN "s" ELSE ""]

MarketplaceCases ==
    {World({[Base EXCEPT !.releases.latest = latest, !.releases.publishedAt = at, !.visibility = visibility],
            [Base EXCEPT !.name = "s", !.claude = s]},
           MarketplaceConfig(kept), <<>>, [repo |-> "", unreadable |-> u, entries |-> es]) :
       latest \in {"v1.0.0", "v1.1.0"}, at \in {992, 993}, visibility \in {"public"}, kept \in {TRUE},
       s \in {NoClaude, [NoClaude EXCEPT !.unreadable = TRUE], [NoClaude EXCEPT !.unreadable = TRUE, !.plugin = Plugin]},
       u \in {FALSE},
       es \in {<<p>> : p \in Pins} \cup {<<[Pin EXCEPT !.repo = "s"], p>> : p \in Pins}}
    \cup {World({[Base EXCEPT !.visibility = visibility], [Base EXCEPT !.name = "s"]}, MarketplaceConfig(kept), <<>>,
                [repo |-> "", unreadable |-> u, entries |-> es]) :
             visibility \in {"public", "private"}, kept \in BOOLEAN, u \in BOOLEAN, es \in {<<>>, <<Pin>>}}

(***************************************************************************)
(* The runs' inputs.                                                       *)
(***************************************************************************)
\* Files that were not read may be in order, or in no order at all.
MCContents ==
    {GoodClaude, [GoodClaude EXCEPT !.skills = {[Skill EXCEPT !.name = "", !.disableModel = FALSE]},
                                    !.hooks = {[Hook EXCEPT !.event = "Nothing", !.timeoutSet = FALSE]},
                                    !.plugin.fields = {"name"}, !.plugin.ownMarketplace = TRUE]}

MCPicks == {"send-statistics", "Send-Statistics"}

MCCases ==
    <<FileCases, ComposedCases, FilterCases, WordCases, LackingCases, IdentityCases, ConfigCases, NormCases,
      {Solo(r) : r \in BranchRepos \cup FactRepos}, RenovateCases, ClaudeCases, MarketplaceCases>>

\* One step whose input is written twice, in two spellings.
MCSpeltTwice ==
   <<{Solo([Base EXCEPT !.workflows[1].doc = Doc(on, <<Quiet(StepNode("determinatesystems/flake-checker-action", Absent,
         Mapping(<<Entry("send-statistics", Scalar(v)), Entry("Send-Statistics", Scalar("false"))>>)))>>)]) :
       on \in Ons, v \in {"true", "false"}}>>
=============================================================================
