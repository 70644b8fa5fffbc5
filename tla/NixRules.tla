------------------------------ MODULE NixRules ------------------------------
(***************************************************************************)
(* The Nix rules (internal/rules/nix.go), the cache and storage rules      *)
(* (storage.go, efficiency.go), and the rules on what the collector found  *)
(* in a repository's own files: the devshell scripts (devshell.go) and the *)
(* Go paths (gopaths.go).  Times are days and sizes are kilobytes; 0 is no *)
(* time.                                                                   *)
(***************************************************************************)
EXTENDS WorkflowRules

CONSTANTS Now,    \* when the snapshot was collected
          Lower   \* an input's key, without its case

Within(t, days) == t # 0 /\ Now - t <= days

MaxLockAge == 30

LockAge(r) ==
    IF ~r.flake.hasLock THEN NotApplicable
    ELSE IF r.flake.lockError THEN Observed(FALSE, {<<"unreadable flake.lock">>})
    ELSE IF r.flake.lastModified = 0 THEN NotApplicable
    ELSE Observed(Within(r.flake.lastModified, MaxLockAge), {})

(***************************************************************************)
(* What refreshes flake.lock.                                              *)
(***************************************************************************)
\* The steps of a job, those of the composites it uses among them: one level.
Reached(r, w, j) ==
    LET used == {j.uses[i] : i \in DOMAIN j.uses}
        local == UNION {Composites(r, u.action) : u \in used}
    IN [steps |-> {<<u, w.path>> : u \in used} \cup
                  UNION {{<<ca.uses[i], ca.path[1]>> : i \in DOMAIN ca.uses} :
                           ca \in {c \in local : ~c.parseError}},
        composites |-> local,
        unreadable |-> {ca.path[1] : ca \in {c \in local : c.parseError}}]

ScheduledFlakeUpdate(r) ==
    LET scheduled == {w \in ReadFiles(r) : "schedule" \in w.events}
    IN [refreshes |-> \E w \in scheduled : \E j \in Jobs(w) :
                        \/ j.flakeUpdate
                        \/ \E i \in DOMAIN j.uses :
                             UsesAction(j.uses[i].action, "determinatesystems/update-flake-lock")
                        \/ \E ca \in Reached(r, w, j).composites : ~ca.parseError /\ ca.flakeUpdate,
        unreadable |-> UnreadableFiles(r) \cup UNION {UNION {Reached(r, w, j).unreadable : j \in Jobs(w)} : w \in scheduled}]

LockRefresh(r) ==
    LET update == ScheduledFlakeUpdate(r)
        sources == {s \in {"Renovate", "workflow"} :
                      IF s = "workflow" THEN update.refreshes
                      ELSE /\ r.files["renovate"] # {} /\ r.renovate.nixManager
                           /\ r.renovate.lockFileMaintenance \/ r.flake.allRevPinned}
    IN IF ~r.flake.hasLock THEN NotApplicable
       ELSE IF sources # {} THEN Observed(TRUE, {<<s>> : s \in sources})
       ELSE Observed(FALSE, Unreadable(update.unreadable))

(***************************************************************************)
(* Caches.                                                                 *)
(***************************************************************************)
CacheFloor == 1000
NixCacheCeiling == 1500000

ActivityWindow == 7

RecentDefaultRun(r) == Within(r.lastDefaultRun, ActivityWindow)

\* The newest default-branch entry of each family of a tool's keys; two as new
\* as each other leave either.
CacheFamilies(r, tool) ==
    LET mine == {c \in r.storage.caches : c.ref = "refs/heads/" \o r.defaultBranch /\ c.tool = tool}
    IN {c \in mine : \A d \in mine : d.family = c.family => d.created <= c.created}

GoCache(r) ==
    LET families == CacheFamilies(r, "go")
    IN IF ~r.present["go_mod"] \/ ~RecentDefaultRun(r) THEN NotApplicable
       ELSE Observed(families # {} /\ \A f \in families : f.size >= CacheFloor,
                              IF families = {} THEN {<<"none on main">>} ELSE {<<"size">>})

\* The permissions of the job, else of the workflow, else of the repository.
GrantsActionsWrite(r, w, j) ==
    LET p == IF j.permissions.set THEN j.permissions ELSE w.permissions
    IN IF p.set THEN p.all = "write-all" \/ p.actions = "write"
       ELSE r.settings.workflowPermissions = "write"

\* The spellings of true that YAML reads; the code tells them from others
\* without regard to case.
Truths == {"true", "True", "TRUE"}

AnySet(u, keys) == \E k \in keys : With(u, k) # ""

JobsOf(r) == UNION {{<<w, j>> : j \in Jobs(w)} : w \in ReadFiles(r)}

AllSteps(r) == UNION {Reached(r, x[1], x[2]).steps : x \in JobsOf(r)}

\* The files a step may be in that could not be read.
UnreadFiles(r) == UnreadableFiles(r) \cup UNION {Reached(r, x[1], x[2]).unreadable : x \in JobsOf(r)}

CacheNixSteps(r) ==
    UNION {{[u |-> s[1], write |-> GrantsActionsWrite(r, x[1], x[2])] :
              s \in {y \in Reached(r, x[1], x[2]).steps : UsesAction(y[1].action, CacheNix)}} : x \in JobsOf(r)}

CacheNixLacks(problem, u, write) ==
    CASE problem = "no gc-max-store-size" ->
           ~AnySet(u, {"gc-max-store-size", "gc-max-store-size-linux", "gc-max-store-size-macos"})
      [] problem = "no purge" -> With(u, "purge") \notin Truths
      [] problem = "no purge selector" ->
           ~AnySet(u, {"purge-prefixes", "purge-created", "purge-last-accessed", "purge-primary-key"})
      [] OTHER -> ~write

CacheNixProblems(steps, unreadable) ==
    {<<p>> : p \in {q \in {"no gc-max-store-size", "no purge", "no purge selector", "no actions: write"} :
                       \E x \in steps : CacheNixLacks(q, x.u, x.write)}} \cup Unreadable(unreadable)

NixCache(r) ==
    LET families == CacheFamilies(r, "nix")
        inRange == \A f \in families : CacheFloor <= f.size /\ f.size <= NixCacheCeiling
        problems == CacheNixProblems(CacheNixSteps(r), UnreadFiles(r))
    IN IF ~r.present["flake_nix"] \/ ~RecentDefaultRun(r) THEN NotApplicable
       ELSE Observed(families # {} /\ inRange /\ problems = {},
                     problems \cup IF families = {} THEN {<<"none on main">>} ELSE {<<"size">>})

\* usage*10 <= limit*8: at exactly 80% of the limit a repository still passes.
CacheUsage(r) ==
    IF r.storage.limit = 0 THEN NotApplicable
    ELSE Observed(r.storage.usage * 10 <= r.storage.limit * 8, {<<"usage">>})

\* Caches by who keeps them: go- and nix- keys are judged, some belong to an
\* action, the rest are listed as unrecognised.
CacheLists(r) ==
    [unrecognised |-> {c \in r.storage.caches : c.tool = "other"},
     owned |-> {c \in r.storage.caches : c.tool = "action"}]

PRCaches(r) == {c \in r.storage.caches : c.tool \in {"go", "nix"} /\ c.pull}

(***************************************************************************)
(* Nix installers.                                                         *)
(***************************************************************************)
\* input: the value of a key written in any case.  Two spellings of one key
\* are two keys of a Go map, whose order a run does not fix: pick is the
\* spelling this evaluation happens to meet first.
Spellings(u, name) == {k \in DOMAIN u.with : Lower[k] = name}

Input(u, name, pick) ==
    LET found == Spellings(u, name)
    IN IF found = {} THEN [set |-> FALSE, value |-> ""]
       ELSE [set |-> TRUE, value |-> u.with[IF pick \in found THEN pick ELSE CHOOSE k \in found : TRUE]]

DiagnosticsOff(u, pick) ==
    LET i == Input(u, "diagnostic-endpoint", pick) IN i.set /\ i.value = ""

StatisticsOff(u, pick) == Input(u, "send-statistics", pick).value \in {"false", "False", "FALSE"}

TelemetryDisabled(u) == "OTEL_SDK_DISABLED" \in DOMAIN u.env /\ u.env["OTEL_SDK_DISABLED"] \in Truths

FromDeterminate(uses) == ActionRef[uses].pinned /\ ActionRef[uses].owner = "determinatesystems"

DeterminateNix == "determinatesystems/determinate-nix-action"
NixInstallerAction == "determinatesystems/nix-installer-action"

DiagnosticActions == {DeterminateNix, NixInstallerAction, "determinatesystems/magic-nix-cache-action",
                      "determinatesystems/flakehub-cache-action"}

OtherNixInstallers == {NixInstallerAction, "cachix/install-nix-action", "nixbuild/nix-quick-install-action"}

UsesOneOf(u, names) == \E n \in names : UsesAction(u.action, n)

\* What is wrong with a step, as the cell words it.
Telltale(problem, u, pick) ==
    CASE problem = "telemetry on in" -> FromDeterminate(u.action) /\ ~TelemetryDisabled(u)
      [] problem = "diagnostics on in" -> UsesOneOf(u, DiagnosticActions) /\ ~DiagnosticsOff(u, pick)
      [] OTHER -> UsesOneOf(u, {"determinatesystems/flake-checker-action"}) /\ ~StatisticsOff(u, pick)

InstallerCell(steps, unreadable, pick) ==
    LET others == {<<n>> : n \in {o \in OtherNixInstallers : \E s \in steps : UsesOneOf(s[1], {o})}}
        installs == others # {} \/ \E s \in steps : UsesOneOf(s[1], {DeterminateNix})
        problems ==
          Unreadable(unreadable) \cup
          UNION {{<<p, s[2]>> : s \in {x \in steps : Telltale(p, x[1], pick)}} :
                   p \in {"telemetry on in", "diagnostics on in", "statistics on in"}}
    IN IF ~installs /\ problems = {} THEN NotApplicable ELSE NoProblems(others \cup problems)

NixInstaller(r, pick) ==
    IF ~r.present["flake_nix"] THEN NotApplicable ELSE InstallerCell(AllSteps(r), UnreadFiles(r), pick)

(***************************************************************************)
(* Files the collector scanned.                                            *)
(***************************************************************************)
\* Each use of getFlake in a Nix file goes through git.  A file is [path,
\* unreadable, args], an argument the kind of its text: a quoted URL with a
\* scheme, a path: URL, a registry name, or anything else.
GetFlakeThroughGit(arg) == arg \in {"url", "registry"}

NixGetFlakeGit(r) ==
    LET g == r.nixGetFlake
        around(f) == \E a \in f.args : ~GetFlakeThroughGit(a)
    IN IF ~g.nixFiles THEN NotApplicable
       ELSE IF g.tooMany THEN NoProblems({<<"too many Nix files">>})
       ELSE NoProblems({<<"not via git in", f.path>> : f \in {x \in g.files : ~x.unreadable /\ around(x)}}
                         \cup Unreadable({f.path : f \in {x \in g.files : x.unreadable}}))

GoPathNames == {"GOPATH", "GOMODCACHE"}

GoPaths(r) ==
    LET g == r.goPaths
    IN IF ~r.present["go_mod"] \/ ~r.present["flake_nix"] THEN NotApplicable
       ELSE IF g.tooMany THEN Observed(FALSE, {<<"too many Nix files">>})
       ELSE NoProblems({<<n>> : n \in {m \in GoPathNames : \A f \in g.files : f.unreadable \/ m \notin f.lines}}
                                \cup Unreadable({f.path : f \in {h \in g.files : h.unreadable}}))

\* A devshell script is [path, unreadable, exempt, wraps]: exempt is "no",
\* "bare" or "reasoned", wraps whether it enters the devshell by itself.  What
\* is in one that could not be read, here and above, does not count.
DevshellJudged(d) == d.tooMany \/ \E s \in d.scripts : s.unreadable \/ s.exempt # "reasoned"

FailingScripts(d) == {s.path : s \in {x \in d.scripts : ~x.unreadable /\ x.exempt = "no" /\ ~x.wraps}}

DevshellScriptProblems(d) ==
    IF d.tooMany THEN {<<"too many files">>}
    ELSE (IF DevshellJudged(d) /\ d.wrapper = "none" THEN {<<"no .ci/in-devshell">>} ELSE {})
         \cup {<<p>> : p \in FailingScripts(d)}
         \cup {<<s.path, "exempt without a reason">> : s \in {x \in d.scripts : ~x.unreadable /\ x.exempt = "bare"}}
         \cup Unreadable({s.path : s \in {x \in d.scripts : x.unreadable}})

DevshellScripts(r) ==
    IF DevshellJudged(r.devshell) THEN NoProblems(DevshellScriptProblems(r.devshell)) ELSE NotApplicable

WrapperLines == {"wait", "mktemp", "keep_tmpdir", "exit_trap"}

\* The wrapper is "none", "unreadable" or "read", with the lines found in it.
DevshellWrapperProblems(d) ==
    CASE d.wrapper = "none" -> {<<"no .ci/in-devshell">>}
      [] d.wrapper = "unreadable" -> {<<"unreadable">>}
      [] OTHER -> {<<l>> : l \in WrapperLines \ d.wrapperLines}

DevshellTmpCleanup(r) ==
    IF r.devshell.wrapper # "none" \/ DevshellJudged(r.devshell)
      THEN NoProblems(DevshellWrapperProblems(r.devshell)) ELSE NotApplicable
=============================================================================
