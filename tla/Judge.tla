------------------------------- MODULE Judge -------------------------------
(***************************************************************************)
(* One audit, from repos.toml and the account to the report:               *)
(* cmd/github-repos-audit/collect.go's prepare and collect, then           *)
(* rules.Evaluate.  A case is [config, account]: the file, and what GitHub *)
(* holds (repositories with the documents of their files, and the          *)
(* marketplace file).  Reading the account is one step here; Reads has its *)
(* requests.                                                               *)
(***************************************************************************)
EXTENDS Audit, Renovate

CONSTANTS Cases,     \* the files and accounts a run tries, in families
          Documents, \* what a workflow or a composite that was not read may say
          Contents,  \* what Claude Code files that were not read may be
          Picks,     \* the orders in which a Go map may be walked
          Branches   \* the branch names a filter is tried on

RepositoryFields ==
    {"name", "type", "published", "overrides", "visibility", "description", "homepage", "license", "topics",
     "empty", "identities", "files", "present", "workflows", "actions", "renovate", "dashboard", "flake", "claude",
     "releases", "rulesets", "branch", "settings", "ciState", "lastDefaultRun", "storage", "nixGetFlake",
     "goPaths", "devshell", "defaultBranch"}

\* Records that say of themselves whether they were read.
Marked(items) ==
    \A x \in items : /\ x = [k \in DOMAIN x |-> x[k]]
                     /\ "unreadable" \in DOMAIN x /\ x.unreadable \in BOOLEAN

\* claudeFacts: a manifest is there or not by the tree; one that cannot be read
\* makes all of it unreadable.
ClaudeRecorded(cl) ==
    /\ {"skills", "commands", "hooks", "plugin", "unreadable"} \subseteq DOMAIN cl
    /\ {"present", "unreadable"} \subseteq DOMAIN cl.plugin
    /\ Marked(cl.skills) /\ Marked(cl.commands)
    /\ Marked(cl.hooks) /\ \A h \in cl.hooks : "plugin" \in DOMAIN h
    /\ cl.plugin.unreadable => cl.plugin.present /\ cl.unreadable

Recorded(r) ==
    /\ RepositoryFields \subseteq DOMAIN r /\ IsFiniteSet(r.actions) /\ ClaudeRecorded(r.claude)
    /\ {"nixFiles", "tooMany", "files"} \subseteq DOMAIN r.nixGetFlake /\ Marked(r.nixGetFlake.files)
    /\ {"tooMany", "files"} \subseteq DOMAIN r.goPaths /\ Marked(r.goPaths.files)
    /\ {"tooMany", "scripts", "wrapper", "wrapperLines"} \subseteq DOMAIN r.devshell /\ Marked(r.devshell.scripts)

\* A repository is recorded in full, and an entry of repos.toml has its keys.
ASSUME JudgeAssumption ==
    \A i \in DOMAIN Cases : \A c \in Cases[i] :
      /\ \A r \in c.account.repos : Recorded(r)
      /\ \A n \in DOMAIN c.config.repos : {"published", "overrides"} \subseteq DOMAIN c.config.repos[n]
      /\ \A r, s \in c.account.repos : r.name = s.name => r = s
      /\ \A r \in c.account.repos : WellFormed(r.renovate)
      /\ \A k \in DOMAIN c.account.presets : WellFormed(c.account.presets[k])

ASSUME ContentsAssumption == \A cl \in Contents : ClaudeRecorded(cl) /\ ~cl.unreadable

Filtered(w) == UNION {ToSet(f.branches) \cup ToSet(f.ignore) : f \in {w.pr.filter, w.prt.filter, w.push.filter}}

\* The filters of the files, and the branch names, are spelt out.
ASSUME LettersAssumption ==
    LET words == DOMAIN Letters
    IN /\ Branches \subseteq words
       /\ \A i \in DOMAIN Cases : \A c \in Cases[i] : \A r \in c.account.repos : \A k \in DOMAIN r.workflows :
            Filtered(ParseWorkflow(r.workflows[k].path, r.workflows[k].doc)) \subseteq words
       /\ \A word \in words : Letters[word] \in Seq(ToSet(Letters[word]))

VARIABLES case, phase, snap, report

vars == <<case, phase, snap, report>>

Nothing == [repos |-> {}]

Init == /\ \E i \in DOMAIN Cases : case \in Cases[i]
        /\ phase = "start" /\ snap = Nothing /\ report = Nothing

Config == case.config

Discovered == {r.name : r \in case.account.repos}

Configured == Discovered \cap DOMAIN Config.repos

Refuse == phase' = "refused" /\ UNCHANGED <<case, snap, report>>

\* A file that does not parse, or says something dead whatever GitHub holds,
\* costs no request.
Usable == /\ Parses(Config)
          /\ \A n \in DOMAIN Config.repos : OfflineDead(Config.types, Config.repos[n]) = {}

Load == /\ phase = "start" /\ Usable
        /\ phase' = "loaded" /\ UNCHANGED <<case, snap, report>>

Unusable == phase = "start" /\ ~Usable /\ Refuse

\* A file and an account with nothing in common have no report.
NothingInCommon == phase = "loaded" /\ Configured = {} /\ Refuse

\* collectOne, then collect: the files as they parse, and what repos.toml declares.
Facts(r) ==
    LET declared == Config.repos[r.name]
    IN [r EXCEPT !.type = declared.type, !.published = declared.published, !.overrides = declared.overrides,
                 !.workflows = [i \in DOMAIN @ |-> ParseWorkflow(@[i].path, @[i].doc)],
                 !.actions = {ParseComposite(a.path, a.doc) : a \in @},
                 !.renovate = ResolveConfig(@, case.account.presets)]

NoMarketplace == [repo |-> "", unreadable |-> FALSE, entries |-> <<>>]

Collect ==
    /\ phase = "loaded" /\ Configured # {}
    /\ snap' = [owner |-> Owner, types |-> Config.types, identity |-> Config.identity,
                repos |-> {Facts(r) : r \in {q \in case.account.repos : q.name \in Configured}},
                drift |-> Coverage(Discovered, DOMAIN Config.repos), marketplace |-> NoMarketplace]
    /\ phase' = "collected" /\ UNCHANGED <<case, report>>

Invalid == \E r \in snap.repos : LiveProblems(snap.types, r, r.visibility = "public") # {}

Validate == /\ phase = "collected" /\ ~Invalid
            /\ snap' = IF Config.marketplace = "" THEN snap
                       ELSE [snap EXCEPT !.marketplace = [case.account.marketplace EXCEPT !.repo = Config.marketplace]]
            /\ phase' = "validated" /\ UNCHANGED <<case, report>>

Reject == phase = "collected" /\ Invalid /\ Refuse

\* A walk over a map takes any order, each time the snapshot is evaluated.
Report == /\ phase \in {"validated", "reported"} /\ ~EvaluateFails(snap)
          /\ \E pick \in Picks : report' = Evaluate(snap, pick)
          /\ phase' = "reported" /\ UNCHANGED <<case, snap>>

Next == Load \/ Unusable \/ NothingInCommon \/ Collect \/ Validate \/ Reject \/ Report

Spec == Init /\ [][Next]_vars

-----------------------------------------------------------------------------

\* What parses can be judged: evaluating a snapshot never fails once its file
\* was accepted (config.Parse's identity and type checks against evaluateRepo's
\* errors, met only after minutes of requests).
AcceptedIsJudged == phase = "validated" => ~EvaluateFails(snap)

(***************************************************************************)
(* Readings: what the account holds where a snapshot says unreadable.      *)
(***************************************************************************)
Shown(items) == {[x EXCEPT !.unreadable = FALSE] : x \in items}

\* Whether there is a manifest is known of files that were not read.
ReadClaude(cl, content) ==
    IF cl.unreadable THEN [content EXCEPT !.plugin.present = cl.plugin.present]
    ELSE [cl EXCEPT !.skills = Shown(@), !.commands = Shown(@), !.hooks = Shown(@)]

Reading(r, workflows, composites, contents) ==
    [r EXCEPT !.workflows = [i \in DOMAIN @ |-> IF @[i].parseError
                                                 THEN ParseWorkflow(@[i].path, workflows[<<r.name, @[i].path>>]) ELSE @[i]],
              !.actions = {IF a.parseError THEN ParseComposite(a.path, composites[<<r.name, a.path>>]) ELSE a : a \in @},
              !.claude = ReadClaude(@, contents[r.name]),
              !.nixGetFlake.files = Shown(@), !.goPaths.files = Shown(@), !.devshell.scripts = Shown(@),
              !.devshell.wrapper = IF @ = "unreadable" THEN "read" ELSE @]

UnreadWorkflows == UNION {{<<r.name, p>> : p \in UnreadableFiles(r)} : r \in snap.repos}

UnreadComposites == UNION {{<<r.name, a.path>> : a \in {x \in r.actions : x.parseError}} : r \in snap.repos}

UnreadClaudes == {r.name : r \in {q \in snap.repos : q.claude.unreadable}}

\* Every file that was not read may say something else.
Readings ==
    {[r \in snap.repos |-> Reading(r, workflows, composites, contents)] :
       workflows \in [UnreadWorkflows -> Documents], composites \in [UnreadComposites -> Documents],
       contents \in [UnreadClaudes -> Contents]}

Verdict(c, r, judged, pick) == EvaluateCell(c, r, TypeSpec(judged.types[r.type]), judged, pick).verdict

\* A file that could not be read never hides a failure: a cell that passes, or
\* does not apply, would not have failed with every file read, whatever the
\* unread ones say (the comments of observeTrigger, cacheNixProblems, countedCell
\* and appendFiles).
UnreadHidesNoFailure ==
    phase = "validated" =>
      \A read \in Readings, pick \in Picks :
        LET there == [snap EXCEPT !.repos = {read[r] : r \in snap.repos}]
        IN there # snap =>
             \A r \in snap.repos, c \in Check :
               Verdict(c, r, snap, pick) \in {"pass", "na"} => Verdict(c, read[r], there, pick) # "fail"

\* The worklist has every failure and nothing else (collectGaps): a repository
\* is under a label of a check exactly when that check of it fails.
EveryFailureListed ==
    phase = "reported" =>
      \A n \in DOMAIN report.cells, c \in Check :
        report.cells[n][c].verdict = "fail" <=> \E g \in report.gaps : g.check = c /\ n \in g.repos

(***************************************************************************)
(* Overrides.                                                              *)
(***************************************************************************)
Spec1(r) == TypeSpec(Config.types[Config.repos[r.name].type])

HeldWithout(c, r) ==
    LET decl == Config.repos[r.name]
    IN Held(c, Spec1(r), [decl EXCEPT !.overrides = [k \in DOMAIN @ \ {c} |-> @[k]]], r.visibility = "public")

ChangesNothing(c, r) ==
    Held(c, Spec1(r), Config.repos[r.name], r.visibility = "public") = HeldWithout(c, r)

Condemned(r) ==
    OfflineDead(Config.types, Config.repos[r.name])
      \cup LiveDead(Config.types, Config.repos[r.name], r.visibility = "public")

Audited == {r \in case.account.repos : r.name \in Configured}

\* ValidateOffline and Validate between them condemn exactly the overrides that
\* change nothing of what the repository is held to, whatever its visibility
\* and publication; a release age in a row shown as info is condemned always.
DeadExactly ==
    phase \in {"loaded", "refused"} /\ Parses(Config) =>
      \A r \in Audited : \A c \in DOMAIN Config.repos[r.name].overrides :
        \/ c \in Condemned(r) <=> ChangesNothing(c, r)
        \/ c = Threshold /\ Spec1(r).cells[c] = "info" /\ c \in Condemned(r)

(***************************************************************************)
(* Renovate and filters.                                                   *)
(***************************************************************************)
\* A repository credited with merging its major updates merges every one of
\* them: whichever package rules match a package, Renovate merges its major
\* update with the layers as they are (majorsAutoMerge).
AutomergeMeans ==
    phase = "collected" =>
      \A r \in snap.repos : r.renovate.automergeMajor =>
        LET raw == CHOOSE q \in case.account.repos : q.name = r.name
        IN \A l \in {Layer(raw.renovate, case.account.presets).layer} :
             \A matching \in SUBSET DOMAIN l.rules : Merges(l, matching)

\* A branch filter admits what its syntax says: matchFilter's search with its
\* memo finds a way to match a name exactly when there is one.
FilterMeaning ==
    phase = "collected" =>
      \A r \in snap.repos : \A w \in Files(r) : \A p \in Filtered(w), b \in Branches :
        MatchFilter(Letters[p], Letters[b]) <=> Means(Letters[p], Letters[b])

\* The same snapshot evaluates to the same report whenever it is read
\* (compareNames's comment in evaluate.go).
SameReport == [][phase = "reported" => report' = report]_vars

=============================================================================
