# A verification project for github-repos-audit

`github-repos-audit` reads every repository of a GitHub account, judges it by
rules kept in `repos.toml`, and writes one report: a block in `README.md` and a
machine-readable `audit.json`. A report repository runs it every night and
proposes the new report to itself as a pull request that merges by its own
checks.

This directory holds TLA+ modules translated from the source, TLC runs that
check them on small instances, and proofs that TLAPS checks for every instance.
`PROJECT.json` lists components, runs, mutants, the lines each definition
models, hazards and theorems.

## 1. The system

| Component | State | Operations | Talks to |
|---|---|---|---|
| One API request (`internal/github/github.go`, `graphql.go`) | attempt number, last answer, wait | send, judge, back off, give up | GitHub; the caller's context |
| Collection (`collect.go`, `renovate.go`, `internal/renovate`) | errgroup, its context and first error; one `presetCache`; a position per repository | start, read in order, resolve presets, fail, wait | every request; the other collectors through the cache |
| Renovate merge order (`internal/renovate`) | none: functions | layer, override, automerge | collection |
| Configuration (`internal/config`, `schema`) | none: functions | parse, refuse | the command; the rules' words |
| Paging (`storage.go`, `history.go`, `discover.go`, `marketplace.go`) | page, cursor, depth | next page, walk, dereference | requests |
| Claude facts, marketplace (`claude.go`, `internal/claude`) | the tree, a list of blobs | list, read blobs, read what they name | requests |
| CI timing (`ci.go`, `internal/rules/citiming.go`) | none | combine runs, attempts, jobs | requests |
| Text readers (`files.go`, `getflake.go`, `nixflake.go`, ...) | none | parse | requests |
| Command (`cmd/github-repos-audit`) | context of the signals, exit status | load, prepare, collect, write | all of the above; the working directory |
| Report files (`internal/render/write.go`, `splice.go`) | two files, two temp files | stage, rename, remove | the file system |
| Rules (`internal/rules`) | none | judge a snapshot | the command |
| Refresh job (`.ci/refresh-pull-request`, `.ci/lib.sh`, `audit.yml`) | two branches, a pull request, its queued merge | point, commit, create, queue | GitHub; `main`; the previous job |
| Crash and mutation filing (`.ci/fuzz-pull-request`, `.ci/gremlins-pull-request`) | a branch and a pull request per finding | look, point, commit, create | GitHub |
| Release (`.ci/release-*`, `release.yml`) | draft, assets, tag, bundle | propose, sign, publish | GitHub; a rerun of itself |
| Fetch of a release (`.ci/fetch-release-binary`) | a directory | look up, download, verify, mark executable | GitHub |
| Lint scripts and hooks | none | run linters | none |

How they interact. The command builds one `Client`, and everything that reads
GitHub goes through `doRetrying`. `Collect` starts one goroutine per repository;
they share only the group's context and `presetCache`. `render` calls
`WriteFiles` once, after all reading. The refresh job runs `render` in a fresh
checkout and commits its two files through the API; the next night's job starts
from what this one left on GitHub, which is the only state that survives a job.

What is hard.

* *One request*: three kinds of "later" (5xx, a limit in the headers of a 403 or
  429, a GraphQL 200 whose errors array is transient in every entry), a server
  that names a wait in the past or beyond what a run can afford, a context that
  ends during an attempt or between two.
* *Collection*: N goroutines reach one preset at once and their presets extend
  each other in cycles; a failure cancels its siblings, whose errors then come
  in any order; presets are pushed to meanwhile.
* *Writing*: two renames, each of which can fail, and a kill between any two
  system calls; the owner edits the file that is being replaced.
* *Refreshing*: about ten API writes, each of which may take effect and lose its
  answer; a kill between any two; `main`, the branch and the pull request change
  under the job; GitHub closes a pull request whose head equals its base.
* *Reading a repository*: some thirty requests, the tree at one commit and the
  texts at whatever `HEAD` is by then; pages that shift while they are read.
* *Judging*: some of the files are unreadable, words are inherited and
  overridden in three places, filters and package rules have semantics of their own.
* *Filing*: a marker made before the thing it marks.
* *Releasing*: one run at a time and one waiting, whose place a newer one takes;
  two jobs side by side; a release whose tag, once made, stays; runs of old
  commits run again after `main` has changed its mind.

What makes each correct.

* *One request*: it ends; it waits a bounded time; it is resent only after what
  a second send may cure; nothing that means "later" reaches the caller.
* *Collection*: all repositories or none; one request and one version per
  preset; the reported error is the cause and not the cancellation it caused;
  the verdict depends on the presets alone; it returns.
* *Writing*: the status tells what is on disk; `README.md` is never newer than
  the data beside it; an edit made while GitHub was read survives; nothing is
  left behind.
* *Refreshing*: an undisturbed job delivers whatever earlier jobs left; the
  branch is never at its base under an open pull request; a stranger's pull
  request is never merged; an edit on `main` survives the merge.
* *Reading a repository*: lists are whole, and a file the tree names is recorded
  or called unreadable, never passed over; a wait called complete was one; it ends.
* *Judging*: what parses can be judged; an unreadable file hides no failure; the
  worklist is the failures; exactly the overrides without effect are refused.
* *Releasing*: a release is its commit's build, tagged there; versions are
  released one at a time; a green job has passed nothing over; an undisturbed
  one delivers; a fetched binary runs only once it is proved.

## 2. The modules

| Module | Models | Spec shape |
|---|---|---|
| `Request` | what one request promises: one end; an abort only when cancelled | abstract specification |
| `Retry` | `doRetrying` and all it calls to judge an answer | implements `Request` |
| `RetryProofs` | theorems about `Retry` | |
| `Collect` | `Collect`, `collectOne`, `presetCache`, `renovate.Resolve` | uses the contract of `Request` |
| `CollectProofs` | theorems about `Collect` | |
| `Render` | `runRender`, `prepare`, `collect`, `Splice`, `WriteFiles`, `main`'s signals | the steps of one run after another |
| `RenderProofs` | theorems about `Render` | |
| `Refresh` | the refresh job and GitHub around it | `Render` stands behind its first step: both files or none |
| `RefreshProofs` | theorems about `Refresh` | |
| `Filing` | the two scripts that file crashers and version bumps, and GitHub around them | jobs one after another |
| `FilingProofs` | theorems about `Filing` | |
| `Filters`, `WorkflowFile` | branch filters; the reader of workflow and action files | functions |
| `WorkflowRules`, `NixRules`, `ClaudeRules` | what the checks observe, each extending the one before | functions |
| `Renovate` | layers, overrides, presets, automerge | functions |
| `Standard` | types, words, durations, overrides, identities, norms; what `repos.toml` may not say | functions |
| `Audit` | cells, gaps, deviations, coverage: a snapshot's report | functions |
| `Judge` | one audit: load, collect, validate, report or refuse | composes all of these |
| `JudgeProofs` | theorems about `Judge` and the functions under it | |
| `ClaudeLayout` | which files of a tree Claude Code loads | functions |
| `Reads` | `collectOne`'s requests, one by one, and GitHub changing meanwhile | state machine with fairness |
| `ReadsProofs` | theorems about `Reads` | |
| `Release` | `release.yml`'s group, its propose and publish jobs, the owner | jobs side by side |
| `Fetch` | `fetch-release-binary` beside it | composed with `Release` |
| `ReleaseProofs` | theorems about `Release` and `Fetch` | |
| `MC*` | instances for TLC | |

Operators named `...Bare`, `...Late`, `...Anyway` and the like, each under a comment
that starts "Mutant:", are altered forms of the definition that follows. No
specification uses one; the `mutants` of `PROJECT.json` do, to show that each
property notices a bug of the code it is about.

### Retry

`graphql` is whether `doRetrying` was given `graphQLTransient`. `pc` walks one
turn of its loop: `Send` and `Arrive` are `c.send`; the four returns and
`FallAsleep` are the branches after it, in the order of the code; `Wake` and
`WakeCancelled` are the two arms of `waitFor`. An answer is a status, the kinds
of entry in its errors array, a Retry-After (absent, a number of seconds, a date, or
garbled), whether the remaining requests are none, and a reset. `IndicatedWait` reads
them in the order of `indicatedWait`: a garbled Retry-After falls through to the reset.
`Verdict` is `retryWait`'s decision; `Waits` the set of waits it may choose,
`Backoff` its jittered part. `last` and `wait` are local to a turn of the loop and
start afresh with each.

Abstractions. Time is in ticks, `Second` of them a second, and an instant is told from
now. A Duration is an integer of finite width, `-MaxDuration - 1` to `MaxDuration`: the product of a
number of seconds wraps round (`Wrapped`), `Time.Sub` stops at either end, and an
instant past `Horizon` has wrapped round itself (`Until`). The body of an answer is what the errors array tells of
it; decoding is the caller's. `doomed` records that an attempt was sent under a
context already done, for which net/http never returns an answer.

### Collect

`pc[r]` walks `collectOne`'s reads in the order of its calls; a phase is sent,
answered, skipped (when the tree names nothing to read) or failed; an empty
repository has none from its CI on. `sent[r]` is
`"doomed"` for a request that leaves under a finished context. A failing collector
sets `groupErr` once and ends `ctx`, as errgroup does; `Launch` blocks at the
limit. The preset walk is a stack of frames, `todo[r]`: an extends entry and the
presets it was reached through. `Lookup` is the mutex of `presetCache.fetch`,
`Fetch`/`Fetched` the `sync.Once`, and the `Read...` actions what the
resolver makes of the entry: a text, a fallback, no usable text, no file, an
error.

Abstractions. A phase of several requests is one that ends as they do. `Broken`
is a config or preset whose text cannot be used, decided before its extends list
is read. A `minimumReleaseAge` that cannot be used (which the code refuses after
the presets), entries of an extends list that are no string, and presets of
other accounts (which the code leaves unresolved without a request) are left out.

### Render

`pc` walks the calls of `runRender`, `prepare`, `collect` and `WriteFiles`.
`readme` is two numbers: the edit its prose comes from and the run its block
comes from; `json` is a run. Every step can fail; `Signal` ends the context,
`Kill` the process. `Cleanup` is `WriteFiles`' deferred removals, which are
taken to work. A signal has no effect once the last call to GitHub is over, as
in the code, which does not look at its context again.

### Refresh

`log` is `main`, each commit the prose and the report `README.md` has there.
`pc` walks the script. `point_branch` is two actions, its look (whose failure
reads as "no such branch") and its write. A write can fail before its effect,
or after it (`Break` beside the effect). `AutoMerge`, `Close`, `Edit` and `Kill`
happen at any moment; `disturbed` remembers that one of them, or a failed call,
fell into this job. Jobs follow one another, as the concurrency group that the
repository's own README asks of the caller has it (`README.md:110-114`); a
caller without it is outside the model. GitHub's part (what a merge keeps, that
it merges only what is mergeable, one pull request per head, that `gh pr merge`
takes a merged pull request as done) is in the definitions `PROJECT.json` marks
external.

### Filing

`todo` is what a job found and has left to file, its head the item in hand; a
bump is alone in it. `pc` walks the calls of `file_crasher` or of the gremlins
script, which make the same five in another order. `FailTo` is the difference
that matters: a failed call ends the gremlins script (`set -e`), and does
not end `file_crasher`, which is called on the left of `||`. `Lost` stands beside each
effect, for an answer that does not arrive. `MergePR`, `Close`, `Delete`, `Push` and
`Kill` happen at any moment. `had`, `marked` and `ever` are history: which
branches were there, which this job made, which items ever had a pull request.

Abstractions. The two workflows touch different branches and share only `main`,
so one job runs at a time. Preparing a commit's body on disk fails or passes
with the call it is for. A newer version of gremlins beside an unmerged older one is left
out: the two change the same line, and only one of them can be merged.

### Judge and the functions under it

`Judge` is `prepare`, `collect` and `rules.Evaluate` in order; each early
refusal is an action. A *case* is a `repos.toml` and an account; `Collect` parses
the account's documents (`WorkflowFile`), resolves its Renovate configurations
(`Renovate`) and joins them with the declarations (`Standard`). `Audit!Evaluate`
then gives each check's cell by the observation `internal/rules` has for it.

Abstractions. A YAML document is a tree of nodes, so quoting and anchors are
gone and shapes, null and absence are not. Branch names and patterns are
sequences of characters, because matching them is what `Filters` is about; other
strings are values, whose readings (`ActionRef`, `Expression`, `Semver`,
`Spelling`) are constants. Times are days. Wording and order of rows are left out.
`Readings` says what an account may hold where its snapshot says unreadable: any of
`Documents` in a workflow or a composite, any of `Contents` for Claude files as a whole, and for
a skill, a hook or a scanned file the item recorded for it, read.

### Reads

`pc` walks `collectOne`, `got` is what it has read, `hub` what GitHub holds:
commits, runs with jobs, caches and artifacts, and how its pages misbehave (`Faults`): a
next page without a cursor, a cursor that stays, two that alternate, a Link header
that never ends. `Change`
happens between any two requests, a bounded number of times: a push (which may
force others over), a run starting, going on or run again, a cache used,
unreachable commits collected. `Retry`'s contract stands behind each request:
it is answered or the read ends. A file is its mode and its text; `Marks` says
which scan finds something in a text.

Runs are numbered as they are created, so the newest come first in a list of
them; `got.todo` is the runs whose jobs are still to ask for. `got.lists` counts, per
entry, how often a storage listing has had it, expired artifacts left out (`Holds`). History: `got.since`, the commits
`HEAD` was at from the reading of the tree on; `got.full`, the runs as they were when
they were listed, those on later pages included; `got.steady`, the lists nobody
has reordered while they were paged; `hub.ended`, which job of which run ended when.

### Release and Fetch

`main` is a sequence of commits, each the versions its changelog lists and
whether it calls for a release; 0 is a first heading that is no version. `group` is
the concurrency group. `propose.pc` and `publish.pc` walk the two jobs, one action
for each call to GitHub; the looks that only read the checkout are part of the
next one. A write takes effect and may lose its answer; `Kill` takes either job at any step.
`Owner` pushes, withdraws a version that is not out, merges an up-to-date pull request,
tags, leaves a draft, starts a run by hand, runs an old run again. `disturbed`
is history: a call of this job failed, it was killed, or somebody reached into what it
reads. `Fetch` is a run of the script beside all this, for a commit of `main`.

Abstractions. Numbers stand for versions, and "the version the commits call
for" is the next one. Looking at a branch and moving it is one step: nobody else
touches the two branches. The open pull request's number and title are read together. The reads of
a new tag are one. A build and its signature and attestation are one step. Tags stay
once made, and nobody makes a draft while the job makes its own. A run of a dispatch
is not run again, and pull requests from forks, which the code filters out, do not
appear. A SHA256SUMS that does not fit its binary is a damaged binary.

## 3. The runs

| Run | Instance | Shows |
|---|---|---|
| `retry` | four sends (the code's), windows 1, 2, 4, cap 5, five numbers of seconds, five instants | the type, safety, action and liveness properties of a request, and that it implements `Request` |
| `retry_timeout` | the same | finding 1 |
| `collect` | five repositories, two at a time, seven presets, depth 2, one pushed to | all properties of collection, and that it returns |
| `render` | three runs, two edits | what is on disk, under failures, signals and kills |
| `refresh` | three jobs, two edits | delivery, and what is kept, under failures, lost answers and kills |
| `refresh_prose` | the same | finding 2 |
| `filing` | three jobs, two crashers, one version, one push | what is filed, what is kept, what the status says |
| `filing_zero` | the same | finding 3 |
| `judge` | families of cases, each about one part: configurations, triggers, Nix and caches, Claude files, Renovate, overrides | what is refused, what cells and worklist say, what filters and automerge mean |
| `report_order` | a step that spells one input twice | finding 4 |
| `reads` | eight commits, three runs, pages of one to three, four faulty servers, two changes | what facts read at several moments are worth, and that reading ends |
| `release` | four commits, four runs, one fault, one thing done by hand, one leftover draft | what is released, proposed and delivered, what green means, what may be executed |

Why the bounds are enough.

* `retry`: four attempts is the code's constant. The times named lie on each
  side of every comparison with them: past, within the cap, beyond it, beyond a
  Duration (two numbers of seconds, one wrapping to the past and one to a short wait) and
  beyond the horizon. The cap cuts the last backoff window. Statuses left out share a branch with one kept.
* `collect`: two at a time with five to start has a collector waiting for a
  place, two sharing a preset, and one that starts after a failure. The presets
  give each repository another end: a chain too deep by way of a fallback, a
  cycle, a good one, a text that is no preset, a file that is not there; three
  reach one leaf, and one push to that leaf suffices for two versions.
* `render`: what a run finds is its predecessor's outcome, one of four
  (both files, neither, one, killed with temp files); the third run sees what
  two have made of each. Two edits give one before and one inside a run's window.
* `refresh`: three jobs let one repair what two others left; two edits, one
  before and one after a job reads `base_sha`.
* `filing`: two crashers for the loop and its shared status, and three jobs: one that
  files or dies, one that finds what it left, one more after the owner's doings.

* `judge`: each property quantifies over what a case leaves open: every reading of
  the unread files, every set of matching package rules, every branch name of
  `Branches`. The families hold, per rule, documents on each side of its conditions.
* `reads`: every list is longer than a page and the bounds on files are met and
  passed; two changes suffice for a push between two reads and another, or a force
  push and the loss of what it left; each
  faulty server is met on both sets of runs.
* `release`: four commits let a version be merged, withdrawn and proposed again, or one
  released and the next proposed; four runs let a dropped or failed one be run again. `MaxDrafts` is 1
  (the code's is 5): one draft is deleted, two are too many.

`CHECK_DEADLOCK FALSE` stands in every configuration because each of these
systems stops: a request is done, a run is over, the bounded number of jobs
has been made.

Fairness. `Retry`: weak fairness of the loop, because net/http bounds each
attempt with its timeout, timers fire, and the loop itself computes. None is
assumed of the caller's context. `Collect`: weak fairness of each collector
and of the wait, because the Go scheduler runs every runnable goroutine and
each request ends, which is `Retry`'s `Ends`. None is assumed of signals or
pushes. `Reads`: weak fairness of the client, for the same reason; none of
GitHub's changes, which are bounded. `Render`, `Refresh`, `Filing`, `Judge`,
`Release` and `Fetch` assume none and state no liveness: a
person starts them and anybody may kill them; what they owe is stated of the
state in which a run has ended.

## 4. The findings

1. `retry_timeout`: a single answer slower than 30 s ends the run at its first
   attempt. `retryableSendErr` (`github.go:479`) takes every
   `context.DeadlineExceeded` for the caller giving up, and the client's own
   per-request timeout is one. Its comment says that only the caller and an
   oversized body are not resent.
2. `refresh_prose`: the job renders into the checkout made at its start, and
   reads `base_sha` only after minutes of reading GitHub. Prose pushed to `main`
   in between is committed back to its earlier text, and merged. The body of
   the pull request says the report is the only change.
3. `filing_zero`: the branch that stands for "already filed" is made before the
   pull request. After a job that fails or dies in between, each later job that
   finds the same crasher, or the same version, returns 0 with nothing filed. Both
   scripts document 0 as filed.
4. `report_order`: a step whose `with` spells one input in two cases is judged by
   whichever spelling a walk over a Go map meets first, so one snapshot has two
   reports. A comment in `evaluate.go` promises one.

Seen while modelling, and shown by no run:

* `fuzz-pull-request`: when the look at a crasher's branch fails and its pull
  request was closed, the refused POST and the refused commit are passed over (errexit is off
  in `file_crasher`), and a second pull request is opened. The header says nothing
  new is filed. The gremlins script, where errexit is on, is proved not to.
* `DeadExactly` has one exception: a release age in a row the type shows as `info` is
  refused as dead although it changes the word.
* `ci.go`: a page of runs that cuts one commit's runs leaves that commit complete,
  with the wait of the runs on the page.
* `history.go`: the comment at 27-31 promises that a cursor that does not advance aborts the walk
  "rather than looping until the context is cancelled". The guard (line 49) compares with the
  cursor before it only: a server that names two by turns keeps the walk going until then. `Reads` has that
  server, and `ReadEnds` states it as its one exception (`WalksInCircles`).
* `github.go`: `indicatedWait` multiplies a number of seconds by `time.Second` in int64 (line 448), so a
  Retry-After above some 9.2e9 wraps, may come out negative, and is then resent at once; so does an epoch
  of `X-RateLimit-Reset` past what a `Time` holds. The comment on `rateLimitWait` has a limit beyond the cap
  given up. `Retry` has both, and `LimitHonoured` leaves out these two only (`TimesNamed`).
* `release.yml`: a run started by hand takes the waiting place as well. When it drops
  a release commit's run, no run that follows has a publish job, and nothing is red:
  the comment speaks of the next run's publish job, which only a push has.
* `fetch-release-binary`: when `gh release download` fails after it wrote the binary, the mode is
  not cleared; what is left is then as executable as gh made it.

## 5. The proofs

`tlapm` on `RetryProofs`, `CollectProofs`, `RenderProofs`, `RefreshProofs`, `FilingProofs`,
`ReadsProofs`, `ReleaseProofs` and `JudgeProofs`. They rest on the assumptions named in the
modules alone (`RetryAssumption`, `CollectAssumption`, `RenderAssumption`, `RefreshAssumption`,
`FilingAssumption`, `ReadsAssumption`, `ReleaseAssumption`; for `Judge`, `SpellingAssumption`,
`RenovateAssumption`,
`JudgeAssumption`, `ContentsAssumption` and `LettersAssumption`). These say that bounds are
numbers, that the cap on a wait is below the longest Duration, that `None` and the names of different things differ, that no cache or artifact
is listed twice where a read starts, that what is in the past of a read has
happened, that no word of the vocabulary is spelt as a duration, that a
repository and an entry of `repos.toml` have the keys the code reads and a record that can be
unreadable says so (`Recorded`), that a manifest that cannot be read is there and leaves all
Claude files unread, as `claudeFacts` records them, that an account's repositories differ
in name, that a configuration's lists are lists, and that filters and branch names are
spelt. Everything else is free: budgets, windows, caps, statuses, repositories,
presets, extends lists, filter patterns, branch names, limits, depths, crashers, versions, histories, trees, manifests,
pages, faults, and the number of jobs, edits, commits, runs, drafts and changes.
Each module's types are part of its invariant, and so no run repeats the type
invariant of a module that has one in its theorems. Every inductive invariant below was
an invariant of a TLC run before it was proved.

* `RetryProofs`. `TypeCorrect` holds by the guards of `FallAsleep` and the range of
  `Backoff`. `WaitingIsBounded` is not inductive as stated: `slept` must be tied
  to the attempt, `slept <= (attempt - 1) * MaxWait`, and asleep implies another
  attempt is left. `AnswersAreFinal` needs that `outcome = "answer"` fixes `last`.
  `ResendsAreCurable` needs that a request asleep got there by an answer or an
  error that calls for another. `LimitsAreHonoured` needs that one asleep after a limit
  sleeps a wait `Waits` allows, which is the one indicated (`WaitOK`), and that whatever time a
  limit names, REST or GraphQL, is the one indicated (`NamedIsIndicated`): a product that
  fits a Duration does not wrap (`WrappedIs`), and a wait cut at the longest Duration is beyond the
  cap all the same (`UntilIs`).
  `RetryImplementsRequest` is the refinement: the loop's four returns and its
  cancelled wait are `Request`'s end, each other step a stutter or the caller's
  cancelling; an end by abort is allowed because an attempt fails with the caller's
  context only once that is done (`ContextOK`).
* `CollectProofs`. `PresetsFetchedOnce` and `OneVersionPerRun` share an invariant
  about the cache: an entry not yet fetched has cost no request, one running or
  over has cost one, and every version seen is the one its entry keeps. A fetch is
  run by exactly the collector the entry names, so no two can end it.
  `CauseIsReported` strengthens the property to the collectors: while the
  context lives nothing is doomed and no entry holds an abort, and it ends by
  a signal or with the first error, which is then never an abort.
  `CollectedWhole` needs that a failed collector leaves `groupErr` set, and that one
  past its presets has decided its facts. `PresetsDecideAlone` compares the
  stack walk with a definition that quantifies over chains of any length.
  Its invariant (`VerdictInv`): each frame of the stack is a chain from the
  repository that is fine so far, and each chain is fine to its end or has a frame
  on its way; so an empty stack leaves no chain that is not fine, and a refused
  entry is the end of one. What the cache holds is what the file is (`HeldOK`).
* `RenderProofs`. By the step a run is at, `DiskInv` says which run each
  file is from and which temp files exist; `ReadmeIsNeverAhead`,
  `StatusTellsDisk` and `NothingLeftBehind` are readings of it. `EditsAreKept` needs that
  short of an edit between `os.ReadFile` and the rename, every copy of `README.md` the run
  has in hand carries the owner's latest prose (`ProseInv`). `InterruptedLeavesReport`
  needs that a call sent after the signal is never a live one (`InterruptInv`).
* `RefreshProofs`. `OthersAreLeftAlone` follows the number a job has in hand
  (`OwnInv`). `BranchIsNeverAtBase` needs that the refresh branch is absent or holds a
  made commit, at most one pull request open on it (`BranchInv`). `EditsAreKept` ties every
  commit that could be merged to the prose of its base (`ProseInv`), and so does
  `MergesChangeOnlyTheReport`, which is finding 2's property short of the late edit.
  `UndisturbedJobDelivers` needs what a job has
  established by each step: nobody else moves the staging branch (`StagingInv`), and
  short of a disturbance the branches are as last seen and the pull request found is
  still open (`UndisturbedInv`), whatever earlier jobs left.
* `FilingProofs`. `ZeroTells` needs what a job still owes (`LeftOK`: found, and
  neither filed nor marked before, means left to do), and that the item in hand,
  when its branch is found there, is not one this job marked itself
  (`OnceOK`, `FreshOK`, `BranchOK`). `NotClobbered` needs that an open pull request's
  branch has something on it, so that neither POST nor the commit's
  expected head fits it (`OpenOK`). `BumpFiledByItsMaker` needs `BumpOK`: past POST,
  a bump's branch is this job's own. `UndisturbedJobFiles` needs `FiledOK`: short of a
  disturbance nothing has set the status, the item in hand is as far as the step
  says, and what had no branch is filed or left to do.
* `ReadsProofs`. `ReadsAreConsistent` is one invariant in ten parts, which tie what was
  read to a GitHub that has moved on. `HistoryAndListsAreWhole` needs that the walk
  has the identities of the commits up to its cursor, all of one commit's history
  (`WalkInv`; under a server whose cursors alternate that there is always more, so that no
  such walk is ever read to its end), and that the pages of a list nobody has reordered are a prefix
  counted once (`ListInv`, by the injectivity of lists, which moving to the front
  keeps). `CompleteIsComplete` needs that a run completed when it was
  listed still has the jobs it had, or has been run again and so has an end later than
  each of those or none (`FullInv`), also as they were read (`JobsInv`): then a
  commit called complete has waited for all of them (`TimingInv`). `FilesAreNotPassedOver`
  needs that each text read is one some commit since the tree has at that path
  (`BlobsInv`), and what each round of `claudeFacts` and each scan has asked for
  (`ClaudeInv`, `ScanInv`).
* `ReleaseProofs`, of `FetchSpec`. `GreenIsOut` needs that a published release's
  version is tagged (`PublishedIsTagged`, for a job that ends at one) and that no
  tag is ever taken away. `OneReleaseAtATime` is an order on every changelog:
  below any version all are tagged (`LogsOK`). It lasts because a proposal
  is put on top of a log that is tagged throughout (`CheckedOK`: `BeingPublished` and
  `Unreadable` were false of it, and the tags the job knew were true, `KnownOK`), and
  so is what its branch holds when it is merged (`BranchOK`). `ExecutableIsProved`
  needs that attestations are never taken back, and that past `ClearMode` nothing is
  executable before the last step, which both checks come before (`FetchOK`).
  `ReleasesAreTrue` needs what a publish job knows by each step: the commit it
  has in hand brought its version in and is attested once built (`SourceOK`), the draft it made is
  the only one of its name (`DraftsOK`), and drafts and releases that nobody made by hand
  say so (`ReleasesOK`). `UndisturbedJobsDo` adds `DueOK` and `ProposalOK`: what a job that is due and not
  disturbed can still count on, the drafts in its way within `MaxDrafts` included.
* `JudgeProofs`. The state needs little: an accepted file parses, a snapshot is of its
  repositories under its types, a report is one of the snapshot (`IInv`). The rest is lemmas
  about the functions. `DeadOverridesExactly` splits on which half of the validation
  decides: `HeldByType` says what a check without an override is held to, and
  `DeadChangesNothing` that an override the snapshot condemns leaves just that. `ParsedIsJudged`
  needs that a check nobody can judge is required by no type (`CompiledWords`) and by no
  override (`OverrideWords`), with no word that spells a duration taken for another
  (`NoWordIsDuration`). `FailuresAreListed` needs that the checks whose cells the general rows leave
  out never fail (`ValueNeverFails`), or fail just as the rows of their own list them:
  `community_files` by a missing file (`CommunityFailsByFile`), `direct_push` by what it
  observed (`DirectPushNamesIt`). `CreditIsMerging` goes by the least number of package rules
  at which the loop would credit what Renovate does not do (`RuleKeepsVouched`, `CreditedMerges`),
  and needs that whatever a configuration extends, through cycles and past the limit, comes to
  a list of rules that each say true, false or nothing (`LayerIsRuled`). `SearchIsMeaning` is about
  `matchFilter`'s search, which threads its memo through its calls. The meaning of the rest
  of a pattern from a position (`Fits`) takes one token at a time (`FitsByKind`); a memo is
  sound when each pair in it does not fit (`Sound`), and the search of the tokens from one on
  is right when from any sound memo it tells whether they fit and leaves a sound memo
  (`Right`). Each token keeps that (`StarRight`, `PlusRight`, `OnceRight`, `SearchedRight`),
  where two pairs must never share a place in the memo (`KeysDiffer`), and a whole pattern
  then has it too (`AtFits`), whatever `parseFilter` made of it (`ParseListed`). That the recursions
  have values at all is proved by the same least-number argument (`StackedRuns`,
  `AppliedRuns`, `MergesRuns`, `LayerRuns`, `StarRuns`, `PlusRuns`, `SearchRuns`, `ParseRuns`).
  `UnreadNeverHides` compares two accounts, the one in the snapshot and any reading of it. They
  agree on all but the files (`ReadAs`, `ReadingIsReadAs`), so what a repository is held to and
  every observation of other facts are the same (`HeldAlike`, `RepositoryAlike`, `IdentityAlike`,
  `PushCellAlike`). An observation is `Fine` when it cannot fail a repository held to it, and
  `Fails` when it does. Each check that reads files is compared by itself, in one of two ways.
  What was seen to be right still is: a workflow that runs (`TriggerKept`), a step that refreshes
  the lock (`RefreshKept`). Or the check fails where a file was not read, and so a cell that
  passes has read them all and sees what it saw: steps (`AllStepsKept`), scanned files
  (`GetFlakeKept`, `GoPathsKept`, `JudgedKept`), Claude files and marketplace entries (`SkillsKept`, `HooksKept`,
  `EntryItemsKept`), and the places a job's composites lead to, compared depth by depth
  (`PlacesKept`). Whether there is a plugin is known without its manifest (`PluginKept`). `CellKept` puts
  the checks together.

Only model-checked: liveness (`Ends`, `Returns`, `ReadEnds`), which the prover cannot
take. Every other property of a passing run is a theorem.

## 6. Not modelled, and why

* Parsing of texts other than workflows (flakes, getFlake calls, shell scripts, TOML,
  JSON, manifests, hooks) and formatting of the report: pure functions of one text
  with tests of their own. What is made of a text that cannot be read or used is modelled.
* `Discover`'s list of repositories, `tagCommit`, the look-ups of marketplace sources and the settings queries:
  single answers, or lists read like the ones in `Reads`.
* `json` and `validate`: the first is `render` without files, the second
  writes nothing.
* The marker layouts `Splice` refuses.
* Building the release's files, the changelog's text, dry runs.
* Fuzzing and mutation runs, `fuzz-failure-issue`, lint scripts, coverage scripts and hooks: sequential,
  and each is over with its run.
* A file system that loses a rename after it returned, and one that fails
  to remove a temp file.

## 7. The plan

What would add most, in this order.

1. `Discover` and `tagCommit` in `Reads`; the marker layouts of `Splice`.
2. An abstract specification of a release (a version is out once, from one commit) that
   `Release` implements.
