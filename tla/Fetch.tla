------------------------------- MODULE Fetch -------------------------------
(* .ci/fetch-release-binary, as the report repositories run it: the binary of *)
(* the release cut from the commit they pinned, while releases are made.      *)
EXTENDS Release

CONSTANTS None

VARIABLE fetch  \* the script: its step, the commit pinned, the tag, the file and SHA256SUMS

fetchVars == <<vars, fetch>>

FetchInit ==
    /\ Init
    /\ fetch = [pc |-> "idle", sha |-> 0, tag |-> 0, file |-> None, sums |-> None, exec |-> FALSE]

To(step) == fetch' = [fetch EXCEPT !.pc = step]

\* Whatever fails, what was downloaded is left as it is, looked at or not.
FetchFails ==
    fetch' = [fetch EXCEPT !.pc = IF @ \in {"download", "mode"} THEN "left" ELSE "failed",
                           !.sha = 0, !.tag = 0, !.sums = None]

\* A call fails, or the runner dies.
FetchBreaks ==
    /\ fetch.pc \in {"download", "mode", "checksum", "attestation", "executable"} /\ FetchFails
    /\ UNCHANGED vars

TagsAt(n) == {v \in Versions : tags[v] = n}

\* Exactly one version is tagged at the commit pinned; with none or several the
\* script ends as it began, and may be run again.
FindTag ==
    /\ fetch.pc = "idle"
    /\ \E n \in Commits : Cardinality(TagsAt(n)) = 1 /\
         \E v \in TagsAt(n) : fetch' = [fetch EXCEPT !.pc = "download", !.sha = n, !.tag = v]
    /\ UNCHANGED vars

Damaged == Bytes(0, FALSE)

\* What arrives is what the release holds; or the binary damaged or no regular
\* file, or no SHA256SUMS.  It may be executable.
Arrives(bytes) == {[file |-> f, sums |-> bytes.built] : f \in {bytes, Damaged, None}} \cup {[file |-> bytes, sums |-> None]}

Download ==
    /\ fetch.pc = "download"
    /\ IF Published(fetch.tag) = {} THEN FetchFails
       ELSE \E i \in Published(fetch.tag) :
              \E a \in Arrives(releases[i].bytes) :
                fetch' = [fetch EXCEPT !.pc = "mode", !.file = a.file, !.sums = a.sums, !.exec = TRUE]
    /\ UNCHANGED vars

ClearMode ==
    /\ fetch.pc = "mode"
    /\ IF fetch.file = None THEN FetchFails
       ELSE fetch' = [fetch EXCEPT !.pc = "checksum", !.exec = FALSE]
    /\ UNCHANGED vars

\* SHA256SUMS lists the digest of a whole build.
VerifyChecksum ==
    /\ fetch.pc = "checksum"
    /\ IF fetch.sums # None /\ fetch.file = Bytes(fetch.sums, TRUE) THEN To("attestation") ELSE FetchFails
    /\ UNCHANGED vars

\* Mutant: provenance of some commit's build is enough.
ProvedFromAny(file) == \E n \in attested : file = Bytes(n, TRUE)

\* The provenance names the release workflow and the commit pinned.
Proved(file) == fetch.sha \in attested /\ file = Bytes(fetch.sha, TRUE)

VerifyAttestation ==
    /\ fetch.pc = "attestation"
    /\ IF Proved(fetch.file) THEN To("executable") ELSE FetchFails
    /\ UNCHANGED vars

MakeExecutable ==
    /\ fetch.pc = "executable"
    /\ fetch' = [fetch EXCEPT !.pc = "fetched", !.exec = TRUE]
    /\ UNCHANGED vars

\* Bound: nothing more is watched once the script has ended.
Watched == fetch.pc \notin {"left", "failed", "fetched"}

FetchNext ==
    \/ Watched /\ Next /\ UNCHANGED fetch
    \/ FindTag \/ Download \/ ClearMode \/ VerifyChecksum \/ VerifyAttestation \/ MakeExecutable
    \/ FetchBreaks

FetchSpec == FetchInit /\ [][FetchNext]_fetchVars

-----------------------------------------------------------------------------

\* A binary this script leaves executable once it has cleared its mode is the
\* build of the commit that was pinned, whole and attested, however that release
\* came to be: a run that failed half way, a draft, a tag made by hand
\* (fetch-release-binary's main).
ExecutableIsProved ==
    fetch.exec /\ fetch.pc \notin {"mode", "left"} =>
      fetch.sha \in attested /\ fetch.file = Bytes(fetch.sha, TRUE)
=============================================================================
