---------------------------- MODULE ParamRelease -----------------------------
(***************************************************************************)
(* New proving and verifying keys, from gen_params to the pull requests in *)
(* the repositories that use them: runs of generate-params.yml, several at *)
(* a time because its concurrency group is the run's own id, and runs of   *)
(* gen_params by hand.  Any of them may stop at any step and tear the file *)
(* it is writing.  The parameters of a run are named by the run, those in  *)
(* use before by None, and others that a repository may still name by the  *)
(* ids in Older.                                                           *)
(***************************************************************************)
EXTENDS Naturals, Sequences

CONSTANTS
  Runs,      \* of the workflow or of gen_params by hand
  None,      \* the parameters in use at first
  Older,     \* ids from before those
  Retired,   \* the ids that the consistency check scans for
  Repos,     \* repositories that parameters are propagated to
  First,     \* what their branches name at first, wherever they have drifted to
  HasToken,  \* secrets.CLOUDFLARE_API_TOKEN is set
  HasPat     \* secrets.PROVII_PAT is set

Id == Runs \cup {None}

ASSUME NoneAssumption == None \notin Runs
ASSUME OlderAssumption == Older \cap Id = {} /\ Retired \subseteq Older
ASSUME RepoAssumption ==
  Repos \subseteq {"provii-verifier", "provii-mobile-sdk", "provii-agegate", "provii-management"}
ASSUME SecretAssumption == HasToken \in BOOLEAN /\ HasPat \in BOOLEAN

VARIABLES
  run,      \* state and files of every run
  log,      \* the manifests that were committed, the last one in use
  keys,     \* verifying keys in the committed tree
  cdn,      \* proving keys in the bucket
  releases, \* GitHub releases
  job,      \* the propagation of a run to a repository
  main      \* the default branches of the repositories, as the ids they name

vars == <<run, log, keys, cdn, releases, job, main>>

------------------------------------------------------------------------------
(* What propagate-zk-params.sh and check-zk-param-consistency.sh know of a    *)
(* repository: places that hold an id, or something made from it.              *)

\* Where the script reads the old id; management's grep pattern matches nothing.
Detected == [repo \in Repos |->
  CASE repo = "provii-verifier"   -> "VK_ID"
    [] repo = "provii-mobile-sdk" -> "VK_ID"
    [] repo = "provii-agegate"    -> "DEFAULT_VERIFYING_KEY_ID"
    [] repo = "provii-management" -> "nowhere"]

\* Places whose old value the script looks for.
ByOld == [repo \in Repos |->
  CASE repo = "provii-verifier"   -> {"include_bytes", "VK_ID", "test"}
    [] repo = "provii-mobile-sdk" -> {"VK_ID", "test", "verify.rs"}
    [] repo = "provii-agegate"    -> {"DEFAULT_VERIFYING_KEY_ID", "JSDoc", "@default"}
    [] repo = "provii-management" -> {"verifier-manager", "schema"}]

\* Places it finds by their name, or with an old value of their own.
ByName == [repo \in Repos |->
  CASE repo = "provii-verifier"   -> {"CHECKSUM"}
    [] repo = "provii-mobile-sdk" -> {"PK_URL", "PK_SIZE", "PK_BLAKE2S"}
    [] OTHER -> {}]

\* Places that only --vk-binary and the repository type provii-verifier-hosted change:
\* the workflow passes neither.
ByOtherCalls == [repo \in Repos |->
  IF repo = "provii-verifier" THEN {"vk.bin", "responses.rs"} ELSE {}]

References == [repo \in Repos |-> ByOld[repo] \cup ByName[repo] \cup ByOtherCalls[repo]]

\* The artifact of the run is downloaded into the checkout, where git add finds it.
Places == [repo \in Repos |-> References[repo] \cup {"manifest/"}]

ASSUME FirstAssumption == \A repo \in Repos : First[repo] \in [Places[repo] -> Older \cup {None}]

\* Places the consistency check looks at.
Checked == [repo \in Repos |->
  CASE repo = "provii-verifier"   -> {"include_bytes", "VK_ID", "CHECKSUM", "vk.bin", "responses.rs"}
    [] repo = "provii-mobile-sdk" -> {"VK_ID", "PK_URL", "PK_SIZE", "PK_BLAKE2S"}
    [] repo = "provii-agegate"    -> {"DEFAULT_VERIFYING_KEY_ID"}
    [] repo = "provii-management" -> {"verifier-manager", "schema"}]

\* Places where its scan for retired ids would see one: the others hold no id, or no source.
Scanned == [repo \in Repos |->
  References[repo] \ {"CHECKSUM", "PK_SIZE", "PK_BLAKE2S", "vk.bin"}]

\* git add takes *.json, *.toml, *.rs and *.bin, so no TypeScript.
Rust == {"provii-verifier", "provii-mobile-sdk"}

\* Broken: the id is replaced before it is looked for elsewhere.
PropagateToConstant(repo, tree, id) ==
  [p \in DOMAIN tree |-> IF p \in ByName[repo] \/ p = Detected[repo] THEN id ELSE tree[p]]

\* A whole run of the script on a fresh clone.
Propagate(repo, tree, id) ==
  [p \in DOMAIN tree |->
     IF p \in ByName[repo] \/ (p \in ByOld[repo] /\ tree[p] = tree[Detected[repo]])
     THEN id ELSE tree[p]]

\* What git add stages of a run's job.
Committed(repo, tree, id) ==
  [(IF repo \in Rust THEN Propagate(repo, tree, id) ELSE tree) EXCEPT !["manifest/"] = id]

------------------------------------------------------------------------------

Kinds == {"ci", "root", "elsewhere"}  \* by hand in the workspace root or not
Files == {"pk", "vk", "own", "manifest", "root_vk"}

\* The file a run is about to write.
Writing(r) == IF run[r].pc = "copy"
              THEN {f \in {"root_vk"} : run[r].kind = "elsewhere"}
              ELSE {run[r].pc} \cap Files

Goto(r, pc, files) == run' = [run EXCEPT ![r] = [@ EXCEPT !.pc = pc, !.files = files]]

NoFiles == [f \in Files |-> "none"]
NoJob == [pc |-> "idle", base |-> <<>>, tree |-> <<>>]

Init ==
  /\ run = [r \in Runs |-> [pc |-> "idle", kind |-> "ci", base |-> 0, good |-> TRUE,
                            files |-> NoFiles]]
  /\ log = <<None>> /\ keys = {[id |-> None, file |-> "whole"]}
  /\ cdn = {None} /\ releases = {None}
  /\ job = [r \in Runs |-> [repo \in Repos |-> NoJob]]
  /\ main = [repo \in Repos |-> First[repo]]

\* A checkout, and parameters that validation will find good or not.
Start(r) ==
  /\ run[r].pc = "idle"
  /\ \E kind \in Kinds, good \in BOOLEAN :
       run' = [run EXCEPT ![r] = [@ EXCEPT !.pc = "pk", !.kind = kind, !.base = Len(log), !.good = good]]
  /\ UNCHANGED <<log, keys, cdn, releases, job, main>>

\* Broken: the canonical manifest is written before the verifying key.
ManifestBeforeKey(pc) ==
  CASE pc = "pk" -> "own" [] pc = "own" -> "manifest" [] pc = "manifest" -> "vk" [] pc = "vk" -> "copy"

\* The order of gen_params.
Following(pc) ==
  CASE pc = "pk" -> "vk" [] pc = "vk" -> "own" [] pc = "own" -> "manifest" [] pc = "manifest" -> "copy"

\* pk, vk and the two manifests are written, the keys synced and read back.
Write(r) ==
  /\ run[r].pc \in {"pk", "vk", "own", "manifest"}
  /\ Goto(r, Following(run[r].pc), [run[r].files EXCEPT ![run[r].pc] = "whole"])
  /\ UNCHANGED <<log, keys, cdn, releases, job, main>>

\* Broken: in the root, fs::copy truncates the file it copies.
CopyWithoutGuard(r) ==
  /\ run[r].pc = "copy"
  /\ LET written == IF run[r].kind = "elsewhere" THEN "root_vk" ELSE "vk" IN
     Goto(r, "validate", [run[r].files EXCEPT ![written] = IF @ = "whole" THEN "torn" ELSE "whole"])
  /\ UNCHANGED <<log, keys, cdn, releases, job, main>>

\* The verifying key is copied to the root unless it is there.
Copy(r) ==
  /\ run[r].pc = "copy"
  /\ Goto(r, "validate", [f \in Files |-> IF f \in Writing(r) THEN "whole" ELSE run[r].files[f]])
  /\ UNCHANGED <<log, keys, cdn, releases, job, main>>

\* Only now are the parameters tried: exit(1) leaves every file where it is.
Validate(r) ==
  /\ run[r].pc = "validate"
  /\ LET next == IF run[r].kind = "ci" THEN "upload" ELSE "done" IN
     Goto(r, IF run[r].good THEN next ELSE "dead", run[r].files)
  /\ UNCHANGED <<log, keys, cdn, releases, job, main>>

\* The proving key goes to the bucket, where there is a token for it.
Upload(r) ==
  /\ run[r].pc = "upload"
  /\ cdn' = IF HasToken THEN cdn \cup {r} ELSE cdn
  /\ Goto(r, "release", run[r].files)
  /\ UNCHANGED <<log, keys, releases, job, main>>

Release(r) ==
  /\ run[r].pc = "release"
  /\ releases' = releases \cup {r}
  /\ Goto(r, "push", run[r].files)
  /\ UNCHANGED <<log, keys, cdn, job, main>>

\* Broken: a push that was refused does not end the job.
PushIgnoringRefusal(r) ==
  /\ run[r].pc = "push"
  /\ IF run[r].base = Len(log)
     THEN log' = Append(log, r) /\ keys' = keys \cup {[id |-> r, file |-> run[r].files["vk"]]}
     ELSE UNCHANGED <<log, keys>>
  /\ Goto(r, "pushed", run[r].files)
  /\ UNCHANGED <<cdn, releases, job, main>>

\* Broken: the old keys, moved to the artifacts, are committed as removed.
PushAll(r) ==
  /\ run[r].pc = "push"
  /\ IF run[r].base = Len(log)
     THEN log' = Append(log, r) /\ keys' = {[id |-> r, file |-> run[r].files["vk"]]}
     ELSE UNCHANGED <<log, keys>>
  /\ Goto(r, IF run[r].base = Len(log) THEN "pushed" ELSE "dead", run[r].files)
  /\ UNCHANGED <<cdn, releases, job, main>>

\* Manifest and verifying key in one commit; a push behind another one is refused.
Push(r) ==
  /\ run[r].pc = "push"
  /\ IF run[r].base = Len(log)
     THEN log' = Append(log, r) /\ keys' = keys \cup {[id |-> r, file |-> run[r].files["vk"]]}
     ELSE UNCHANGED <<log, keys>>
  /\ Goto(r, IF run[r].base = Len(log) THEN "pushed" ELSE "dead", run[r].files)
  /\ UNCHANGED <<cdn, releases, job, main>>

\* A run stops, and what it was writing may be torn.
Stop(r) ==
  /\ run[r].pc \notin {"idle", "pushed", "done", "dead"}
  /\ \E torn \in SUBSET Writing(r) :
       Goto(r, "dead", [f \in Files |-> IF f \in torn THEN "torn" ELSE run[r].files[f]])
  /\ UNCHANGED <<log, keys, cdn, releases, job, main>>

SetJob(r, repo, j) == job' = [job EXCEPT ![r] = [@ EXCEPT ![repo] = j]]

\* The propagate job: clone, script and commit.
Edit(r, repo) ==
  /\ run[r].pc = "pushed" /\ HasPat
  /\ job[r][repo].pc = "idle" /\ Detected[repo] \in Places[repo]
  /\ SetJob(r, repo, [pc |-> "edited", base |-> main[repo],
                      tree |-> Committed(repo, main[repo], r)])
  /\ UNCHANGED <<run, log, keys, cdn, releases, main>>

\* Nothing to commit, no branch and no pull request.
PushBranch(r, repo) ==
  /\ job[r][repo].pc = "edited" /\ job[r][repo].tree # job[r][repo].base
  /\ SetJob(r, repo, [job[r][repo] EXCEPT !.pc = "pushed"])
  /\ UNCHANGED <<run, log, keys, cdn, releases, main>>

OpenPullRequest(r, repo) ==
  /\ job[r][repo].pc = "pushed"
  /\ SetJob(r, repo, [job[r][repo] EXCEPT !.pc = "open"])
  /\ UNCHANGED <<run, log, keys, cdn, releases, main>>

\* The script finds no old id, git add nothing for one of its patterns, or the job is lost.
FailJob(r, repo) ==
  /\ run[r].pc = "pushed" /\ HasPat
  /\ job[r][repo].pc \in {"idle", "edited", "pushed"}
  /\ SetJob(r, repo, [job[r][repo] EXCEPT !.pc = "failed"])
  /\ UNCHANGED <<run, log, keys, cdn, releases, main>>

\* A maintainer merges, in any order, what does not conflict.
Merge(r, repo) ==
  /\ job[r][repo].pc = "open" /\ job[r][repo].base = main[repo]
  /\ main' = [main EXCEPT ![repo] = job[r][repo].tree]
  /\ SetJob(r, repo, [job[r][repo] EXCEPT !.pc = "merged"])
  /\ UNCHANGED <<run, log, keys, cdn, releases>>

RunStep(r) ==
  \/ Start(r) \/ Write(r) \/ Copy(r) \/ Validate(r) \/ Upload(r) \/ Release(r) \/ Push(r) \/ Stop(r)

JobStep(r, repo) ==
  \/ Edit(r, repo) \/ PushBranch(r, repo) \/ OpenPullRequest(r, repo)
  \/ FailJob(r, repo) \/ Merge(r, repo)

Next == \E r \in Runs : RunStep(r) \/ \E repo \in Repos : JobStep(r, repo)

Spec == Init /\ [][Next]_vars

------------------------------------------------------------------------------

\* Ids that were committed, and their runs' pull requests.
Named == {log[i] : i \in 1..Len(log)}
Sent == {"pushed", "open", "merged"}

Run == [pc : {"idle", "pk", "vk", "own", "manifest", "copy", "validate", "upload",
              "release", "push", "pushed", "done", "dead"},
        kind : Kinds, base : Nat, good : BOOLEAN, files : [Files -> {"none", "torn", "whole"}]]

Tree == UNION {[Places[repo] -> Id \cup Older] : repo \in Repos}
Job == [pc : {"idle", "edited", "failed"} \cup Sent, base : Tree \cup {<<>>}, tree : Tree \cup {<<>>}]

\* Types.
TypeOK ==
  /\ run \in [Runs -> Run]
  /\ log \in Seq(Id)
  /\ keys \subseteq [id : Id, file : {"none", "torn", "whole"}]
  /\ cdn \subseteq Id /\ releases \subseteq Id
  /\ job \in [Runs -> [Repos -> Job]]
  /\ main \in [Repos -> Tree]

\* A canonical manifest, even one whose run died or failed, never stands beside a
\* proving or verifying key that is missing or torn.  The workspace root may lack its
\* copy of the verifying key or hold a torn one, and the parameters may be untried.
ManifestNamesWholeFiles == \A r \in Runs :
  run[r].files["manifest"] # "none" => run[r].files["pk"] = "whole" /\ run[r].files["vk"] = "whole"

\* Every manifest that was ever committed names parameters that passed validation, with
\* a release and a whole verifying key in the tree and, where the workflow has a token
\* for the bucket, a proving key there, although several runs may be under way and each
\* may stop anywhere.
ManifestIsBacked == \A i \in 1..Len(log) :
  /\ [id |-> log[i], file |-> "whole"] \in keys
  /\ log[i] \in releases
  /\ HasToken => log[i] \in cdn
  /\ log[i] \in Runs => run[log[i]].good

\* No repository is offered or given parameters whose manifest was not committed: a
\* run that loses the race for the push propagates nothing, and what a branch names is
\* what it named at first or a committed manifest.
PropagatedWasCommitted == \A repo \in Repos :
  /\ \A r \in Runs : job[r][repo].pc \in Sent => r \in Named
  /\ \A p \in Places[repo] : main[repo][p] \in Named \cup {First[repo][p]}

\* Places that had drifted from the one where the script reads the old id, which it
\* will not find there, and the places that it does replace.
Drifted == [repo \in Repos |->
  IF Detected[repo] \in Places[repo]
  THEN {p \in ByOld[repo] : First[repo][p] # First[repo][Detected[repo]]} ELSE {}]
Replaced == [repo \in Repos |-> (ByOld[repo] \cup ByName[repo]) \ Drifted[repo]]

\* check-zk-param-consistency.sh passes in a repository.
Passes(repo) ==
  /\ \A p \in Checked[repo] : main[repo][p] = log[Len(log)]
  /\ \A p \in Scanned[repo] : main[repo][p] \notin Retired \ {log[Len(log)]}

\* The consistency check looks at some places only.  Whatever pull requests were made and
\* merged, and in whatever order, when it passes in a repository the references that it
\* does not look at are the committed manifest's too, except those that had drifted
\* before: they keep the id they had, which is none that the check knows as retired.
PassedCheckMissesOnlyDrift == \A repo \in Repos : Passes(repo) =>
  \A p \in References[repo] :
    \/ main[repo][p] = log[Len(log)]
    \/ p \in Drifted[repo] /\ main[repo][p] = First[repo][p] /\ First[repo][p] \notin Retired

\* The workflow neither makes nor repairs drift: where the script can read the old id,
\* the places that differ from it are always those that differed at first.
DriftIsKept == \A repo \in Repos : Detected[repo] \in Places[repo] =>
  {p \in ByOld[repo] : main[repo][p] # main[repo][Detected[repo]]} = Drifted[repo]

\* The text of a pull request: it updates every reference to the new id, and the
\* verifying key binary.
PullRequestIsWhatItSays == \A r \in Runs : \A repo \in Repos :
  job[r][repo].pc \in {"open", "merged"} =>
    \A p \in References[repo] : job[r][repo].tree[p] = r

\* The inductive invariant: what a run has written at each step,
FilesRight(x) ==
  LET pc == x.pc  f == x.files IN
  /\ f["manifest"] # "none" =>
       f["pk"] = "whole" /\ f["vk"] = "whole" /\ pc \notin {"idle", "pk", "vk", "own", "manifest"}
  /\ pc \in {"vk", "own", "manifest"} => f["pk"] = "whole"
  /\ pc \in {"own", "manifest"} => f["vk"] = "whole"
  /\ pc \in {"copy", "validate", "upload", "release", "push", "pushed", "done"} =>
       f["manifest"] = "whole"
  /\ pc \in {"validate", "done"} /\ x.kind = "elsewhere" => f["root_vk"] = "whole"
FilesInv == \A r \in Runs : FilesRight(run[r])

\* what it has published,
PublishedRight(r, x) ==
  LET pc == x.pc IN
  /\ pc \in {"upload", "release", "push", "pushed", "done"} => x.good
  /\ pc \in {"release", "push", "pushed"} => (HasToken => r \in cdn)
  /\ pc \in {"push", "pushed"} => r \in releases
  /\ pc = "pushed" <=> r \in Named
PublishedInv == None \in Named /\ \A r \in Runs : PublishedRight(r, run[r])

\* and the trees of branches and jobs: the references that the script replaces are all as
\* they were at first or all of one committed run, and the others never change.
Unmixed(repo, tree) ==
  /\ tree \in [Places[repo] -> Id \cup Older]
  /\ tree["manifest/"] \in Named \cup {First[repo]["manifest/"]}
  /\ \/ \A p \in References[repo] : tree[p] = First[repo][p]
     \/ \E id \in Named \cap Runs : \A p \in References[repo] :
          tree[p] = IF p \in Replaced[repo] THEN id ELSE First[repo][p]
JobInv ==
  /\ \A repo \in Repos : Unmixed(repo, main[repo])
  /\ \A r \in Runs : \A repo \in Repos :
       /\ job[r][repo].pc \notin {"idle", "failed"} =>
            run[r].pc = "pushed" /\ Unmixed(repo, job[r][repo].tree)

IInv == TypeOK /\ FilesInv /\ PublishedInv /\ ManifestIsBacked /\ JobInv
=============================================================================
