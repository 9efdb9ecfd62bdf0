------------------------- MODULE ParamReleaseProofs --------------------------
(* The release of parameters, for any number of runs and any of the          *)
(* repositories.                                                              *)
EXTENDS ParamRelease, TLAPS

\* The places of a repository: what the script replaces lies apart from what other calls
\* do and from the artifact, the old id is read where it is replaced, and the check looks
\* at that place, at every place that is found by its name and at all that other calls
\* change; where it reads no old id, at every place.
LEMMA Table ==
  ASSUME NEW repo \in Repos
  PROVE  /\ Places[repo] = References[repo] \cup {"manifest/"} /\ "manifest/" \notin References[repo]
         /\ References[repo] = ByOld[repo] \cup ByName[repo] \cup ByOtherCalls[repo]
         /\ (ByOld[repo] \cup ByName[repo]) \cap ByOtherCalls[repo] = {}
         /\ ByOld[repo] \cap ByName[repo] = {}
         /\ ByName[repo] \cup ByOtherCalls[repo] \subseteq Checked[repo]
         /\ Detected[repo] \in Places[repo] =>
              Detected[repo] \in ByOld[repo] /\ Detected[repo] \in Checked[repo]
         /\ Detected[repo] \notin Places[repo] => References[repo] \subseteq Checked[repo]
         /\ ByOld[repo] \subseteq Scanned[repo]
  <1>1. CASE repo = "provii-verifier"
    BY <1>1 DEF Places, References, ByOld, ByName, ByOtherCalls, Detected, Checked, Scanned
  <1>2. CASE repo = "provii-mobile-sdk"
    BY <1>2 DEF Places, References, ByOld, ByName, ByOtherCalls, Detected, Checked, Scanned
  <1>3. CASE repo = "provii-agegate"
    BY <1>3 DEF Places, References, ByOld, ByName, ByOtherCalls, Detected, Checked, Scanned
  <1>4. CASE repo = "provii-management"
    BY <1>4 DEF Places, References, ByOld, ByName, ByOtherCalls, Detected, Checked, Scanned
  <1>5. QED
    BY <1>1, <1>2, <1>3, <1>4, RepoAssumption

\* Where the old id can be read, the places that the script finds it in are those that
\* had not drifted: at first, and when they all name one run.
LEMMA OldIdIsFound ==
  ASSUME NEW repo \in Repos, NEW tree, Unmixed(repo, tree), Detected[repo] \in Places[repo],
         NEW p \in ByOld[repo]
  PROVE  tree[p] = tree[Detected[repo]] <=> p \notin Drifted[repo]
  <1>1. /\ Detected[repo] \in ByOld[repo]
        /\ Drifted[repo] = {q \in ByOld[repo] : First[repo][q] # First[repo][Detected[repo]]}
    BY Table DEF Drifted
  <1>2. p \in References[repo] /\ Detected[repo] \in References[repo] /\ p \in Places[repo]
    BY <1>1, Table
  <1>3. CASE \A q \in References[repo] : tree[q] = First[repo][q]
    BY <1>1, <1>2, <1>3
  <1>4. CASE \E id \in Named \cap Runs : \A q \in References[repo] :
               tree[q] = IF q \in Replaced[repo] THEN id ELSE First[repo][q]
    <2>1. PICK id \in Named \cap Runs : \A q \in References[repo] :
            tree[q] = IF q \in Replaced[repo] THEN id ELSE First[repo][q]
      BY <1>4
    <2>2. Detected[repo] \in Replaced[repo] /\ tree[Detected[repo]] = id
      BY <1>1, <1>2, <2>1 DEF Replaced
    <2>3. First[repo][p] # id
      BY <1>2, FirstAssumption, OlderAssumption, NoneAssumption DEF Id
    <2>4. p \in Replaced[repo] <=> p \notin Drifted[repo]
      BY DEF Replaced
    <2>5. QED
      BY <1>2, <2>1, <2>2, <2>3, <2>4
  <1>5. QED
    BY <1>3, <1>4 DEF Unmixed

\* What a job commits of an unmixed tree is unmixed.
LEMMA CommittedIsUnmixed ==
  ASSUME NEW repo \in Repos, NEW tree, Unmixed(repo, tree), NEW r \in Runs, r \in Named,
         Detected[repo] \in Places[repo]
  PROVE  Unmixed(repo, Committed(repo, tree, r))
  <1> DEFINE edited == Propagate(repo, tree, r)
             base == IF repo \in Rust THEN edited ELSE tree
             new == Committed(repo, tree, r)
  <1>1. tree \in [Places[repo] -> Id \cup Older] /\ r \in Id
    BY DEF Unmixed, Id
  <1>2. edited = [p \in Places[repo] |->
                   IF p \in ByName[repo] \/ (p \in ByOld[repo] /\ tree[p] = tree[Detected[repo]])
                   THEN r ELSE tree[p]]
    BY <1>1 DEF Propagate
  <1>3. edited \in [Places[repo] -> Id \cup Older]
    BY <1>1, <1>2
  <1>4. base \in [Places[repo] -> Id \cup Older] /\ new = [base EXCEPT !["manifest/"] = r]
    BY <1>1, <1>3 DEF Committed
  <1> HIDE DEF base, new
  <1>5. /\ new \in [Places[repo] -> Id \cup Older] /\ new["manifest/"] = r
        /\ \A p \in References[repo] : new[p] = base[p]
    BY <1>1, <1>4, Table
  <1>6. ASSUME repo \notin Rust  PROVE Unmixed(repo, new)
    <2>1. \A p \in References[repo] : new[p] = tree[p]
      BY <1>5, <1>6 DEF base
    <2>2. QED
      BY <1>5, <2>1 DEF Unmixed
  <1>7. ASSUME repo \in Rust  PROVE Unmixed(repo, new)
    <2>1. ASSUME NEW p \in References[repo]
          PROVE  new[p] = IF p \in Replaced[repo] THEN r ELSE First[repo][p]
      <3>1. p \in Places[repo] /\ new[p] = edited[p]
        BY <1>5, <1>7, Table DEF base
      <3>2. CASE p \in Replaced[repo]
        <4>1. p \in ByName[repo] \/ (p \in ByOld[repo] /\ tree[p] = tree[Detected[repo]])
          BY <3>2, OldIdIsFound DEF Replaced
        <4>2. QED
          BY <1>2, <3>1, <3>2, <4>1
      <3>3. CASE p \notin Replaced[repo]
        <4>1. ~(p \in ByName[repo] \/ (p \in ByOld[repo] /\ tree[p] = tree[Detected[repo]]))
          <5>1. p \notin ByName[repo]
            BY <3>3, Table DEF Replaced, Drifted
          <5>2. p \in ByOld[repo] => p \in Drifted[repo]
            BY <3>3 DEF Replaced
          <5>3. QED
            BY <5>1, <5>2, OldIdIsFound
        <4>2. new[p] = tree[p]
          BY <1>2, <3>1, <4>1
        <4>3. tree[p] = First[repo][p]
          BY <3>3 DEF Unmixed
        <4>4. QED
          BY <3>3, <4>2, <4>3
      <3>4. QED
        BY <3>2, <3>3
    <2>2. QED
      BY <1>5, <2>1 DEF Unmixed
  <1>8. QED
    BY <1>6, <1>7 DEF new

\* A push adds one id to those committed.
LEMMA AppendNames ==
  ASSUME TypeOK, NEW r \in Runs, log' = Append(log, r)
  PROVE  /\ Named' = Named \cup {r} /\ log' \in Seq(Id)
         /\ Len(log') = Len(log) + 1 /\ Len(log) \in Nat
         /\ \A i \in 1..Len(log) : log'[i] = log[i]
         /\ log'[Len(log) + 1] = r
  <1>1. log \in Seq(Id) /\ r \in Id
    BY DEF TypeOK, Id
  <1>2. /\ log' \in Seq(Id) /\ Len(log') = Len(log) + 1 /\ Len(log) \in Nat
        /\ \A i \in 1..Len(log) : log'[i] = log[i]
        /\ log'[Len(log) + 1] = r
    BY <1>1
  <1>3. 1..Len(log') = 1..Len(log) \cup {Len(log) + 1}
    BY <1>2
  <1>4. Named' = Named \cup {r}
    BY <1>2, <1>3 DEF Named
  <1>5. QED
    BY <1>2, <1>4

\* A step of a run that pushes nothing: the run's record, and what it publishes.
LEMMA RunStepKeeps ==
  ASSUME IInv, NEW r \in Runs, NEW x \in Run, run' = [run EXCEPT ![r] = x],
         run[r].pc # "pushed", x.pc # "pushed", UNCHANGED <<log, keys, job, main>>,
         cdn \subseteq cdn', releases \subseteq releases',
         cdn' \subseteq Id, releases' \subseteq Id,
         FilesRight(x), PublishedRight(r, x)'
  PROVE  IInv'
  <1>1. Named' = Named
    BY DEF Named
  <1>2. run' \in [Runs -> Run] /\ run'[r] = x /\ \A q \in Runs : q # r => run'[q] = run[q]
    BY DEF IInv, TypeOK
  <1>3. TypeOK'
    BY <1>2 DEF IInv, TypeOK
  <1>4. FilesInv'
    BY <1>2 DEF IInv, FilesInv
  <1>5. PublishedInv'
    <2>1. ASSUME NEW q \in Runs  PROVE PublishedRight(q, run[q])' 
      <3>1. CASE q = r
        BY <1>2, <3>1
      <3>2. CASE q # r
        BY <1>1, <1>2, <3>2 DEF IInv, PublishedInv, PublishedRight
      <3>3. QED
        BY <3>1, <3>2
    <2>2. QED
      BY <1>1, <2>1 DEF IInv, PublishedInv
  <1>6. ManifestIsBacked'
    <2>1. r \notin Named
      BY DEF IInv, PublishedInv, PublishedRight
    <2>2. \A i \in 1..Len(log) : log[i] # r
      BY <2>1 DEF Named
    <2>3. QED
      BY <1>2, <2>2 DEF IInv, ManifestIsBacked
  <1>7. JobInv'
    BY <1>1, <1>2 DEF IInv, JobInv, Unmixed
  <1>8. QED
    BY <1>3, <1>4, <1>5, <1>6, <1>7 DEF IInv

\* A push: the manifest and the verifying key of a run that got as far.
LEMMA PushKeeps ==
  ASSUME IInv, NEW r \in Runs, Push(r)
  PROVE  IInv'
  <1>0. PICK x : x = [run[r] EXCEPT !.pc = IF run[r].base = Len(log) THEN "pushed" ELSE "dead",
                                    !.files = run[r].files]
    OBVIOUS
  <1>1. /\ run[r].pc = "push" /\ run' = [run EXCEPT ![r] = x]
        /\ UNCHANGED <<cdn, releases, job, main>>
    BY <1>0 DEF Push, Goto
  <1>2. run[r] \in Run /\ x \in Run
    BY <1>0 DEF IInv, TypeOK, Run
  <1>3. /\ FilesRight(run[r]) /\ PublishedRight(r, run[r])
    BY DEF IInv, FilesInv, PublishedInv
  <1>4. FilesRight(x)
    BY <1>0, <1>1, <1>2, <1>3 DEF FilesRight, Run
  <1>5. CASE run[r].base # Len(log)
    <2>1. UNCHANGED <<log, keys>> /\ x.pc = "dead"
      BY <1>0, <1>2, <1>5 DEF Push, Run
    <2>2. PublishedRight(r, x)'
      BY <2>1, <1>1, <1>3 DEF PublishedRight, Named
    <2>3. QED
      BY <1>1, <1>2, <1>4, <2>1, <2>2, RunStepKeeps DEF IInv, TypeOK
  <1>6. CASE run[r].base = Len(log)
    <2>1. /\ log' = Append(log, r) /\ keys' = keys \cup {[id |-> r, file |-> run[r].files["vk"]]}
      BY <1>6 DEF Push
    <2>2. x.pc = "pushed" /\ x.good = run[r].good
      BY <1>0, <1>2, <1>6 DEF Run
    <2>3. /\ Named' = Named \cup {r} /\ log' \in Seq(Id)
          /\ Len(log') = Len(log) + 1 /\ Len(log) \in Nat
          /\ \A i \in 1..Len(log) : log'[i] = log[i]
          /\ log'[Len(log) + 1] = r
      BY <2>1, AppendNames DEF IInv
    <2>4. run' \in [Runs -> Run] /\ run'[r] = x /\ \A q \in Runs : q # r => run'[q] = run[q]
      BY <1>1, <1>2 DEF IInv, TypeOK
    <2>5. run[r].files["vk"] = "whole" /\ run[r].good
      BY <1>1, <1>3 DEF FilesRight, PublishedRight
    <2>6. TypeOK'
      BY <1>1, <2>1, <2>3, <2>4, <2>5 DEF IInv, TypeOK, Id
    <2>7. FilesInv'
      BY <1>4, <2>4 DEF IInv, FilesInv
    <2>8. PublishedInv'
      <3>1. ASSUME NEW q \in Runs  PROVE PublishedRight(q, run[q])'
        <4>1. CASE q = r
          BY <1>1, <1>3, <2>2, <2>3, <2>4, <2>5, <4>1 DEF PublishedRight
        <4>2. CASE q # r
          BY <1>1, <2>3, <2>4, <4>2 DEF IInv, PublishedInv, PublishedRight
        <4>3. QED
          BY <4>1, <4>2
      <3>2. QED
        BY <2>3, <3>1 DEF IInv, PublishedInv
    <2>9. ManifestIsBacked'
      <3>1. ASSUME NEW i \in 1..Len(log')
            PROVE  /\ [id |-> log'[i], file |-> "whole"] \in keys'
                   /\ log'[i] \in releases' /\ (HasToken => log'[i] \in cdn')
                   /\ (log'[i] \in Runs => run'[log'[i]].good)
        <4>1. CASE i = Len(log) + 1
          BY <4>1, <1>1, <1>3, <2>1, <2>2, <2>3, <2>4, <2>5 DEF PublishedRight
        <4>2. CASE i \in 1..Len(log)
          <5>1. log'[i] = log[i]
            BY <4>2, <2>3
          <5>2. /\ [id |-> log[i], file |-> "whole"] \in keys
                /\ log[i] \in releases /\ (HasToken => log[i] \in cdn)
                /\ (log[i] \in Runs => run[log[i]].good)
            BY <4>2 DEF IInv, ManifestIsBacked
          <5>3. log[i] \in Runs => run'[log[i]].good
            BY <5>2, <2>2, <2>4
          <5>4. QED
            BY <5>1, <5>2, <5>3, <1>1, <2>1
        <4>3. QED
          BY <4>1, <4>2, <2>3
      <3>2. QED
        BY <3>1 DEF ManifestIsBacked
    <2>10. JobInv'
      <3>1. ASSUME NEW repo \in Repos, NEW tree, Unmixed(repo, tree)  PROVE Unmixed(repo, tree)'
        BY <3>1, <2>3 DEF Unmixed
      <3>2. \A repo \in Repos : Unmixed(repo, main[repo])'
        BY <1>1, <3>1 DEF IInv, JobInv
      <3>3. ASSUME NEW q \in Runs, NEW repo \in Repos, job[q][repo].pc \notin {"idle", "failed"}
            PROVE  run'[q].pc = "pushed" /\ Unmixed(repo, job[q][repo].tree)'
        <4>1. run[q].pc = "pushed" /\ Unmixed(repo, job[q][repo].tree)
          BY <3>3 DEF IInv, JobInv
        <4>2. QED
          BY <4>1, <3>1, <1>1, <2>2, <2>4
      <3>4. QED
        BY <1>1, <3>2, <3>3 DEF JobInv
    <2>11. QED
      BY <2>6, <2>7, <2>8, <2>9, <2>10 DEF IInv
  <1>7. QED
    BY <1>5, <1>6

\* The other steps of a run.
LEMMA OtherRunStepKeeps ==
  ASSUME IInv, NEW r \in Runs, RunStep(r), ~Push(r)
  PROVE  IInv'
  <1>1. /\ run[r] \in Run /\ FilesRight(run[r]) /\ PublishedRight(r, run[r])
        /\ cdn \subseteq Id /\ releases \subseteq Id /\ r \in Id
    BY DEF IInv, TypeOK, FilesInv, PublishedInv, Id
  <1>2. SUFFICES ASSUME NEW x \in Run, run' = [run EXCEPT ![r] = x],
                        run[r].pc # "pushed", x.pc # "pushed", UNCHANGED <<log, keys, job, main>>,
                        cdn \subseteq cdn', releases \subseteq releases',
                        cdn' \subseteq Id, releases' \subseteq Id,
                        FilesRight(x), PublishedRight(r, x)'
                 PROVE  IInv'
    <2>1. CASE Start(r)
      <3>1. PICK kind \in Kinds, good \in BOOLEAN :
              run' = [run EXCEPT ![r] = [@ EXCEPT !.pc = "pk", !.kind = kind, !.base = Len(log),
                                                  !.good = good]]
        BY <2>1 DEF Start
      <3>2. PICK x : x = [run[r] EXCEPT !.pc = "pk", !.kind = kind, !.base = Len(log), !.good = good]
        OBVIOUS
      <3>3. Len(log) \in Nat
        BY DEF IInv, TypeOK
      <3>4. x \in Run /\ x.pc = "pk" /\ x.files = run[r].files
        BY <1>1, <3>2, <3>3 DEF Run
      <3>5. run[r].pc = "idle" /\ UNCHANGED <<log, keys, cdn, releases, job, main>>
        BY <2>1 DEF Start
      <3>6. FilesRight(x)
        BY <1>1, <3>4, <3>5 DEF FilesRight
      <3>7. PublishedRight(r, x)'
        BY <1>1, <3>4, <3>5 DEF PublishedRight, Named
      <3>8. QED
        BY <1>1, <1>2, <3>1, <3>2, <3>4, <3>5, <3>6, <3>7
    <2>2. CASE Write(r)
      <3>1. PICK x : x = [run[r] EXCEPT !.pc = Following(run[r].pc),
                                        !.files = [run[r].files EXCEPT ![run[r].pc] = "whole"]]
        OBVIOUS
      <3>2. /\ run[r].pc \in {"pk", "vk", "own", "manifest"} /\ run' = [run EXCEPT ![r] = x]
            /\ UNCHANGED <<log, keys, cdn, releases, job, main>>
        BY <2>2, <3>1 DEF Write, Goto
      <3>3. Following(run[r].pc) \in {"vk", "own", "manifest", "copy"}
        BY <3>2 DEF Following
      <3>4. x.pc = Following(run[r].pc) /\ x.files = [run[r].files EXCEPT ![run[r].pc] = "whole"]
        BY <1>1, <3>1 DEF Run
      <3>5. x \in Run
        BY <1>1, <3>1, <3>3 DEF Run
      <3>6. FilesRight(x)
        BY <1>1, <3>2, <3>4 DEF FilesRight, Following, Run, Files
      <3>7. PublishedRight(r, x)'
        BY <1>1, <3>2, <3>3, <3>4 DEF PublishedRight, Named
      <3>8. QED
        BY <1>1, <1>2, <3>2, <3>3, <3>4, <3>5, <3>6, <3>7
    <2>3. CASE Copy(r)
      <3>1. PICK x : x = [run[r] EXCEPT !.pc = "validate",
                !.files = [f \in Files |-> IF f \in Writing(r) THEN "whole" ELSE run[r].files[f]]]
        OBVIOUS
      <3>2. /\ run[r].pc = "copy" /\ run' = [run EXCEPT ![r] = x]
            /\ UNCHANGED <<log, keys, cdn, releases, job, main>>
        BY <2>3, <3>1 DEF Copy, Goto
      <3>3. /\ x.pc = "validate" /\ x.kind = run[r].kind /\ x \in Run
            /\ x.files = [f \in Files |-> IF f \in Writing(r) THEN "whole" ELSE run[r].files[f]]
        BY <1>1, <3>1 DEF Run
      <3>4. Writing(r) = {f \in {"root_vk"} : run[r].kind = "elsewhere"}
        BY <3>2 DEF Writing
      <3>5. FilesRight(x)
        BY <1>1, <3>2, <3>3, <3>4 DEF FilesRight, Files
      <3>6. PublishedRight(r, x)'
        BY <1>1, <3>2, <3>3 DEF PublishedRight, Named
      <3>7. QED
        BY <1>1, <1>2, <3>2, <3>3, <3>5, <3>6
    <2>4. CASE Validate(r)
      <3>1. PICK x : x = [run[r] EXCEPT !.files = run[r].files,
                !.pc = IF run[r].good THEN IF run[r].kind = "ci" THEN "upload" ELSE "done" ELSE "dead"]
        OBVIOUS
      <3>2. /\ run[r].pc = "validate" /\ run' = [run EXCEPT ![r] = x]
            /\ UNCHANGED <<log, keys, cdn, releases, job, main>>
        BY <2>4, <3>1 DEF Validate, Goto
      <3>3. /\ x.pc \in {"dead", "upload", "done"} /\ (x.pc # "dead" => x.good)
            /\ x.kind = run[r].kind /\ x.files = run[r].files /\ x \in Run
        BY <1>1, <3>1 DEF Run
      <3>4. FilesRight(x)
        BY <1>1, <3>2, <3>3 DEF FilesRight
      <3>5. PublishedRight(r, x)'
        BY <1>1, <3>2, <3>3 DEF PublishedRight, Named
      <3>6. QED
        BY <1>1, <1>2, <3>2, <3>3, <3>4, <3>5
    <2>5. CASE Upload(r)
      <3>1. PICK x : x = [run[r] EXCEPT !.pc = "release", !.files = run[r].files]
        OBVIOUS
      <3>2. /\ run[r].pc = "upload" /\ run' = [run EXCEPT ![r] = x]
            /\ cdn' = (IF HasToken THEN cdn \cup {r} ELSE cdn)
            /\ UNCHANGED <<log, keys, releases, job, main>>
        BY <2>5, <3>1 DEF Upload, Goto
      <3>3. /\ x.pc = "release" /\ x.good = run[r].good /\ x.kind = run[r].kind
            /\ x.files = run[r].files /\ x \in Run
        BY <1>1, <3>1 DEF Run
      <3>4. cdn \subseteq cdn' /\ cdn' \subseteq Id
        BY <1>1, <3>2
      <3>5. FilesRight(x)
        BY <1>1, <3>2, <3>3 DEF FilesRight
      <3>6. PublishedRight(r, x)'
        BY <1>1, <3>2, <3>3 DEF PublishedRight, Named
      <3>7. QED
        BY <1>1, <1>2, <3>2, <3>3, <3>4, <3>5, <3>6
    <2>6. CASE Release(r)
      <3>1. PICK x : x = [run[r] EXCEPT !.pc = "push", !.files = run[r].files]
        OBVIOUS
      <3>2. /\ run[r].pc = "release" /\ run' = [run EXCEPT ![r] = x]
            /\ releases' = releases \cup {r} /\ UNCHANGED <<log, keys, cdn, job, main>>
        BY <2>6, <3>1 DEF Release, Goto
      <3>3. /\ x.pc = "push" /\ x.good = run[r].good /\ x.kind = run[r].kind
            /\ x.files = run[r].files /\ x \in Run
        BY <1>1, <3>1 DEF Run
      <3>4. releases \subseteq releases' /\ releases' \subseteq Id
        BY <1>1, <3>2
      <3>5. FilesRight(x)
        BY <1>1, <3>2, <3>3 DEF FilesRight
      <3>6. PublishedRight(r, x)'
        BY <1>1, <3>2, <3>3 DEF PublishedRight, Named
      <3>7. QED
        BY <1>1, <1>2, <3>2, <3>3, <3>4, <3>5, <3>6
    <2>7. CASE Stop(r)
      <3>1. PICK torn \in SUBSET Writing(r) :
              Goto(r, "dead", [f \in Files |-> IF f \in torn THEN "torn" ELSE run[r].files[f]])
        BY <2>7 DEF Stop
      <3>2. PICK x : x = [run[r] EXCEPT !.pc = "dead",
                !.files = [f \in Files |-> IF f \in torn THEN "torn" ELSE run[r].files[f]]]
        OBVIOUS
      <3>3. /\ run[r].pc \notin {"idle", "pushed", "done", "dead"}
            /\ UNCHANGED <<log, keys, cdn, releases, job, main>>
            /\ run' = [run EXCEPT ![r] = x]
        BY <2>7, <3>1, <3>2 DEF Stop, Goto
      <3>4. /\ x.pc = "dead" /\ x \in Run
            /\ x.files = [f \in Files |-> IF f \in torn THEN "torn" ELSE run[r].files[f]]
        BY <1>1, <3>2 DEF Run
      <3>5. \A f \in torn : f = run[r].pc \/ (f = "root_vk" /\ run[r].pc = "copy")
        BY <3>1 DEF Writing
      <3>6. FilesRight(x)
        <4>1. ASSUME x.files["manifest"] # "none"
              PROVE  x.files["pk"] = "whole" /\ x.files["vk"] = "whole"
          <5>1. run[r].files["manifest"] # "none" \/ run[r].pc = "manifest"
            BY <3>4, <3>5, <4>1 DEF Files
          <5>2. run[r].files["pk"] = "whole" /\ run[r].files["vk"] = "whole"
            BY <1>1, <5>1 DEF FilesRight
          <5>3. "pk" \notin torn /\ "vk" \notin torn
            <6>1. run[r].pc \notin {"pk", "vk"}
              BY <1>1, <5>1 DEF FilesRight
            <6>2. QED
              BY <6>1, <3>5
          <5>4. QED
            BY <3>4, <5>2, <5>3 DEF Files
        <4>2. QED
          BY <4>1, <3>4 DEF FilesRight
      <3>7. PublishedRight(r, x)'
        BY <1>1, <3>3, <3>4 DEF PublishedRight, Named
      <3>8. QED
        BY <1>1, <1>2, <3>3, <3>4, <3>6, <3>7
    <2>8. QED
      BY <2>1, <2>2, <2>3, <2>4, <2>5, <2>6, <2>7 DEF RunStep
  <1>3. QED
    BY <1>2, RunStepKeeps

\* A step of a job: its record, and what the branches of the repositories hold.
LEMMA JobRecordKeeps ==
  ASSUME IInv, NEW r \in Runs, NEW repo \in Repos, NEW j \in Job, SetJob(r, repo, j),
         UNCHANGED <<run, log, keys, cdn, releases>>,
         main' \in [Repos -> Tree], \A q \in Repos : Unmixed(q, main'[q]),
         j.pc \notin {"idle", "failed"} => run[r].pc = "pushed" /\ Unmixed(repo, j.tree)
  PROVE  IInv'
  <1>1. /\ job \in [Runs -> [Repos -> Job]]
        /\ job' = [job EXCEPT ![r] = [job[r] EXCEPT ![repo] = j]]
    BY DEF IInv, TypeOK, SetJob
  <1>2. PICK new : new = [job[r] EXCEPT ![repo] = j]
    OBVIOUS
  <1>3. new \in [Repos -> Job] /\ new[repo] = j /\ \A q \in Repos : q # repo => new[q] = job[r][q]
    BY <1>1, <1>2
  <1>4. /\ job' \in [Runs -> [Repos -> Job]]
        /\ job'[r] = new /\ \A s \in Runs : s # r => job'[s] = job[s]
    BY <1>1, <1>2, <1>3
  <1>5. Named' = Named
    BY DEF Named
  <1>6. TypeOK'
    BY <1>4 DEF IInv, TypeOK
  <1>7. FilesInv' /\ PublishedInv' /\ ManifestIsBacked'
    BY <1>5 DEF IInv, FilesInv, PublishedInv, PublishedRight, ManifestIsBacked
  <1>8. \A q \in Repos : \A tree : Unmixed(q, tree) => Unmixed(q, tree)'
    BY <1>5 DEF Unmixed
  <1>9. ASSUME NEW s \in Runs, NEW q \in Repos, job'[s][q].pc \notin {"idle", "failed"}
        PROVE  run'[s].pc = "pushed" /\ Unmixed(q, job'[s][q].tree)
    <2>1. CASE s = r /\ q = repo
      BY <1>3, <1>4, <1>9, <2>1
    <2>2. CASE ~(s = r /\ q = repo)
      <3>1. job'[s][q] = job[s][q]
        BY <1>3, <1>4, <2>2
      <3>2. QED
        BY <1>9, <3>1 DEF IInv, JobInv
    <2>3. QED
      BY <2>1, <2>2
  <1>10. JobInv'
    BY <1>5, <1>9 DEF JobInv, Unmixed
  <1>11. QED
    BY <1>6, <1>7, <1>10 DEF IInv

\* An unmixed tree is a tree.
LEMMA UnmixedIsTree ==
  ASSUME NEW repo \in Repos, NEW tree, Unmixed(repo, tree)
  PROVE  tree \in Tree
  BY DEF Unmixed, Tree

\* The steps of the propagate job, and the maintainers'.
LEMMA JobStepKeeps ==
  ASSUME IInv, NEW r \in Runs, NEW repo \in Repos, JobStep(r, repo)
  PROVE  IInv'
  <1>1. /\ job[r][repo] \in Job /\ main \in [Repos -> Tree]
        /\ \A q \in Repos : Unmixed(q, main[q])
        /\ job[r][repo].pc \notin {"idle", "failed"} =>
             run[r].pc = "pushed" /\ Unmixed(repo, job[r][repo].tree)
        /\ run[r].pc = "pushed" => r \in Named
    BY DEF IInv, TypeOK, JobInv, PublishedInv, PublishedRight
  <1>2. CASE Edit(r, repo)
    <2>1. PICK tree : tree = Committed(repo, main[repo], r)
      OBVIOUS
    <2>2. Unmixed(repo, tree)
      BY <1>1, <1>2, <2>1, CommittedIsUnmixed DEF Edit
    <2>3. [pc |-> "edited", base |-> main[repo], tree |-> tree] \in Job
      BY <1>1, <2>2, UnmixedIsTree DEF Job, Sent
    <2>4. QED
      BY <1>1, <1>2, <2>1, <2>2, <2>3, JobRecordKeeps DEF Edit
  <1>3. ASSUME NEW pc \in {"pushed", "open", "failed"}, job[r][repo].pc # "idle" \/ pc = "failed",
               SetJob(r, repo, [job[r][repo] EXCEPT !.pc = pc]),
               job[r][repo].pc \in {"edited", "pushed"} \/ pc = "failed",
               UNCHANGED <<run, log, keys, cdn, releases, main>>
        PROVE  IInv'
    <2>1. PICK j : j = [job[r][repo] EXCEPT !.pc = pc]
      OBVIOUS
    <2>2. j \in Job /\ j.pc = pc /\ j.tree = job[r][repo].tree
      BY <1>1, <2>1 DEF Job, Sent
    <2>3. j.pc \notin {"idle", "failed"} => run[r].pc = "pushed" /\ Unmixed(repo, j.tree)
      BY <1>1, <1>3, <2>2
    <2>4. QED
      BY <1>1, <1>3, <2>1, <2>2, <2>3, JobRecordKeeps
  <1>4. CASE PushBranch(r, repo)
    BY <1>3, <1>4 DEF PushBranch
  <1>5. CASE OpenPullRequest(r, repo)
    BY <1>3, <1>5 DEF OpenPullRequest
  <1>6. CASE FailJob(r, repo)
    BY <1>3, <1>6 DEF FailJob
  <1>7. CASE Merge(r, repo)
    <2>1. PICK j : j = [job[r][repo] EXCEPT !.pc = "merged"]
      OBVIOUS
    <2>2. /\ job[r][repo].pc = "open" /\ main' = [main EXCEPT ![repo] = job[r][repo].tree]
          /\ SetJob(r, repo, j) /\ UNCHANGED <<run, log, keys, cdn, releases>>
      BY <1>7, <2>1 DEF Merge
    <2>3. j \in Job /\ j.tree = job[r][repo].tree
      BY <1>1, <2>1 DEF Job, Sent
    <2>4. Unmixed(repo, j.tree) /\ run[r].pc = "pushed" /\ j.tree \in Tree
      BY <1>1, <2>2, <2>3, UnmixedIsTree
    <2>5. main' \in [Repos -> Tree] /\ \A q \in Repos : Unmixed(q, main'[q])
      BY <1>1, <2>2, <2>3, <2>4
    <2>6. QED
      BY <2>2, <2>3, <2>4, <2>5, JobRecordKeeps
  <1>8. QED
    BY <1>2, <1>4, <1>5, <1>6, <1>7 DEF JobStep

LEMMA Initially == Init => IInv
  <1> SUFFICES ASSUME Init PROVE IInv
    OBVIOUS
  <1>2. Named = {None} /\ log \in Seq(Id) /\ Len(log) = 1 /\ log[1] = None
    BY DEF Init, Named, Id
  <1>3. ASSUME NEW repo \in Repos
        PROVE  Unmixed(repo, main[repo])
    <2>1. main[repo] = First[repo] /\ First[repo] \in [Places[repo] -> Id \cup Older]
      BY FirstAssumption DEF Init, Id
    <2>2. QED
      BY <2>1 DEF Unmixed
  <1>4. main \in [Repos -> Tree]
    <2>1. \A repo \in Repos : main[repo] \in Tree
      BY <1>3, UnmixedIsTree
    <2>2. QED
      BY <2>1 DEF Init
  <1>5. \A r \in Runs : run[r] = [pc |-> "idle", kind |-> "ci", base |-> 0, good |-> TRUE,
                                 files |-> NoFiles]
    BY DEF Init
  <1>6. run \in [Runs -> Run]
    BY <1>5 DEF Init, Run, Kinds, NoFiles
  <1>7. \A r \in Runs : \A repo \in Repos : job[r][repo] = NoJob
    BY DEF Init
  <1>8. job \in [Runs -> [Repos -> Job]]
    BY DEF Init, NoJob, Job
  <1>9. TypeOK
    <2>1. /\ keys = {[id |-> None, file |-> "whole"]} /\ cdn = {None} /\ releases = {None}
      BY DEF Init
    <2>2. None \in Id
      BY DEF Id
    <2>3. keys \subseteq [id : Id, file : {"none", "torn", "whole"}]
      BY <2>1, <2>2
    <2>4. cdn \subseteq Id /\ releases \subseteq Id
      BY <2>1, <2>2
    <2>5. QED
      BY <1>2, <1>4, <1>6, <1>8, <2>3, <2>4 DEF TypeOK
  <1>10. FilesInv
    <2>1. ASSUME NEW r \in Runs  PROVE FilesRight(run[r])
      <3>1. run[r].pc = "idle" /\ run[r].files["manifest"] = "none"
        BY <1>5 DEF NoFiles, Files
      <3>2. QED
        BY <3>1 DEF FilesRight
    <2>2. QED
      BY <2>1 DEF FilesInv
  <1>11. PublishedInv
    <2>1. ASSUME NEW r \in Runs  PROVE PublishedRight(r, run[r])
      <3>1. run[r].pc = "idle" /\ r \notin Named
        BY <1>2, <1>5, NoneAssumption
      <3>2. QED
        BY <3>1 DEF PublishedRight
    <2>2. QED
      BY <1>2, <2>1 DEF PublishedInv
  <1>12. ManifestIsBacked
    <2>1. /\ keys = {[id |-> None, file |-> "whole"]} /\ cdn = {None} /\ releases = {None}
      BY DEF Init
    <2>2. \A i \in 1..Len(log) : log[i] = None
      BY <1>2
    <2>3. QED
      BY <2>1, <2>2, NoneAssumption DEF ManifestIsBacked
  <1>13. JobInv
    <2>1. \A r \in Runs : \A repo \in Repos : job[r][repo].pc = "idle"
      BY <1>7 DEF NoJob
    <2>2. QED
      BY <1>3, <2>1 DEF JobInv
  <1>14. QED
    BY <1>9, <1>10, <1>11, <1>12, <1>13 DEF IInv

\* The inductive invariant holds in every state: of any number of runs, under any
\* interleaving, with any of them stopping anywhere.
THEOREM Invariance == Spec => []IInv
  <1>1. IInv /\ [Next]_vars => IInv'
    <2>1. SUFFICES ASSUME IInv, [Next]_vars PROVE IInv'
      OBVIOUS
    <2>2. ASSUME NEW r \in Runs, RunStep(r)  PROVE IInv'
      BY <2>1, <2>2, PushKeeps, OtherRunStepKeeps
    <2>3. ASSUME NEW r \in Runs, NEW repo \in Repos, JobStep(r, repo)  PROVE IInv'
      BY <2>1, <2>3, JobStepKeeps
    <2>4. CASE UNCHANGED vars
      <3>1. /\ run' = run /\ log' = log /\ keys' = keys /\ cdn' = cdn
            /\ releases' = releases /\ job' = job /\ main' = main
        BY <2>4 DEF vars
      <3>2. Named' = Named
        BY <3>1 DEF Named
      <3>3. TypeOK' /\ FilesInv' /\ ManifestIsBacked'
        BY <2>1, <3>1 DEF IInv, TypeOK, FilesInv, ManifestIsBacked
      <3>4. PublishedInv'
        BY <2>1, <3>1, <3>2 DEF IInv, PublishedInv, PublishedRight
      <3>5. JobInv'
        BY <2>1, <3>1, <3>2 DEF IInv, JobInv, Unmixed
      <3>6. QED
        BY <3>3, <3>4, <3>5 DEF IInv
    <2>5. QED
      BY <2>1, <2>2, <2>3, <2>4 DEF Next
  <1>2. QED
    BY <1>1, Initially, PTL DEF Spec

\* gen_params: a canonical manifest stands beside whole proving and verifying keys.
THEOREM WholeFiles == Spec => []ManifestNamesWholeFiles
  <1>1. IInv => ManifestNamesWholeFiles
    BY DEF IInv, FilesInv, FilesRight, ManifestNamesWholeFiles
  <1>2. QED
    BY <1>1, Invariance, PTL

\* generate-params.yml: what is committed was tried, released, uploaded, and is whole.
THEOREM Backed == Spec => []ManifestIsBacked
  <1>1. IInv => ManifestIsBacked
    BY DEF IInv
  <1>2. QED
    BY <1>1, Invariance, PTL

\* The propagate job: only committed parameters reach other repositories.
THEOREM OnlyCommitted == Spec => []PropagatedWasCommitted
  <1>1. ASSUME IInv  PROVE PropagatedWasCommitted
    <2>1. ASSUME NEW repo \in Repos, NEW r \in Runs, job[r][repo].pc \in Sent  PROVE r \in Named
      BY <1>1, <2>1 DEF IInv, JobInv, PublishedInv, PublishedRight, Sent
    <2>2. ASSUME NEW repo \in Repos, NEW p \in Places[repo]
          PROVE  main[repo][p] \in Named \cup {First[repo][p]}
      <3>1. Unmixed(repo, main[repo])
        BY <1>1 DEF IInv, JobInv
      <3>2. CASE p = "manifest/"
        BY <3>1, <3>2 DEF Unmixed
      <3>3. CASE p \in References[repo]
        BY <3>1, <3>3 DEF Unmixed
      <3>4. QED
        BY <3>2, <3>3, Table
    <2>3. QED
      BY <2>1, <2>2 DEF PropagatedWasCommitted
  <1>2. QED
    BY <1>1, Invariance, PTL

\* propagate-zk-params.sh: what had drifted stays apart, and nothing else drifts.
THEOREM DriftKept == Spec => []DriftIsKept
  <1>1. ASSUME IInv, NEW repo \in Repos, Detected[repo] \in Places[repo]
        PROVE  {p \in ByOld[repo] : main[repo][p] # main[repo][Detected[repo]]} = Drifted[repo]
    <2>1. \A p \in ByOld[repo] : main[repo][p] = main[repo][Detected[repo]] <=> p \notin Drifted[repo]
      BY <1>1, OldIdIsFound DEF IInv, JobInv
    <2>2. Drifted[repo] \subseteq ByOld[repo]
      BY DEF Drifted
    <2>3. QED
      BY <2>1, <2>2
  <1>2. IInv => DriftIsKept
    BY <1>1 DEF DriftIsKept
  <1>3. QED
    BY <1>2, Invariance, PTL

\* check-zk-param-consistency.sh: a check that passes misses only places that had drifted
\* before, to an id that it does not scan for.
THEOREM CheckMissesOnlyDrift == Spec => []PassedCheckMissesOnlyDrift
  <1>1. ASSUME IInv, NEW repo \in Repos, Passes(repo), NEW p \in References[repo],
               main[repo][p] # log[Len(log)]
        PROVE  p \in Drifted[repo] /\ main[repo][p] = First[repo][p] /\ First[repo][p] \notin Retired
    <2>1. Unmixed(repo, main[repo]) /\ \A q \in Checked[repo] : main[repo][q] = log[Len(log)]
      BY <1>1 DEF IInv, JobInv, Passes
    <2>2. p \notin Checked[repo] /\ p \in ByOld[repo] /\ Detected[repo] \in Places[repo]
      BY <1>1, <2>1, Table
    <2>3. main[repo][Detected[repo]] = log[Len(log)]
      BY <2>1, <2>2, Table
    <2>4. p \in Drifted[repo]
      BY <1>1, <2>1, <2>2, <2>3, OldIdIsFound
    <2>5. main[repo][p] = First[repo][p]
      BY <2>1, <2>4 DEF Unmixed, Replaced
    <2>6. main[repo][p] \notin Retired
      BY <1>1, <2>2, Table DEF Passes
    <2>7. QED
      BY <2>4, <2>5, <2>6
  <1>2. IInv => PassedCheckMissesOnlyDrift
    BY <1>1 DEF PassedCheckMissesOnlyDrift
  <1>3. QED
    BY <1>2, Invariance, PTL
=============================================================================
