------------------------------ MODULE Release ------------------------------
(***************************************************************************)
(* The release workflow: what `push` of a version tag sets going, what     *)
(* ends up among the assets of the release, and when readers see it.       *)
(* A run is one push of the tag (a tag may be pushed again); an attempt is *)
(* one execution of its jobs, and jobs are run again by hand. Runner,      *)
(* network and GitHub may fail at every step.                              *)
(***************************************************************************)
EXTENDS Naturals, Sequences

CONSTANTS
    Target,        \* the build matrix
    MaxRuns,       \* bound on pushes of the tag
    MaxAttempts    \* bound on attempts of one run

ASSUME TargetAssumption == Target # {}
ASSUME BoundAssumption  == MaxRuns \in Nat /\ MaxAttempts \in Nat

VARIABLES
    state,         \* of each run: "none" until pushed, then its place in the concurrency group
    attempt,       \* of each run
    draft,         \* conclusion of its draft job: "no" (none yet), "ok", "failed"
    job,           \* of each run and target, the build job
    publish,       \* conclusion of its publish job
    release,       \* "none", "draft" or "published"
    assets         \* of each target and piece: {} or what was uploaded last

vars == <<state, attempt, draft, job, publish, release, assets>>

Run        == 1..MaxRuns
Piece      == {"archive", "sha256"}
Conclusion == {"no", "ok", "failed"}

\* Mutation: the list of dependencies is not looked at.
BuildStepsUnverified == <<"test", "build", "attest", "upload">>

\* The steps of a build job, in their order: "test" with the checkout and the tools before it,
\* "attest" with the packing and the checksum before it.
BuildSteps == <<"test", "build", "sbom", "attest", "upload">>
Step       == {BuildSteps[i] : i \in DOMAIN BuildSteps}

\* done: the steps passed in this attempt; listed: the binary carries its dependency list;
\* sent: the pieces uploaded. A job that ended has given its runner back.
Ended(e) == [at |-> 1, done |-> {}, listed |-> FALSE, sent |-> {}, end |-> e]
Fresh    == Ended("no")

Init ==
    /\ state   = [r \in Run |-> "none"]
    /\ attempt = [r \in Run |-> 1]
    /\ draft   = [r \in Run |-> "no"]
    /\ job     = [r \in Run |-> [t \in Target |-> Fresh]]
    /\ publish = [r \in Run |-> "no"]
    /\ release = "none"
    /\ assets  = [t \in Target |-> [p \in Piece |-> {}]]

-----------------------------------------------------------------------------
(* The concurrency group of the tag: one run at a time, none is cancelled  *)
(* in progress; of those that wait, only the last.                         *)

Queued(r) ==
    [q \in Run |-> CASE q = r -> "pending"
                     [] q # r /\ state[q] = "pending" -> "cancelled"
                     [] OTHER -> state[q]]

Push(r) ==
    /\ state[r] = "none" /\ \A q \in 1..(r - 1) : state[q] # "none"
    /\ state' = Queued(r)
    /\ UNCHANGED <<attempt, draft, job, publish, release, assets>>

\* Mutation: no concurrency group.
StartAtOnce(r) ==
    /\ state[r] = "pending"
    /\ state' = [state EXCEPT ![r] = "running"]
    /\ UNCHANGED <<attempt, draft, job, publish, release, assets>>

Start(r) ==
    /\ state[r] = "pending" /\ \A q \in Run : state[q] # "running"
    /\ state' = [state EXCEPT ![r] = "running"]
    /\ UNCHANGED <<attempt, draft, job, publish, release, assets>>

\* Mutation: a skipped publish job is waited for.
FinishPublished(r) ==
    /\ state[r] = "running"
    /\ draft[r] = "failed" \/ publish[r] # "no"
    /\ state' = [state EXCEPT ![r] = "finished"]
    /\ UNCHANGED <<attempt, draft, job, publish, release, assets>>

\* A job whose needs failed is skipped, the matrix goes on without a target that failed.
Finish(r) ==
    /\ state[r] = "running"
    /\ \/ draft[r] = "failed"
       \/ /\ \A t \in Target : job[r][t].end # "no"
          /\ publish[r] # "no" \/ \E t \in Target : job[r][t].end = "failed"
    /\ state' = [state EXCEPT ![r] = "finished"]
    /\ UNCHANGED <<attempt, draft, job, publish, release, assets>>

\* "Re-run all jobs" and "Re-run failed jobs": jobs that succeeded keep their conclusion.
Again(r) ==
    /\ attempt[r] < MaxAttempts
    /\ state' = Queued(r)
    /\ attempt' = [attempt EXCEPT ![r] = @ + 1]
    /\ UNCHANGED <<release, assets>>

RerunAll(r) ==
    /\ state[r] \in {"finished", "cancelled"}
    /\ Again(r)
    /\ draft' = [draft EXCEPT ![r] = "no"]
    /\ job' = [job EXCEPT ![r] = [t \in Target |-> Fresh]]
    /\ publish' = [publish EXCEPT ![r] = "no"]

RerunFailed(r) ==
    /\ state[r] = "finished"
    /\ "failed" \in {draft[r], publish[r]} \cup {job[r][t].end : t \in Target}
    /\ Again(r)
    /\ draft' = [draft EXCEPT ![r] = IF @ = "failed" THEN "no" ELSE @]
    /\ job' = [job EXCEPT ![r] = [t \in Target |-> IF @[t].end = "failed" THEN Fresh ELSE @[t]]]
    /\ publish' = [publish EXCEPT ![r] = IF @ = "failed" THEN "no" ELSE @]

-----------------------------------------------------------------------------
(* The jobs *)

\* A release that exists, published or not, is used again.
Draft(r) ==
    /\ state[r] = "running" /\ draft[r] = "no"
    /\ draft' = [draft EXCEPT ![r] = "ok"]
    /\ release' = IF release = "none" THEN "draft" ELSE release
    /\ UNCHANGED <<state, attempt, job, publish, assets>>

Building(r, t) == state[r] = "running" /\ draft[r] = "ok" /\ job[r][t].end = "no"

\* The steps that stay on the runner. Whether the list survives `strip` is the object
\* format's choice; "sbom" reads the binary and fails the job when it has not.
BuildStep(r, t) ==
    LET j == job[r][t]
        s == BuildSteps[j.at]
    IN  /\ Building(r, t) /\ s # "upload"
        /\ \E listed \in BOOLEAN :
              /\ s # "build" => listed = j.listed
              /\ job' = [job EXCEPT ![r][t] =
                    IF s = "sbom" /\ ~j.listed
                    THEN Ended("failed")
                    ELSE [at |-> j.at + 1, done |-> j.done \cup {s}, listed |-> listed,
                          sent |-> {}, end |-> "no"]]
        /\ UNCHANGED <<state, attempt, draft, publish, release, assets>>

Uploading(r, t, p) ==
    /\ Building(r, t) /\ BuildSteps[job[r][t].at] = "upload"
    /\ p \notin job[r][t].sent

\* --clobber: an asset of the same name is deleted before the new one is sent.
Delete(r, t, p) ==
    /\ Uploading(r, t, p) /\ assets[t][p] # {}
    /\ assets' = [assets EXCEPT ![t][p] = {}]
    /\ UNCHANGED <<state, attempt, draft, job, publish, release>>

\* Mutation: the job goes on after the first of the two files.
SendOne(r, t, p) ==
    /\ Uploading(r, t, p) /\ assets[t][p] = {}
    /\ assets' = [assets EXCEPT ![t][p] = {[run |-> r, attempt |-> attempt[r], done |-> job[r][t].done,
                                            listed |-> job[r][t].listed]}]
    /\ job' = [job EXCEPT ![r][t].sent = @ \cup {p}, ![r][t].at = @ + 1]
    /\ UNCHANGED <<state, attempt, draft, publish, release>>

\* What was built: no two builds have the same bytes, so which run and attempt built it.
Built(r, t) == [run |-> r, attempt |-> attempt[r], done |-> job[r][t].done, listed |-> job[r][t].listed]

Send(r, t, p) ==
    LET sent == job[r][t].sent \cup {p}
    IN  /\ Uploading(r, t, p) /\ assets[t][p] = {}
        /\ assets' = [assets EXCEPT ![t][p] = {Built(r, t)}]
        /\ job' = [job EXCEPT ![r][t] = IF sent = Piece THEN Ended("ok") ELSE [@ EXCEPT !.sent = sent]]
        /\ UNCHANGED <<state, attempt, draft, publish, release>>

\* Mutation: the publish job runs although a build failed.
PublishAlways(r) ==
    /\ state[r] = "running" /\ draft[r] = "ok" /\ publish[r] = "no"
    /\ \A t \in Target : job[r][t].end # "no"
    /\ publish' = [publish EXCEPT ![r] = "ok"]
    /\ release' = "published"
    /\ UNCHANGED <<state, attempt, draft, job, assets>>

Publish(r) ==
    /\ state[r] = "running" /\ draft[r] = "ok" /\ publish[r] = "no"
    /\ \A t \in Target : job[r][t].end = "ok"
    /\ publish' = [publish EXCEPT ![r] = "ok"]
    /\ release' = "published"
    /\ UNCHANGED <<state, attempt, draft, job, assets>>

\* A step fails: draft, any step of a build (between two requests of the upload too), publish.
FailDraft(r) ==
    /\ state[r] = "running" /\ draft[r] = "no"
    /\ draft' = [draft EXCEPT ![r] = "failed"]
    /\ UNCHANGED <<state, attempt, job, publish, release, assets>>

FailBuild(r, t) ==
    /\ Building(r, t)
    /\ job' = [job EXCEPT ![r][t] = Ended("failed")]
    /\ UNCHANGED <<state, attempt, draft, publish, release, assets>>

FailPublish(r) ==
    /\ state[r] = "running" /\ draft[r] = "ok" /\ publish[r] = "no"
    /\ \A t \in Target : job[r][t].end = "ok"
    /\ publish' = [publish EXCEPT ![r] = "failed"]
    /\ UNCHANGED <<state, attempt, draft, job, release, assets>>

BuildJob(r, t) == BuildStep(r, t) \/ \E p \in Piece : Delete(r, t, p) \/ Send(r, t, p)

Next ==
    \E r \in Run :
        \/ Push(r) \/ Start(r) \/ Finish(r) \/ RerunAll(r) \/ RerunFailed(r)
        \/ Draft(r) \/ Publish(r) \/ FailDraft(r) \/ FailPublish(r)
        \/ \E t \in Target : BuildJob(r, t) \/ FailBuild(r, t)

Spec == Init /\ [][Next]_vars

\* As long as a run has a job to start or to go on with, some job does: runners are given to
\* jobs that wait and GitHub ends a job that hangs. Nobody has to push or to run anything again.
Advance == \E r \in Run : \/ Start(r) \/ Finish(r) \/ Draft(r) \/ Publish(r)
                           \/ \E t \in Target : BuildJob(r, t)

FairSpec == Spec /\ WF_vars(Advance)

-----------------------------------------------------------------------------
(* Properties *)

Upload == [run : Run, attempt : Nat \ {0}, done : SUBSET Step, listed : BOOLEAN]

\* Types; and a job never leaves the list of its steps.
TypeOK ==
    /\ state \in [Run -> {"none", "pending", "running", "finished", "cancelled"}]
    /\ attempt \in [Run -> Nat \ {0}]
    /\ draft \in [Run -> Conclusion]
    /\ job \in [Run -> [Target -> [at : DOMAIN BuildSteps, done : SUBSET Step, listed : BOOLEAN,
                                   sent : SUBSET Piece, end : Conclusion]]]
    /\ publish \in [Run -> Conclusion]
    /\ release \in {"none", "draft", "published"}
    /\ assets \in [Target -> [Piece -> SUBSET Upload]]

\* Whatever is among the assets, in whichever attempt of whichever run it was built, passed
\* the tests, carries its dependency list and was attested ("Reached only if every platform
\* built, tested, carried a verified SBOM and was attested").
ShippedWasChecked ==
    \A t \in Target, p \in Piece : \A a \in assets[t][p] :
        {"test", "attest"} \subseteq a.done /\ a.listed

\* Did any job of this run ever begin?
Begun(r) == attempt[r] > 1 \/ draft[r] # "no"

\* The archive of a target and its checksum are of one build, unless a build of the target is
\* unfinished or failed: two pushes of a tag never interleave their uploads.
PairsAgree ==
    \A t \in Target :
        (\A r \in Run : Begun(r) => job[r][t].end = "ok")
            => assets[t]["archive"] = assets[t]["sha256"]

\* A release turns visible only with every archive and checksum in its place, whatever failed
\* and was run again before, as long as the tag was pushed once.
UndraftIsWhole ==
    [][release # "published" /\ release' = "published" =>
        \A r \in Run : publish[r] # publish'[r] /\ (\A q \in Run \ {r} : ~Begun(q)) =>
            \A t \in Target : \E a \in assets[t]["archive"] :
                a.run = r /\ assets[t] = [p \in Piece |-> {a}]]_vars

\* A run that waits or runs ends or gives way to a later one: no failure keeps the group.
QueueDrains ==
    \A r \in Run : state[r] \in {"pending", "running"} ~> state[r] \in {"finished", "cancelled"}

\* "If any platform in the build matrix fails, the draft is simply never published, so a
\* half-built release is never visible to anyone."
HalfBuiltNeverVisible ==
    release = "published" =>
        \A t \in Target : \E a \in assets[t]["archive"] : assets[t] = [p \in Piece |-> {a}]
=============================================================================
