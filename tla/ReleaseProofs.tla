--------------------------- MODULE ReleaseProofs ---------------------------
(***************************************************************************)
(* For any build matrix, any number of pushes of the tag and of attempts:  *)
(* what is shipped was checked, checksums belong to their archives, and a  *)
(* release of a tag pushed once turns visible whole.                       *)
(***************************************************************************)
EXTENDS Release, TLAPS

(***************************************************************************)
(* The concurrency group.                                                  *)
(***************************************************************************)
OneRuns == \A r, q \in Run : state[r] = "running" /\ state[q] = "running" => r = q

(***************************************************************************)
(* What a build job has behind it at each of its steps.                    *)
(***************************************************************************)
StepInv ==
    \A r \in Run, t \in Target :
        LET j == job[r][t]
        IN  /\ j.at > 1 => "test" \in j.done
            /\ j.at > 3 => j.listed
            /\ j.at > 4 => "attest" \in j.done

(***************************************************************************)
(* A job that has sent a piece is in the middle of its upload, and nobody  *)
(* else has touched what it sent.                                          *)
(***************************************************************************)
SentInv ==
    \A r \in Run, t \in Target :
        job[r][t].sent # {} =>
            /\ state[r] = "running" /\ draft[r] = "ok"
            /\ job[r][t].end = "no" /\ job[r][t].at = 5
            /\ \A p \in job[r][t].sent : assets[t][p] = {Built(r, t)}

(***************************************************************************)
(* Of the only run that ever began, a target that is done is there whole.  *)
(***************************************************************************)
Alone(r)    == \A q \in Run \ {r} : ~Begun(q)
Whole(r, t) == \E a \in assets[t]["archive"] : a.run = r /\ assets[t] = [p \in Piece |-> {a}]
WholeInv    == \A r \in Run, t \in Target : job[r][t].end = "ok" /\ Alone(r) => Whole(r, t)

IInv == TypeOK /\ OneRuns /\ StepInv /\ SentInv /\ ShippedWasChecked /\ PairsAgree /\ WholeInv

-----------------------------------------------------------------------------
(* The steps of a job, by number. *)
LEMMA Steps ==
  /\ DOMAIN BuildSteps = 1..5
  /\ BuildSteps[1] = "test" /\ BuildSteps[2] = "build" /\ BuildSteps[3] = "sbom"
  /\ BuildSteps[4] = "attest" /\ BuildSteps[5] = "upload"
  /\ Step = {"test", "build", "sbom", "attest", "upload"}
<1>1. DOMAIN BuildSteps = 1..5
  BY DEF BuildSteps
<1>2. /\ BuildSteps[1] = "test" /\ BuildSteps[2] = "build" /\ BuildSteps[3] = "sbom"
      /\ BuildSteps[4] = "attest" /\ BuildSteps[5] = "upload"
  BY DEF BuildSteps
<1>3. Step = {BuildSteps[i] : i \in 1..5}
  BY <1>1 DEF Step
<1>4. 1..5 = {1, 2, 3, 4, 5}
  OBVIOUS
<1>5. QED
  BY <1>1, <1>2, <1>3, <1>4

(* The record of a job, field by field. *)
LEMMA JobType ==
  ASSUME TypeOK, NEW r \in Run, NEW t \in Target
  PROVE  /\ job[r][t] \in [at : DOMAIN BuildSteps, done : SUBSET Step, listed : BOOLEAN,
                           sent : SUBSET Piece, end : Conclusion]
         /\ job[r][t].at \in 1..5 /\ job[r][t].done \subseteq Step /\ job[r][t].listed \in BOOLEAN
         /\ job[r][t].sent \subseteq Piece /\ job[r][t].end \in Conclusion
  BY Steps DEF TypeOK

(* A job that ended, or has not begun, is of the right type and has sent nothing. *)
LEMMA EndedType ==
  ASSUME NEW e \in Conclusion
  PROVE  /\ Ended(e) \in [at : DOMAIN BuildSteps, done : SUBSET Step, listed : BOOLEAN,
                          sent : SUBSET Piece, end : Conclusion]
         /\ Ended(e).at = 1 /\ Ended(e).sent = {} /\ Ended(e).end = e
  BY Steps DEF Ended

\* A job begins with nothing done and nothing sent.
LEMMA FreshType ==
  /\ Fresh \in [at : DOMAIN BuildSteps, done : SUBSET Step, listed : BOOLEAN,
                sent : SUBSET Piece, end : Conclusion]
  /\ Fresh.at = 1 /\ Fresh.sent = {} /\ Fresh.end = "no"
  BY EndedType DEF Fresh, Conclusion

\* Before the first push of the tag.
LEMMA InitInv == Init => IInv
<1> SUFFICES ASSUME Init PROVE IInv
  OBVIOUS
<1> USE DEF Init
<1>1. Fresh.at = 1 /\ Fresh.sent = {} /\ Fresh.end = "no"
  BY FreshType
<1>2. TypeOK
  BY FreshType DEF TypeOK, Conclusion
<1>3. OneRuns /\ StepInv /\ SentInv
  BY <1>1 DEF OneRuns, StepInv, SentInv
<1>4. ShippedWasChecked /\ PairsAgree /\ WholeInv
  BY <1>1 DEF ShippedWasChecked, PairsAgree, WholeInv, Piece
<1>5. QED
  BY <1>2, <1>3, <1>4 DEF IInv

(* Push, Start, Finish: only a run's place in the group changes, and a run that finishes
   has no job in the middle of its upload. *)
LEMMA QueueStep ==
  ASSUME IInv, NEW r \in Run, Push(r) \/ Start(r) \/ Finish(r)
  PROVE  IInv'
<1>1. UNCHANGED <<attempt, draft, job, publish, release, assets>>
  BY DEF Push, Start, Finish
<1>2. state' \in [Run -> {"none", "pending", "running", "finished", "cancelled"}]
  BY DEF IInv, TypeOK, Push, Queued, Start, Finish
<1>3. OneRuns'
  BY DEF IInv, TypeOK, OneRuns, Push, Queued, Start, Finish
<1>4. SentInv'
  <2> SUFFICES ASSUME NEW q \in Run, NEW t \in Target, job[q][t].sent # {}
               PROVE  state'[q] = "running"
    BY <1>1 DEF IInv, SentInv, Built
  <2>1. state[q] = "running" /\ draft[q] = "ok" /\ job[q][t].end = "no"
    BY DEF IInv, SentInv
  <2>2. CASE Push(r)
    BY <2>1, <2>2 DEF IInv, TypeOK, Push, Queued
  <2>3. CASE Start(r)
    BY <2>1, <2>3 DEF IInv, TypeOK, Start
  <2>4. CASE Finish(r)
    BY <2>1, <2>4 DEF IInv, TypeOK, Finish
  <2>5. QED
    BY <2>2, <2>3, <2>4
<1>5. TypeOK'
  BY <1>1, <1>2 DEF IInv, TypeOK
<1>6. StepInv' /\ ShippedWasChecked'
  BY <1>1 DEF IInv, StepInv, ShippedWasChecked
<1>7. PairsAgree' /\ WholeInv'
  BY <1>1 DEF IInv, PairsAgree, WholeInv, Alone, Whole, Begun
<1>8. QED
  BY <1>3, <1>4, <1>5, <1>6, <1>7 DEF IInv

(* RerunAll, RerunFailed: the run is not running, so none of its jobs has sent anything; a
   job that is reset is not "ok". *)
LEMMA RerunStep ==
  ASSUME IInv, NEW r \in Run, RerunAll(r) \/ RerunFailed(r)
  PROVE  IInv'
<1>1. /\ state[r] # "running" /\ state' = Queued(r)
      /\ attempt' = [attempt EXCEPT ![r] = @ + 1]
      /\ UNCHANGED <<release, assets>>
  BY DEF RerunAll, RerunFailed, Again
<1>2. /\ \A q \in Run \ {r} : job'[q] = job[q] /\ draft'[q] = draft[q] /\ attempt'[q] = attempt[q]
      /\ \A t \in Target : job'[r][t] = Fresh \/ job'[r][t] = job[r][t]
      /\ attempt'[r] = attempt[r] + 1 /\ attempt[r] \in Nat \ {0}
  BY <1>1 DEF IInv, TypeOK, RerunAll, RerunFailed
<1>3. TypeOK'
  <2>1. state' \in [Run -> {"none", "pending", "running", "finished", "cancelled"}]
    BY <1>1 DEF IInv, TypeOK, Queued
  <2>2. attempt' \in [Run -> Nat \ {0}]
    BY <1>1 DEF IInv, TypeOK
  <2>3. draft' \in [Run -> Conclusion] /\ publish' \in [Run -> Conclusion]
    <3>1. draft \in [Run -> Conclusion] /\ publish \in [Run -> Conclusion] /\ "no" \in Conclusion
      BY DEF IInv, TypeOK, Conclusion
    <3>2. CASE RerunAll(r)
      BY <3>1, <3>2 DEF RerunAll
    <3>3. CASE RerunFailed(r)
      BY <3>1, <3>3 DEF RerunFailed
    <3>4. QED
      BY <3>2, <3>3
  <2>4. job' \in [Run -> [Target -> [at : DOMAIN BuildSteps, done : SUBSET Step, listed : BOOLEAN,
                                   sent : SUBSET Piece, end : Conclusion]]]
    <3> DEFINE Job == [at : DOMAIN BuildSteps, done : SUBSET Step, listed : BOOLEAN,
                       sent : SUBSET Piece, end : Conclusion]
    <3>1. Fresh \in Job /\ job \in [Run -> [Target -> Job]]
      BY FreshType DEF IInv, TypeOK
    <3> HIDE DEF Job
    <3>2. RerunAll(r) => job' \in [Run -> [Target -> Job]]
      BY <3>1 DEF RerunAll
    <3>3. RerunFailed(r) => job' \in [Run -> [Target -> Job]]
      BY <3>1 DEF RerunFailed
    <3>4. QED
      BY <3>2, <3>3 DEF Job
  <2>5. QED
    BY <1>1, <2>1, <2>2, <2>3, <2>4 DEF IInv, TypeOK
<1>4. OneRuns'
  BY <1>1 DEF IInv, TypeOK, OneRuns, Queued
<1>5. StepInv'
  BY <1>2, FreshType DEF IInv, StepInv
<1>6. SentInv'
  <2> SUFFICES ASSUME NEW q \in Run, NEW t \in Target, job'[q][t].sent # {}
               PROVE  /\ state'[q] = "running" /\ draft'[q] = "ok"
                      /\ job'[q][t].end = "no" /\ job'[q][t].at = 5
                      /\ \A p \in job'[q][t].sent : assets'[t][p] = {Built(q, t)'}
    BY DEF SentInv
  <2>1. q # r
    BY <1>1, <1>2, FreshType DEF IInv, SentInv
  <2>2. job'[q] = job[q] /\ draft'[q] = draft[q] /\ attempt'[q] = attempt[q]
    BY <1>2, <2>1
  <2>3. state'[q] = "running"
    BY <1>1, <2>1, <2>2 DEF IInv, TypeOK, SentInv, Queued
  <2>4. QED
    BY <1>1, <2>2, <2>3 DEF IInv, SentInv, Built
<1>7. ShippedWasChecked'
  BY <1>1 DEF IInv, ShippedWasChecked
<1>8. \A q \in Run : Begun(q) => Begun(q)'
  BY <1>2 DEF Begun
<1>9. \A q \in Run, t \in Target : job'[q][t].end = "ok" => job[q][t].end = "ok"
  BY <1>2, FreshType
<1>10. PairsAgree'
  BY <1>1, <1>8, <1>9 DEF IInv, PairsAgree
<1>11. WholeInv'
  BY <1>1, <1>8, <1>9 DEF IInv, WholeInv, Alone, Whole
<1>12. QED
  BY <1>3, <1>4, <1>5, <1>6, <1>7, <1>10, <1>11 DEF IInv

(* Draft, Publish and their failures: builds and assets stay as they are. *)
LEMMA ConcludeStep ==
  ASSUME IInv, NEW r \in Run, Draft(r) \/ FailDraft(r) \/ Publish(r) \/ FailPublish(r)
  PROVE  IInv'
<1>1. UNCHANGED <<state, attempt, job, assets>>
  BY DEF Draft, FailDraft, Publish, FailPublish
<1>2. TypeOK'
  BY <1>1 DEF IInv, TypeOK, Draft, FailDraft, Publish, FailPublish, Conclusion
<1>3. /\ \A q \in Run : draft[q] = "ok" => draft'[q] = "ok"
      /\ \A q \in Run : draft[q] # "no" => draft'[q] # "no"
  BY DEF IInv, TypeOK, Draft, FailDraft, Publish, FailPublish
<1>4. OneRuns' /\ StepInv' /\ ShippedWasChecked'
  BY <1>1 DEF IInv, OneRuns, StepInv, ShippedWasChecked
<1>5. SentInv'
  BY <1>1, <1>3 DEF IInv, SentInv, Built
<1>6. \A q \in Run : Begun(q) => Begun(q)'
  BY <1>1, <1>3 DEF Begun
<1>7. PairsAgree' /\ WholeInv'
  BY <1>1, <1>6 DEF IInv, PairsAgree, WholeInv, Alone, Whole
<1>8. QED
  BY <1>2, <1>4, <1>5, <1>7 DEF IInv

(* A build job takes a step on its runner. *)
LEMMA RunnerStep ==
  ASSUME IInv, NEW r \in Run, NEW t \in Target, BuildStep(r, t) \/ FailBuild(r, t)
  PROVE  IInv'
<1>1. /\ UNCHANGED <<state, attempt, draft, publish, release, assets>>
      /\ Building(r, t) /\ job[r][t].at \in 1..5
  BY JobType DEF IInv, BuildStep, FailBuild
<1>2. PICK new \in [at : DOMAIN BuildSteps, done : SUBSET Step, listed : BOOLEAN,
                    sent : SUBSET Piece, end : Conclusion] :
        /\ job' = [job EXCEPT ![r][t] = new]
        /\ new.end # "ok" /\ new.sent = {}
        /\ new.at > 1 => "test" \in new.done
        /\ new.at > 3 => new.listed
        /\ new.at > 4 => "attest" \in new.done
  <2>1. CASE job' = [job EXCEPT ![r][t] = Ended("failed")]
    <3> DEFINE new == Ended("failed")
    <3>1. "failed" \in Conclusion
      BY DEF Conclusion
    <3>2. /\ new \in [at : DOMAIN BuildSteps, done : SUBSET Step, listed : BOOLEAN,
                      sent : SUBSET Piece, end : Conclusion]
          /\ new.at = 1 /\ new.sent = {} /\ new.end = "failed"
      BY <3>1, EndedType
    <3>3. job' = [job EXCEPT ![r][t] = new]
      BY <2>1
    <3> HIDE DEF new
    <3>4. /\ new.end # "ok" /\ new.sent = {}
          /\ new.at > 1 => "test" \in new.done
          /\ new.at > 3 => new.listed
          /\ new.at > 4 => "attest" \in new.done
      BY <3>2
    <3>5. QED
      BY <3>2, <3>3, <3>4
  <2>2. CASE BuildStep(r, t) /\ job' # [job EXCEPT ![r][t] = Ended("failed")]
    <3> DEFINE j == job[r][t]
               s == BuildSteps[j.at]
    <3>1. PICK listed \in BOOLEAN :
            /\ s # "build" => listed = j.listed
            /\ ~(s = "sbom" /\ ~j.listed)
            /\ job' = [job EXCEPT ![r][t] = [at |-> j.at + 1, done |-> j.done \cup {s}, listed |-> listed,
                                            sent |-> {}, end |-> "no"]]
      BY <2>2, ZenonT(40) DEF BuildStep
    <3>2. j.done \subseteq Step
      BY JobType DEF IInv
    <3>3. s # "upload" /\ j.at \in 1..4
      <4>1. s # "upload"
        BY <2>2, SMTT(30) DEF BuildStep
      <4>2. QED
        BY <1>1, <4>1, Steps
    <3>5. /\ j.at > 1 => "test" \in j.done
          /\ j.at > 3 => j.listed
          /\ j.at > 4 => "attest" \in j.done
      BY DEF IInv, StepInv
    <3> DEFINE new == [at |-> j.at + 1, done |-> j.done \cup {s}, listed |-> listed,
                       sent |-> {}, end |-> "no"]
    <3>6. job' = [job EXCEPT ![r][t] = new]
      BY <3>1
    <3>7. new \in [at : DOMAIN BuildSteps, done : SUBSET Step, listed : BOOLEAN,
                   sent : SUBSET Piece, end : Conclusion]
      <4>1. j.at + 1 \in DOMAIN BuildSteps /\ s \in Step /\ "no" \in Conclusion
        BY <3>3, Steps DEF Conclusion
      <4>2. QED
        BY <3>2, <4>1
    <3>8. new.at > 1 => "test" \in new.done
      BY <3>3, <3>5, Steps
    <3>9. new.at > 3 => new.listed
      BY <3>1, <3>3, <3>5, Steps
    <3>10. new.at > 4 => "attest" \in new.done
      BY <3>3, <3>5, Steps
    <3>11. new.end # "ok"
      BY <1>1 DEF Building
    <3>12. QED
      BY <3>6, <3>7, <3>8, <3>9, <3>10, <3>11
  <2>3. QED
    BY <2>1, <2>2 DEF FailBuild
<1>3. job'[r][t] = new /\ \A q \in Run, u \in Target : q # r \/ u # t => job'[q][u] = job[q][u]
  BY <1>2 DEF IInv, TypeOK
<1>4. TypeOK'
  BY <1>1, <1>2 DEF IInv, TypeOK
<1>5. OneRuns' /\ ShippedWasChecked'
  BY <1>1 DEF IInv, OneRuns, ShippedWasChecked
<1>6. StepInv'
  BY <1>2, <1>3 DEF IInv, StepInv
<1>7. SentInv'
  <2> SUFFICES ASSUME NEW q \in Run, NEW u \in Target, job'[q][u].sent # {}
               PROVE  /\ state[q] = "running" /\ draft[q] = "ok"
                      /\ job'[q][u].end = "no" /\ job'[q][u].at = 5
                      /\ \A p \in job'[q][u].sent : assets[u][p] = {Built(q, u)'}
    BY <1>1 DEF SentInv
  <2>1. job'[q][u] = job[q][u]
    BY <1>2, <1>3
  <2>2. QED
    BY <1>1, <2>1 DEF IInv, SentInv, Built
<1>8. Begun(r) /\ \A q \in Run : Begun(q) <=> Begun(q)'
  BY <1>1 DEF Building, Begun
<1>9. PairsAgree'
  BY <1>1, <1>2, <1>3, <1>8 DEF IInv, PairsAgree
<1>10. WholeInv'
  BY <1>1, <1>2, <1>3, <1>8 DEF IInv, WholeInv, Alone, Whole
<1>11. QED
  BY <1>4, <1>5, <1>6, <1>7, <1>9, <1>10 DEF IInv

(* The build job at its upload: which runs, what it has sent, that its run began. *)
LEMMA AtUpload ==
  ASSUME IInv, NEW r \in Run, NEW t \in Target, NEW p \in Piece, Uploading(r, t, p)
  PROVE  /\ state[r] = "running" /\ draft[r] = "ok" /\ Begun(r)
         /\ job[r][t].end = "no" /\ job[r][t].at = 5 /\ p \notin job[r][t].sent
         /\ \A q \in Run : state[q] = "running" => q = r
<1>1. state[r] = "running" /\ draft[r] = "ok" /\ job[r][t].end = "no"
  BY DEF Uploading, Building
<1>2. BuildSteps[job[r][t].at] = "upload" /\ p \notin job[r][t].sent
  BY DEF Uploading
<1>3. job[r][t].at \in 1..5
  BY JobType DEF IInv
<1>4. job[r][t].at = 5
  BY <1>2, <1>3, Steps
<1>5. \A q \in Run : state[q] = "running" => q = r
  BY <1>1 DEF IInv, OneRuns
<1>6. QED
  BY <1>1, <1>2, <1>4, <1>5 DEF Begun

(* An asset is deleted to be sent again: of a target whose build is under way, and of a piece
   this job has not sent. *)
LEMMA DeleteStep ==
  ASSUME IInv, NEW r \in Run, NEW t \in Target, NEW p \in Piece, Delete(r, t, p)
  PROVE  IInv'
<1>1. /\ UNCHANGED <<state, attempt, draft, job, publish, release>>
      /\ assets' = [assets EXCEPT ![t][p] = {}] /\ Uploading(r, t, p)
  BY DEF Delete
<1>2. /\ state[r] = "running" /\ draft[r] = "ok" /\ Begun(r)
      /\ job[r][t].end = "no" /\ p \notin job[r][t].sent
      /\ \A q \in Run : state[q] = "running" => q = r
  BY <1>1, AtUpload
<1>3. TypeOK'
  BY <1>1 DEF IInv, TypeOK
<1>4. \A u \in Target, x \in Piece :
        /\ u # t \/ x # p => assets'[u][x] = assets[u][x]
        /\ assets'[u][x] \subseteq assets[u][x]
        /\ u # t => assets'[u] = assets[u]
  BY <1>1 DEF IInv, TypeOK
<1>5. OneRuns' /\ StepInv' /\ ShippedWasChecked'
  BY <1>1, <1>4 DEF IInv, OneRuns, StepInv, ShippedWasChecked
<1>6. SentInv'
  <2> SUFFICES ASSUME NEW q \in Run, NEW u \in Target, job[q][u].sent # {}
               PROVE  /\ state[q] = "running" /\ draft[q] = "ok"
                      /\ job[q][u].end = "no" /\ job[q][u].at = 5
                      /\ \A x \in job[q][u].sent : assets'[u][x] = {Built(q, u)}
    BY <1>1 DEF SentInv, Built
  <2>1. /\ state[q] = "running" /\ draft[q] = "ok" /\ job[q][u].end = "no" /\ job[q][u].at = 5
        /\ \A x \in job[q][u].sent : assets[u][x] = {Built(q, u)}
    BY DEF IInv, SentInv
  <2>2. q = r /\ job[q][u].sent \subseteq Piece
    BY <1>2, <2>1, JobType DEF IInv
  <2>3. \A x \in job[q][u].sent : assets'[u][x] = assets[u][x]
    BY <1>2, <1>4, <2>2
  <2>4. QED
    BY <2>1, <2>3
<1>7. \A q \in Run : Begun(q) <=> Begun(q)'
  BY <1>1 DEF Begun
<1>8. PairsAgree'
  BY <1>1, <1>2, <1>4, <1>7 DEF IInv, PairsAgree, Piece
<1>9. WholeInv'
  BY <1>1, <1>2, <1>4, <1>7 DEF IInv, WholeInv, Alone, Whole
<1>10. QED
  BY <1>3, <1>5, <1>6, <1>8, <1>9 DEF IInv

(* A piece is sent. With the second one the target is whole: both are of the build that ran
   all the steps. *)
LEMMA SendStep ==
  ASSUME IInv, NEW r \in Run, NEW t \in Target, NEW p \in Piece, Send(r, t, p)
  PROVE  IInv'
<1> DEFINE all   == job[r][t].sent \cup {p} = Piece
           built == Built(r, t)
<1>1. /\ UNCHANGED <<state, attempt, draft, publish, release>>
      /\ assets' = [assets EXCEPT ![t][p] = {built}] /\ Uploading(r, t, p)
  BY DEF Send
<1>2. /\ state[r] = "running" /\ draft[r] = "ok" /\ Begun(r)
      /\ job[r][t].end = "no" /\ job[r][t].at = 5 /\ p \notin job[r][t].sent
      /\ \A q \in Run : state[q] = "running" => q = r
  BY <1>1, AtUpload
<1>3. /\ job[r][t] \in [at : DOMAIN BuildSteps, done : SUBSET Step, listed : BOOLEAN,
                        sent : SUBSET Piece, end : Conclusion]
      /\ job[r][t].sent \subseteq Piece /\ job[r][t].done \subseteq Step /\ job[r][t].listed \in BOOLEAN
  BY JobType DEF IInv
<1>4. PICK new \in [at : DOMAIN BuildSteps, done : SUBSET Step, listed : BOOLEAN,
                    sent : SUBSET Piece, end : Conclusion] :
        /\ job' = [job EXCEPT ![r][t] = new]
        /\ all => new = Ended("ok")
        /\ ~all => /\ new.sent = job[r][t].sent \cup {p} /\ new.at = 5 /\ new.end = "no"
                  /\ new.done = job[r][t].done /\ new.listed = job[r][t].listed
  <2>1. all => job' = [job EXCEPT ![r][t] = Ended("ok")]
    BY DEF Send, IInv, TypeOK
  <2>2. ~all => job' = [job EXCEPT ![r][t] = [job[r][t] EXCEPT !.sent = job[r][t].sent \cup {p}]]
    BY DEF Send, IInv, TypeOK
  <2>3. Ended("ok") \in [at : DOMAIN BuildSteps, done : SUBSET Step, listed : BOOLEAN,
                         sent : SUBSET Piece, end : Conclusion]
    BY EndedType DEF Conclusion
  <2> DEFINE more == [job[r][t] EXCEPT !.sent = job[r][t].sent \cup {p}]
  <2>4. /\ more \in [at : DOMAIN BuildSteps, done : SUBSET Step, listed : BOOLEAN,
                     sent : SUBSET Piece, end : Conclusion]
        /\ more.sent = job[r][t].sent \cup {p} /\ more.at = job[r][t].at /\ more.end = job[r][t].end
        /\ more.done = job[r][t].done /\ more.listed = job[r][t].listed
    BY <1>3
  <2> HIDE DEF more
  <2>5. CASE all
    BY <2>1, <2>3, <2>5
  <2>6. CASE ~all
    BY <1>2, <2>2, <2>4, <2>6 DEF more
  <2>7. QED
    BY <2>5, <2>6
<1>5. job'[r][t] = new /\ \A q \in Run, u \in Target : q # r \/ u # t => job'[q][u] = job[q][u]
  BY <1>4 DEF IInv, TypeOK
<1>6. built \in Upload /\ {"test", "attest"} \subseteq built.done /\ built.listed /\ built.run = r
  <2>1. attempt[r] \in Nat \ {0}
    BY DEF IInv, TypeOK
  <2>2. {"test", "attest"} \subseteq job[r][t].done /\ job[r][t].listed
    BY <1>2 DEF IInv, StepInv
  <2>3. QED
    BY <1>3, <2>1, <2>2 DEF Built, Upload
<1>7. TypeOK'
  <2>1. job' \in [Run -> [Target -> [at : DOMAIN BuildSteps, done : SUBSET Step, listed : BOOLEAN,
                                    sent : SUBSET Piece, end : Conclusion]]]
    BY <1>4 DEF IInv, TypeOK
  <2>2. assets' \in [Target -> [Piece -> SUBSET Upload]]
    BY <1>1, <1>6 DEF IInv, TypeOK
  <2>3. QED
    BY <1>1, <2>1, <2>2 DEF IInv, TypeOK
<1>8. /\ assets'[t][p] = {built}
      /\ \A u \in Target, x \in Piece : u # t \/ x # p => assets'[u][x] = assets[u][x]
      /\ \A u \in Target : u # t => assets'[u] = assets[u]
      /\ assets'[t] \in [Piece -> SUBSET Upload]
  BY <1>1, <1>7 DEF IInv, TypeOK
<1>9. \A q \in Run, u \in Target : q # r \/ u # t => Built(q, u)' = Built(q, u)
  BY <1>1, <1>5 DEF Built
<1>10. ~all => Built(r, t)' = built
  BY <1>1, <1>4, <1>5 DEF Built
<1>11. \A q \in Run : Begun(q) <=> Begun(q)'
  BY <1>1 DEF Begun
<1>12. all => assets'[t] = [x \in Piece |-> {built}]
  <2> SUFFICES ASSUME all PROVE assets'[t] = [x \in Piece |-> {built}]
    OBVIOUS
  <2>1. \A x \in job[r][t].sent : assets[t][x] = {built}
    BY DEF IInv, SentInv
  <2>2. \A x \in Piece : assets'[t][x] = {built}
    BY <1>8, <2>1
  <2>3. QED
    BY <1>8, <2>2
<1> HIDE DEF all, built
<1>13. OneRuns' /\ ShippedWasChecked'
  BY <1>1, <1>6, <1>8 DEF IInv, OneRuns, ShippedWasChecked
<1>14. StepInv'
  <2>1. /\ new.at > 1 => "test" \in new.done
        /\ new.at > 3 => new.listed
        /\ new.at > 4 => "attest" \in new.done
    BY <1>2, <1>4, EndedType DEF IInv, StepInv, Conclusion
  <2>2. QED
    BY <1>5, <2>1 DEF IInv, StepInv
<1>15. SentInv'
  <2> SUFFICES ASSUME NEW q \in Run, NEW u \in Target, job'[q][u].sent # {}
               PROVE  /\ state[q] = "running" /\ draft[q] = "ok"
                      /\ job'[q][u].end = "no" /\ job'[q][u].at = 5
                      /\ \A x \in job'[q][u].sent : assets'[u][x] = {Built(q, u)'}
    BY <1>1 DEF SentInv
  <2>1. CASE q = r /\ u = t
    <3>1. ~all
      BY <1>4, <1>5, <2>1, EndedType DEF Conclusion
    <3>2. job'[q][u].sent = job[r][t].sent \cup {p}
      BY <1>4, <1>5, <2>1, <3>1
    <3>3. \A x \in job[r][t].sent : x \in Piece /\ x # p /\ assets[t][x] = {built}
      BY <1>2, <1>3 DEF IInv, SentInv, built
    <3>4. QED
      BY <1>2, <1>4, <1>5, <1>8, <1>10, <2>1, <3>1, <3>2, <3>3
  <2>2. CASE q # r \/ u # t
    <3>1. job'[q][u] = job[q][u] /\ Built(q, u)' = Built(q, u)
      BY <1>5, <1>9, <2>2
    <3>2. /\ state[q] = "running" /\ draft[q] = "ok" /\ job[q][u].end = "no" /\ job[q][u].at = 5
          /\ \A x \in job[q][u].sent : assets[u][x] = {Built(q, u)}
      BY <3>1 DEF IInv, SentInv
    <3>3. u # t
      BY <1>2, <2>2, <3>2
    <3>4. QED
      BY <1>8, <3>1, <3>2, <3>3
  <2>3. QED
    BY <2>1, <2>2
<1>16. PairsAgree'
  <2> SUFFICES ASSUME NEW u \in Target, \A q \in Run : Begun(q) => job'[q][u].end = "ok"
               PROVE  assets'[u]["archive"] = assets'[u]["sha256"]
    BY <1>11 DEF PairsAgree
  <2>1. CASE u = t
    <3>1. all
      BY <1>2, <1>4, <1>5, <2>1
    <3>2. QED
      BY <1>12, <2>1, <3>1 DEF Piece
  <2>2. CASE u # t
    BY <1>5, <1>8, <2>2 DEF IInv, PairsAgree
  <2>3. QED
    BY <2>1, <2>2
<1>17. WholeInv'
  <2> SUFFICES ASSUME NEW q \in Run, NEW u \in Target, job'[q][u].end = "ok", Alone(q)'
               PROVE  Whole(q, u)'
    BY DEF WholeInv
  <2>1. q = r
    BY <1>2, <1>11 DEF Alone
  <2>2. CASE u = t
    <3>1. all
      BY <1>4, <1>5, <2>1, <2>2
    <3>2. assets'[t] = [x \in Piece |-> {built}]
      BY <1>12, <3>1
    <3>3. built \in assets'[t]["archive"]
      BY <3>2 DEF Piece
    <3>4. QED
      BY <1>6, <2>1, <2>2, <3>2, <3>3 DEF Whole
  <2>3. CASE u # t
    BY <1>5, <1>8, <1>11, <2>3 DEF IInv, WholeInv, Whole, Alone
  <2>4. QED
    BY <2>2, <2>3
<1>18. QED
  BY <1>7, <1>13, <1>14, <1>15, <1>16, <1>17 DEF IInv

\* Every step keeps the invariant.
LEMMA NextInv == IInv /\ [Next]_vars => IInv'
<1> SUFFICES ASSUME IInv, [Next]_vars PROVE IInv'
  OBVIOUS
<1>1. CASE UNCHANGED vars
  <2> USE <1>1 DEF vars, IInv
  <2>1. TypeOK' /\ OneRuns' /\ StepInv' /\ ShippedWasChecked'
    BY DEF TypeOK, OneRuns, StepInv, ShippedWasChecked
  <2>2. SentInv'
    BY DEF SentInv, Built
  <2>3. PairsAgree' /\ WholeInv'
    BY DEF PairsAgree, WholeInv, Whole, Alone, Begun
  <2>4. QED
    BY <2>1, <2>2, <2>3
<1>2. ASSUME NEW r \in Run, Push(r) \/ Start(r) \/ Finish(r)
      PROVE  IInv'
  BY <1>2, QueueStep
<1>3. ASSUME NEW r \in Run, RerunAll(r) \/ RerunFailed(r)
      PROVE  IInv'
  BY <1>3, RerunStep
<1>4. ASSUME NEW r \in Run, Draft(r) \/ FailDraft(r) \/ Publish(r) \/ FailPublish(r)
      PROVE  IInv'
  BY <1>4, ConcludeStep
<1>5. ASSUME NEW r \in Run, NEW t \in Target, BuildStep(r, t) \/ FailBuild(r, t)
      PROVE  IInv'
  BY <1>5, RunnerStep
<1>6. ASSUME NEW r \in Run, NEW t \in Target, NEW p \in Piece, Delete(r, t, p) \/ Send(r, t, p)
      PROVE  IInv'
  BY <1>6, DeleteStep, SendStep
<1>7. QED
  BY <1>1, <1>2, <1>3, <1>4, <1>5, <1>6 DEF Next, BuildJob

\* The invariant holds of every state.
LEMMA Inductive == Spec => []IInv
<1>1. Init => IInv
  BY InitInv
<1>2. IInv /\ [Next]_vars => IInv'
  BY NextInv
<1>3. QED
  BY <1>1, <1>2, PTL DEF Spec

-----------------------------------------------------------------------------
(* Types, and that no job ever leaves the list of its steps, for any build matrix. *)
THEOREM ReleaseTypeCorrect == Spec => []TypeOK
<1>1. IInv => TypeOK
  BY DEF IInv
<1>2. QED
  BY <1>1, Inductive, PTL

(* Whatever is uploaded was tested, attested and has its dependency list, whichever of its
   attempts failed before. *)
THEOREM ReleaseShippedWasChecked == Spec => []ShippedWasChecked
<1>1. IInv => ShippedWasChecked
  BY DEF IInv
<1>2. QED
  BY <1>1, Inductive, PTL

(* An archive and its checksum are of one build however many pushes race and however often
   jobs are run again: the concurrency group is what it takes. *)
THEOREM ReleasePairsAgree == Spec => []PairsAgree
<1>1. IInv => PairsAgree
  BY DEF IInv
<1>2. QED
  BY <1>1, Inductive, PTL

(* A release of a tag pushed once turns visible only when whole. *)
THEOREM ReleaseUndraftIsWhole == Spec => UndraftIsWhole
<1> DEFINE Undraft == release # "published" /\ release' = "published" =>
                        \A r \in Run : publish[r] # publish'[r] /\ (\A q \in Run \ {r} : ~Begun(q)) =>
                            \A t \in Target : \E a \in assets[t]["archive"] :
                                a.run = r /\ assets[t] = [p \in Piece |-> {a}]
<1>1. IInv /\ [Next]_vars => [Undraft]_vars
  <2> SUFFICES ASSUME IInv, Next, release # "published", release' = "published",
                      NEW r \in Run, publish[r] # publish'[r], \A q \in Run \ {r} : ~Begun(q),
                      NEW t \in Target
               PROVE  \E a \in assets[t]["archive"] : a.run = r /\ assets[t] = [p \in Piece |-> {a}]
    BY DEF vars
  <2>1. PICK q \in Run : Publish(q)
    BY SMTT(30) DEF Next, Push, Start, Finish, RerunAll, RerunFailed, Again, Draft, FailDraft, FailPublish,
           BuildJob, BuildStep, Delete, Send, FailBuild
  <2>2. q = r
    BY <2>1 DEF Publish, IInv, TypeOK
  <2>3. job[r][t].end = "ok" /\ Alone(r)
    BY <2>1, <2>2 DEF Publish, Alone
  <2>4. QED
    BY <2>3 DEF IInv, WholeInv, Whole
<1>2. QED
  BY <1>1, Inductive, PTL DEF Spec, UndraftIsWhole
=============================================================================
