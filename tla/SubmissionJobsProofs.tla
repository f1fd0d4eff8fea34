------------------------ MODULE SubmissionJobsProofs ------------------------
(***************************************************************************)
(* Proofs about the job queue of SubmissionService: what a finished job    *)
(* points at, who may work on a job, how often a job is checked, and that  *)
(* the service implements AgentLedger.                                     *)
(***************************************************************************)
EXTENDS SubmissionServiceProofs

Stages == {"file", "load", "pull", "inspect", "dry_run"}

\* Checker c moves, the others do not.
Others(c) == \A d \in Checkers \ {c} : chk'[d] = chk[d]

\* Checker c stays with its submission.
SameCheck(c) ==
  /\ chk'[c].job = chk[c].job /\ chk'[c].miner = chk[c].miner /\ chk'[c].pkg = chk[c].pkg
  /\ chk'[c].src = chk[c].src

\* Verdict v is about what checker c works on.
AboutCheck(v, c) == v.job = chk[c].job /\ v.miner = chk[c].miner /\ v.pkg = chk[c].pkg

-----------------------------------------------------------------------------
(* Effects of the steps *)

LEMMA SetEffect ==
  ASSUME TypeOK, NEW c \in Checkers, NEW l, chk' = [chk EXCEPT ![c] = l]
  PROVE  Others(c) /\ chk'[c] = l
  BY DEF TypeOK, Others

LEMMA GotoEffect ==
  ASSUME TypeOK, NEW c \in Checkers, NEW pc, Goto(c, pc)
  PROVE  /\ Others(c) /\ SameCheck(c) /\ chk'[c].pc = pc
         /\ chk'[c].verdict = chk[c].verdict /\ chk'[c].row = chk[c].row
         /\ chk'[c].loaded = chk[c].loaded
  BY DEF TypeOK, Others, SameCheck, Goto, Locals

LEMMA ReturnEffect ==
  ASSUME TypeOK, NEW c \in Checkers, NEW v, Return(c, v)
  PROVE  /\ Others(c) /\ SameCheck(c) /\ chk'[c].verdict = v
         /\ chk'[c].pc = IF chk[c].loaded THEN "cleanup" ELSE "record"
         /\ chk'[c].loaded = chk[c].loaded
  BY DEF TypeOK, Others, SameCheck, Return, Locals

LEMMA LoadEffect ==
  ASSUME TypeOK, NEW c \in Checkers,
         chk' = [chk EXCEPT ![c].pc = "inspect", ![c].loaded = TRUE]
  PROVE  Others(c) /\ SameCheck(c) /\ chk'[c].pc = "inspect" /\ chk'[c].loaded
  BY DEF TypeOK, Others, SameCheck, Locals

LEMMA RecordEffect ==
  ASSUME TypeOK, NEW c \in Checkers, RecordVerdict(c)
  PROVE  /\ Others(c) /\ SameCheck(c) /\ chk'[c].pc = "register"
         /\ chk'[c].verdict = chk[c].verdict /\ chk'[c].row = Len(submissions) + 1
  BY DEF TypeOK, Others, SameCheck, RecordVerdict, Locals

\* The table after RecordVerdict.
LEMMA TableAppended ==
  ASSUME IntakeInv, NEW c \in Checkers, RecordVerdict(c)
  PROVE  /\ Len(submissions) \in Nat /\ Len(submissions') = Len(submissions) + 1
         /\ DOMAIN submissions = 1 .. Len(submissions)
         /\ DOMAIN submissions' = 1 .. (Len(submissions) + 1)
         /\ \A i \in 1 .. Len(submissions) : submissions'[i] = submissions[i]
         /\ submissions'[Len(submissions) + 1] = chk[c].verdict
  <1>1. submissions \in Seq(Verdicts) /\ chk[c].verdict \in Verdicts
    BY DEF IntakeInv, TypeOK, LocalsOK, LocalOK, RecordVerdict, Holding
  <1>2. submissions' = Append(submissions, chk[c].verdict)
    BY DEF RecordVerdict
  <1>3. QED
    BY <1>1, <1>2, AppendRow

\* Whatever the pipeline returns is about the submission it was given.
LEMMA VerdictsAboutCheck ==
  ASSUME NEW c, NEW hash, NEW agent, NEW why, NEW i
  PROVE  /\ AboutCheck(Accept(c), c) /\ AboutCheck(Reject(c, hash, agent, why), c)
         /\ AboutCheck(Duplicate(c, agent, i), c) /\ AboutCheck(Replay(c, agent, i), c)
  BY DEF AboutCheck, Accept, Reject, Duplicate, Replay, Verdict

\* What a step of check_and_record does to its checker and to the rows.
Proceeds(c) ==
  /\ chk[c].pc \in Stages /\ chk'[c].pc \in Stages
  /\ SameCheck(c)
  /\ UNCHANGED <<submissions, agents>>

Returns(c) ==
  /\ chk[c].pc \in Stages /\ chk'[c].pc \in {"cleanup", "record"}
  /\ SameCheck(c) /\ AboutCheck(chk'[c].verdict, c)
  /\ UNCHANGED <<submissions, agents>>

Cleans(c) ==
  /\ chk[c].pc = "cleanup" /\ chk'[c].pc = "record"
  /\ SameCheck(c) /\ chk'[c].verdict = chk[c].verdict
  /\ UNCHANGED <<submissions, agents>>

Registers(c) ==
  /\ chk[c].pc = "register"
  /\ agents' = Registered(chk[c].verdict, chk[c].row) /\ UNCHANGED submissions
  /\ \/ /\ c \in Workers /\ chk'[c].pc = "finish" /\ SameCheck(c)
        /\ chk'[c].verdict = chk[c].verdict /\ chk'[c].row = chk[c].row
     \/ c \notin Workers /\ chk'[c] = At("idle")

FailsToRecord(c) ==
  /\ chk[c].pc \in {"record", "register"}
  /\ UNCHANGED <<submissions, agents>>
  /\ \/ c \in Workers /\ chk'[c].pc = "fail" /\ SameCheck(c)
     \/ c \notin Workers /\ chk'[c] = At("idle")

LEMMA CheckEffect ==
  ASSUME IntakeInv, NEW c \in Checkers, Check(c)
  PROVE  /\ Others(c) /\ jobs' = jobs
         /\ \/ Proceeds(c) \/ Returns(c) \/ Cleans(c) \/ RecordVerdict(c)
            \/ Registers(c) \/ FailsToRecord(c)
  <1>0. TypeOK
    BY DEF IntakeInv
  <1>1. ASSUME chk[c].pc \in Stages, UNCHANGED <<submissions, agents>>,
               NEW v, Return(c, v), AboutCheck(v, c)
        PROVE  Others(c) /\ Returns(c)
    BY <1>0, <1>1, ReturnEffect DEF Returns
  <1>2. ASSUME chk[c].pc \in Stages, UNCHANGED <<submissions, agents>>,
               NEW pc \in Stages, Goto(c, pc)
        PROVE  Others(c) /\ Proceeds(c)
    BY <1>0, <1>2, GotoEffect DEF Proceeds
  <1>3. CASE CheckFile(c)
    <2>1. /\ chk[c].pc \in Stages /\ UNCHANGED <<submissions, agents>> /\ jobs' = jobs
          /\ "load" \in Stages
      BY <1>3 DEF CheckFile, Stages
    <2>2. QED
      BY <1>1, <1>2, <1>3, <2>1, VerdictsAboutCheck DEF CheckFile, FileLookup
  <1>4. CASE LoadImage(c)
    <2>1. chk[c].pc \in Stages /\ UNCHANGED <<submissions, agents>> /\ jobs' = jobs
      BY <1>4 DEF LoadImage, Stages
    <2>2. CASE chk' = [chk EXCEPT ![c].pc = "inspect", ![c].loaded = TRUE]
      BY <1>0, <2>1, <2>2, LoadEffect DEF Proceeds, Stages
    <2>3. QED
      BY <1>1, <1>4, <2>1, <2>2, VerdictsAboutCheck DEF LoadImage
  <1>5. CASE \E why \in {"image", "fault"} : LoadUnresolved(c, why)
    <2>1. chk[c].pc \in Stages /\ UNCHANGED <<submissions, agents>> /\ jobs' = jobs
      BY <1>5 DEF LoadUnresolved, Stages
    <2>2. QED
      BY <1>1, <1>5, <2>1, VerdictsAboutCheck DEF LoadUnresolved
  <1>6. CASE InspectImage(c)
    <2>1. /\ chk[c].pc \in Stages /\ UNCHANGED <<submissions, agents>> /\ jobs' = jobs
          /\ "dry_run" \in Stages
      BY <1>6 DEF InspectImage, Stages
    <2>2. QED
      BY <1>1, <1>2, <1>6, <2>1, VerdictsAboutCheck DEF InspectImage, AgentLookup
  <1>7. CASE DryRun(c)
    <2>1. chk[c].pc \in Stages /\ UNCHANGED <<submissions, agents>> /\ jobs' = jobs
      BY <1>7 DEF DryRun, Stages
    <2>2. \/ Return(c, Reject(c, MeasuredHash(c), AgentOf[chk[c].pkg], "image"))
          \/ Return(c, Accept(c))
      BY <1>7 DEF DryRun
    <2>3. QED
      BY <1>1, <2>1, <2>2, VerdictsAboutCheck
  <1>8. CASE StageFault(c) \/ CallFails(c)
    <2>1. chk[c].pc \in Stages /\ UNCHANGED <<submissions, agents>> /\ jobs' = jobs
      BY <1>8 DEF StageFault, CallFails, Stages
    <2>2. Failed(c, "fault") \/ Failed(c, "image")
      BY <1>8 DEF StageFault, CallFails
    <2>3. QED
      BY <1>1, <2>1, <2>2, VerdictsAboutCheck DEF Failed
  <1>9. CASE Cleanup(c) \/ CleanupFails(c)
    BY <1>0, <1>9, GotoEffect DEF Cleanup, CleanupFails, Cleans
  <1>10. CASE RecordVerdict(c)
    BY <1>0, <1>10, RecordEffect DEF RecordVerdict
  <1>11. CASE RegisterAgent(c)
    BY <1>0, <1>11, GotoEffect, SetEffect DEF RegisterAgent, Registers, Rest
  <1>12. CASE RecordFails(c)
    BY <1>0, <1>12, GotoEffect, SetEffect DEF RecordFails, FailsToRecord, Rest
  <1>13. QED
    BY <1>3, <1>4, <1>5, <1>6, <1>7, <1>8, <1>9, <1>10, <1>11, <1>12 DEF Check

\* How the steps of the queue change the jobs table.
LEMMA PostEffect ==
  ASSUME TypeOK, NEW m \in Miners, NEW p \in Packages, CreateJob(m, p)
  PROVE  \E j \in JobIds :
           /\ jobs[j].state = "absent"
           /\ jobs'[j] = [state |-> "queued", miner |-> m, pkg |-> p, row |-> None]
           /\ \A k \in JobIds \ {j} : jobs'[k] = jobs[k]
           /\ UNCHANGED <<submissions, agents, chk>>
  <1> DEFINE j == Oldest(InState("absent"))
  <1>1. InState("absent") \in SUBSET Nat /\ InState("absent") # {}
    BY DEF CreateJob, InState, JobIds
  <1>2. j \in JobIds /\ jobs[j].state = "absent"
    BY <1>1, OldestIn DEF InState
  <1> HIDE DEF j
  <1>3. jobs' = [jobs EXCEPT ![j] = [state |-> "queued", miner |-> m, pkg |-> p, row |-> None]]
    BY DEF CreateJob, j
  <1>4. QED
    BY <1>2, <1>3 DEF CreateJob, TypeOK

LEMMA BootEffect ==
  ASSUME TypeOK, NEW w \in Workers, Boot(w)
  PROVE  /\ chk[w].pc = "down" /\ Others(w) /\ chk'[w] = At("claim")
         /\ "overlap" \in Faults \/ \A v \in Workers \ {w} : chk[v].pc \notin Busy
         /\ UNCHANGED <<submissions, agents>>
         /\ \A k \in JobIds :
              /\ jobs'[k].state = IF jobs[k].state = "running" THEN "queued" ELSE jobs[k].state
              /\ jobs'[k].miner = jobs[k].miner /\ jobs'[k].pkg = jobs[k].pkg
              /\ jobs'[k].row = jobs[k].row
  <1>1. w \in Checkers /\ chk' = [chk EXCEPT ![w] = At("claim")]
    BY DEF Boot, Rest, Checkers
  <1>2. Others(w) /\ chk'[w] = At("claim")
    BY <1>1, SetEffect
  <1>3. QED
    BY <1>2 DEF Boot, Requeued, TypeOK, JobRecords

LEMMA ClaimSelectEffect ==
  ASSUME TypeOK, NEW w \in Workers, ClaimSelect(w)
  PROVE  /\ Others(w) /\ chk'[w].pc = "update"
         /\ chk'[w].job \in JobIds /\ jobs[chk'[w].job].state = "queued"
         /\ UNCHANGED <<submissions, agents, jobs>>
  <1> DEFINE j == Oldest(InState("queued"))
  <1>1. InState("queued") \in SUBSET Nat /\ InState("queued") # {}
    BY DEF ClaimSelect, InState, JobIds
  <1>2. j \in JobIds /\ jobs[j].state = "queued"
    BY <1>1, OldestIn DEF InState
  <1> HIDE DEF j
  <1>3. chk' = [chk EXCEPT ![w].pc = "update", ![w].job = j]
    BY DEF ClaimSelect, j
  <1>4. Others(w) /\ chk'[w].pc = "update" /\ chk'[w].job = j
    BY <1>3 DEF TypeOK, Locals, Others, Checkers
  <1>5. QED
    BY <1>2, <1>4 DEF ClaimSelect

\* The UPDATE claims the job, or finds it claimed.
Claims(w, j) ==
  /\ jobs[j].state = "queued" /\ j \in JobIds
  /\ chk'[w] = Start(j, jobs[j].miner, jobs[j].pkg, "registry", FALSE)
  /\ jobs'[j].state = "running" /\ jobs'[j].row = jobs[j].row
  /\ jobs'[j].miner = jobs[j].miner /\ jobs'[j].pkg = jobs[j].pkg
  /\ \A k \in JobIds \ {j} : jobs'[k] = jobs[k]

LEMMA ClaimUpdateEffect ==
  ASSUME IntakeInv, NEW w \in Workers, ClaimUpdate(w)
  PROVE  /\ Others(w) /\ UNCHANGED <<submissions, agents>> /\ chk[w].pc = "update"
         /\ \/ Claims(w, chk[w].job)
            \/ chk'[w] = At("claim") /\ jobs' = jobs
  <1>1. w \in Checkers /\ TypeOK /\ chk[w].job \in JobIds
    BY DEF IntakeInv, Checkers, LocalsOK, LocalOK, ClaimUpdate
  <1>2. CASE jobs[chk[w].job].state = "queued"
    <2> DEFINE j == chk[w].job
               l == Start(j, jobs[j].miner, jobs[j].pkg, "registry", FALSE)
    <2>1. chk' = [chk EXCEPT ![w] = l] /\ jobs' = [jobs EXCEPT ![j].state = "running"]
      BY <1>2 DEF ClaimUpdate, Claimable
    <2>2. Others(w) /\ chk'[w] = l
      BY <1>1, <2>1, SetEffect
    <2>3. /\ jobs'[j].state = "running" /\ jobs'[j].row = jobs[j].row
          /\ jobs'[j].miner = jobs[j].miner /\ jobs'[j].pkg = jobs[j].pkg
          /\ \A k \in JobIds \ {j} : jobs'[k] = jobs[k]
      BY <1>1, <2>1 DEF TypeOK, JobRecords
    <2>4. QED
      BY <1>1, <1>2, <2>2, <2>3 DEF Claims, ClaimUpdate
  <1>3. CASE jobs[chk[w].job].state # "queued"
    BY <1>1, <1>3, SetEffect DEF ClaimUpdate, Claimable, Rest
  <1>4. QED
    BY <1>2, <1>3

\* finish_job settles the job the worker holds.
Settles(w, j) ==
  /\ j \in JobIds /\ chk[w].pc \in {"finish", "fail"}
  /\ chk'[w] = At("claim")
  /\ jobs'[j].state = IF chk[w].pc = "finish" THEN "done" ELSE "failed"
  /\ jobs'[j].row = IF chk[w].pc = "finish" THEN chk[w].row ELSE None
  /\ jobs'[j].miner = jobs[j].miner /\ jobs'[j].pkg = jobs[j].pkg
  /\ \A k \in JobIds \ {j} : jobs'[k] = jobs[k]

LEMMA SettleEffect ==
  ASSUME IntakeInv, NEW w \in Workers, FinishJob(w) \/ FailJob(w)
  PROVE  Others(w) /\ UNCHANGED <<submissions, agents>> /\ Settles(w, chk[w].job)
  <1>1. w \in Checkers /\ TypeOK /\ chk[w].job \in JobIds
    BY DEF IntakeInv, Checkers, LocalsOK, LocalOK, FinishJob, FailJob, Busy, Holding
  <1>2. chk' = [chk EXCEPT ![w] = At("claim")] /\ UNCHANGED <<submissions, agents>>
    BY DEF FinishJob, FailJob, Rest
  <1>3. Others(w) /\ chk'[w] = At("claim")
    BY <1>1, <1>2, SetEffect
  <1>4. QED
    BY <1>1, <1>2, <1>3 DEF FinishJob, FailJob, RecordedRow, Settles, TypeOK, JobRecords

LEMMA WriteFailsEffect ==
  ASSUME TypeOK, NEW w \in Workers, WorkerWriteFails(w)
  PROVE  /\ Others(w) /\ UNCHANGED <<submissions, agents, jobs>>
         /\ \/ chk[w].pc = "finish" /\ chk'[w].pc = "fail" /\ SameCheck(w)
            \/ chk'[w] = At("dead") /\ "db" \in Faults
  BY GotoEffect, SetEffect DEF WorkerWriteFails, Checkers

LEMMA BeginEffect ==
  ASSUME TypeOK, NEW c \in Direct, NEW m, NEW p, NEW src, NEW skip, Begin(c, m, p, src, skip)
  PROVE  /\ Others(c) /\ c \in Checkers \ Workers /\ UNCHANGED <<submissions, agents, jobs>>
         /\ chk[c].pc = "idle" /\ chk'[c] = Start(None, m, p, src, skip)
  BY SetEffect, SubmissionAssumption DEF Begin, Checkers

LEMMA CrashEffect ==
  ASSUME TypeOK, NEW c \in Checkers, Crash(c)
  PROVE  /\ Others(c) /\ UNCHANGED <<submissions, agents, jobs>> /\ "crash" \in Faults
         /\ chk'[c] = IF c \in Workers THEN At("down") ELSE At("idle")
  BY SetEffect DEF Crash

-----------------------------------------------------------------------------
(* What a finished job points at *)

\* What checker c holds, with locals l: its verdict is about its submission,
\* which is the one its job was posted for.
HoldsOwn(c, l, J) ==
  /\ l.pc \in Holding =>
       l.verdict.job = l.job /\ l.verdict.miner = l.miner /\ l.verdict.pkg = l.pkg
  /\ c \in Direct => l.job = None
  /\ c \in Workers /\ l.pc \in Busy => J[l.job].miner = l.miner /\ J[l.job].pkg = l.pkg

CheckersHoldOwn == \A c \in Checkers : HoldsOwn(c, chk[c], jobs)

\* A job has a row when it is done, and only then.
OnlyDoneHaveRows == \A j \in JobIds : jobs[j].state # "done" => jobs[j].row = None

JobsInv == CheckersHoldOwn /\ OnlyDoneHaveRows /\ DoneJobsHaveTheirVerdict

\* A posted job keeps its miner and its package.
PostedKept ==
  \A j \in JobIds : jobs[j].state # "absent" =>
    jobs'[j].miner = jobs[j].miner /\ jobs'[j].pkg = jobs[j].pkg

\* No job becomes done; one that is not has no row.
NoneDone ==
  \A k \in JobIds :
    \/ jobs'[k].state = jobs[k].state /\ jobs'[k].row = jobs[k].row
    \/ jobs'[k].state # "done" /\ jobs'[k].row = None

\* The checkers that do not move hold what they held.
LEMMA OthersHoldOwn ==
  ASSUME IntakeInv, HeldJobs, CheckersHoldOwn, PostedKept, NEW c \in Checkers, Others(c),
         HoldsOwn(c, chk'[c], jobs')
  PROVE  CheckersHoldOwn'
  <1> SUFFICES ASSUME NEW d \in Checkers, d # c PROVE HoldsOwn(d, chk[d], jobs')
    BY DEF CheckersHoldOwn, Others
  <1>1. HoldsOwn(d, chk[d], jobs) /\ LocalOK(d, chk[d], submissions)
    BY DEF CheckersHoldOwn, IntakeInv, LocalsOK
  <1>2. ASSUME d \in Workers, chk[d].pc \in Busy
        PROVE  jobs'[chk[d].job].miner = chk[d].miner /\ jobs'[chk[d].job].pkg = chk[d].pkg
    <2>1. chk[d].job \in JobIds /\ chk[d].job # None
      BY <1>1, <1>2, SubmissionNoneAssumption DEF LocalOK, JobIds
    <2>2. jobs[chk[d].job].state # "absent"
      BY <1>2, <2>1 DEF HeldJobs
    <2>3. QED
      BY <1>1, <1>2, <2>1, <2>2 DEF PostedKept, HoldsOwn
  <1>3. QED
    BY <1>1, <1>2 DEF HoldsOwn

\* A checker at rest holds nothing.
LEMMA AtHoldsOwn ==
  ASSUME NEW pc \in {"idle", "down", "dead", "claim"}, NEW c, NEW J
  PROVE  HoldsOwn(c, At(pc), J)
  BY DEF At, HoldsOwn, Busy, Holding

\* A done job keeps its row when the jobs table and the rows are kept.
LEMMA DoneKept ==
  ASSUME IntakeInv, OnlyDoneHaveRows, DoneJobsHaveTheirVerdict, jobs' = jobs,
         \/ submissions' = submissions
         \/ \E c \in Checkers : RecordVerdict(c)
  PROVE  OnlyDoneHaveRows' /\ DoneJobsHaveTheirVerdict'
  <1>1. OnlyDoneHaveRows'
    BY DEF OnlyDoneHaveRows
  <1>2. ASSUME NEW j \in JobIds, jobs[j].state = "done"
        PROVE  /\ jobs[j].row # None
               /\ submissions'[jobs[j].row].job = j
               /\ submissions'[jobs[j].row].miner = jobs[j].miner
               /\ submissions'[jobs[j].row].pkg = jobs[j].pkg
    <2>1. /\ jobs[j].row # None
          /\ submissions[jobs[j].row].job = j
          /\ submissions[jobs[j].row].miner = jobs[j].miner
          /\ submissions[jobs[j].row].pkg = jobs[j].pkg
      BY <1>2 DEF DoneJobsHaveTheirVerdict, InState
    <2>2. jobs[j].row \in DOMAIN submissions
      BY <2>1 DEF IntakeInv, TypeOK
    <2>3. submissions'[jobs[j].row] = submissions[jobs[j].row]
      BY <2>2, TableAppended
    <2>4. QED
      BY <2>1, <2>3
  <1>3. QED
    BY <1>1, <1>2 DEF DoneJobsHaveTheirVerdict, InState

LEMMA JobsCheckStep ==
  ASSUME IntakeInv, HeldJobs, JobsInv, NEW c \in Checkers, Check(c)
  PROVE  JobsInv'
  <1>1. /\ Others(c) /\ jobs' = jobs
        /\ \/ Proceeds(c) \/ Returns(c) \/ Cleans(c) \/ RecordVerdict(c)
           \/ Registers(c) \/ FailsToRecord(c)
    BY CheckEffect
  <1>2. PostedKept /\ HoldsOwn(c, chk[c], jobs) /\ TypeOK
    BY <1>1 DEF PostedKept, JobsInv, CheckersHoldOwn, IntakeInv
  <1>3. HoldsOwn(c, chk'[c], jobs)
    <2>1. CASE Proceeds(c)
      BY <1>2, <2>1 DEF Proceeds, SameCheck, HoldsOwn, Stages, Busy, Holding
    <2>2. CASE Returns(c)
      BY <1>2, <2>2 DEF Returns, SameCheck, AboutCheck, HoldsOwn, Stages, Busy, Holding
    <2>3. CASE Cleans(c)
      BY <1>2, <2>3 DEF Cleans, SameCheck, HoldsOwn, Busy, Holding
    <2>4. CASE RecordVerdict(c)
      <3>1. /\ chk[c].pc = "record" /\ SameCheck(c) /\ chk'[c].pc = "register"
            /\ chk'[c].verdict = chk[c].verdict
        BY <1>2, <2>4, RecordEffect DEF RecordVerdict
      <3>2. QED
        BY <1>2, <3>1 DEF SameCheck, HoldsOwn, Busy, Holding
    <2>5. CASE Registers(c)
      BY <1>2, <2>5, AtHoldsOwn DEF Registers, SameCheck, HoldsOwn, Busy, Holding
    <2>6. CASE FailsToRecord(c)
      BY <1>2, <2>6, AtHoldsOwn DEF FailsToRecord, SameCheck, HoldsOwn, Busy, Holding
    <2>7. QED
      BY <1>1, <2>1, <2>2, <2>3, <2>4, <2>5, <2>6
  <1>4. CheckersHoldOwn'
    BY <1>1, <1>2, <1>3, OthersHoldOwn DEF JobsInv
  <1>5. submissions' = submissions \/ \E d \in Checkers : RecordVerdict(d)
    BY <1>1 DEF Proceeds, Returns, Cleans, Registers, FailsToRecord
  <1>6. QED
    BY <1>1, <1>4, <1>5, DoneKept DEF JobsInv

\* A step of the queue that leaves the rows alone and finishes no job.
LEMMA JobsQueueStep ==
  ASSUME IntakeInv, HeldJobs, JobsInv, NEW c \in Checkers, Others(c),
         submissions' = submissions, PostedKept, HoldsOwn(c, chk'[c], jobs'),
         NoneDone
  PROVE  JobsInv'
  <1>1. CheckersHoldOwn'
    BY OthersHoldOwn DEF JobsInv
  <1>2. OnlyDoneHaveRows'
    BY DEF JobsInv, OnlyDoneHaveRows, NoneDone
  <1>3. ASSUME NEW k \in JobIds, jobs'[k].state = "done"
        PROVE  /\ jobs'[k].row = jobs[k].row /\ jobs'[k].miner = jobs[k].miner
               /\ jobs'[k].pkg = jobs[k].pkg /\ jobs[k].state = "done"
    BY <1>3 DEF PostedKept, NoneDone
  <1>4. DoneJobsHaveTheirVerdict'
    BY <1>3 DEF JobsInv, DoneJobsHaveTheirVerdict, InState
  <1>5. QED
    BY <1>1, <1>2, <1>4 DEF JobsInv

LEMMA JobsWorkStep ==
  ASSUME IntakeInv, HeldJobs, JobsInv, NEW w \in Workers, Work(w)
  PROVE  JobsInv'
  <1>0. w \in Checkers /\ w \notin Direct /\ TypeOK /\ HoldsOwn(w, chk[w], jobs)
    BY SubmissionAssumption DEF Checkers, IntakeInv, JobsInv, CheckersHoldOwn
  <1>1. CASE Boot(w)
    <2>1. PostedKept /\ HoldsOwn(w, chk'[w], jobs')
      BY <1>0, <1>1, BootEffect, AtHoldsOwn DEF PostedKept
    <2>2. NoneDone
      BY <1>0, <1>1, BootEffect DEF JobsInv, OnlyDoneHaveRows, NoneDone
    <2>3. QED
      BY <1>0, <1>1, <2>1, <2>2, BootEffect, JobsQueueStep
  <1>2. CASE ClaimSelect(w)
    <2>1. HoldsOwn(w, chk'[w], jobs')
      BY <1>0, <1>2, ClaimSelectEffect DEF HoldsOwn, Busy, Holding
    <2>2. QED
      BY <1>0, <1>2, <2>1, ClaimSelectEffect, JobsQueueStep DEF PostedKept, NoneDone
  <1>3. CASE ClaimUpdate(w)
    <2>1. CASE chk'[w] = At("claim") /\ jobs' = jobs
      BY <1>0, <1>3, <2>1, ClaimUpdateEffect, AtHoldsOwn, JobsQueueStep DEF PostedKept, NoneDone
    <2>2. CASE Claims(w, chk[w].job)
      <3> DEFINE j == chk[w].job
      <3>1. PostedKept
        BY <2>2 DEF Claims, PostedKept
      <3>2. HoldsOwn(w, chk'[w], jobs')
        BY <1>0, <2>2 DEF Claims, HoldsOwn, Start, At, Busy, Holding
      <3>3. NoneDone
        BY <2>2 DEF Claims, JobsInv, OnlyDoneHaveRows, NoneDone
      <3>4. QED
        BY <1>0, <1>3, <3>1, <3>2, <3>3, ClaimUpdateEffect, JobsQueueStep
    <2>3. QED
      BY <1>3, <2>1, <2>2, ClaimUpdateEffect
  <1>4. CASE FinishJob(w)
    <2> DEFINE j == chk[w].job
               i == chk[w].row
    <2>1. chk[w].pc = "finish" /\ LocalOK(w, chk[w], submissions)
      BY <1>0, <1>4 DEF FinishJob, IntakeInv, LocalsOK
    <2>2. Others(w) /\ submissions' = submissions /\ Settles(w, j)
      BY <1>4, SettleEffect
    <2>3. PostedKept /\ HoldsOwn(w, chk'[w], jobs')
      BY <2>2, AtHoldsOwn DEF PostedKept, Settles
    <2>4. CheckersHoldOwn'
      BY <1>0, <2>2, <2>3, OthersHoldOwn DEF JobsInv
    <2>5. /\ i \in 1 .. Len(submissions) /\ submissions[i] = chk[w].verdict
          /\ submissions[i].job = j /\ submissions[i].miner = jobs[j].miner
          /\ submissions[i].pkg = jobs[j].pkg
      BY <1>0, <2>1 DEF LocalOK, HoldsOwn, Busy, Holding
    <2>6. i # None
      BY <1>0, <2>5, Table, SubmissionNoneAssumption
    <2>7. \A k \in JobIds : IF k = j THEN jobs'[k].state = "done" /\ jobs'[k].row = i
                            ELSE jobs'[k] = jobs[k]
      BY <2>1, <2>2 DEF Settles
    <2>8. OnlyDoneHaveRows'
      BY <2>7 DEF JobsInv, OnlyDoneHaveRows
    <2>9. jobs'[j].miner = jobs[j].miner /\ jobs'[j].pkg = jobs[j].pkg
      BY <2>2 DEF Settles
    <2> HIDE DEF i, j
    <2>10. DoneJobsHaveTheirVerdict'
      BY <2>2, <2>5, <2>6, <2>7, <2>9 DEF JobsInv, DoneJobsHaveTheirVerdict, InState
    <2>11. QED
      BY <2>4, <2>8, <2>10 DEF JobsInv
  <1>5. CASE FailJob(w)
    <2>1. Others(w) /\ submissions' = submissions /\ Settles(w, chk[w].job) /\ chk[w].pc = "fail"
      BY <1>5, SettleEffect DEF FailJob
    <2>2. PostedKept /\ HoldsOwn(w, chk'[w], jobs')
      BY <2>1, AtHoldsOwn DEF PostedKept, Settles
    <2>3. NoneDone
      BY <2>1 DEF Settles, NoneDone
    <2>4. QED
      BY <1>0, <2>1, <2>2, <2>3, JobsQueueStep
  <1>6. CASE WorkerWriteFails(w)
    <2>1. HoldsOwn(w, chk'[w], jobs)
      BY <1>0, <1>6, WriteFailsEffect, AtHoldsOwn DEF SameCheck, HoldsOwn, Busy, Holding
    <2>2. QED
      BY <1>0, <1>6, <2>1, WriteFailsEffect, JobsQueueStep DEF PostedKept, NoneDone
  <1>7. QED
    BY <1>1, <1>2, <1>3, <1>4, <1>5, <1>6 DEF Work

LEMMA JobsInductive == Spec => []JobsInv
  <1>1. Init => JobsInv
    <2> SUFFICES ASSUME Init PROVE JobsInv
      OBVIOUS
    <2>1. \A c \in Checkers : HoldsOwn(c, chk[c], jobs)
      BY AtHoldsOwn DEF Init, Rest, Checkers
    <2>2. \A j \in JobIds : jobs[j].state = "absent" /\ jobs[j].row = None
      BY DEF Init, NoJob
    <2>3. QED
      BY <2>1, <2>2 DEF JobsInv, CheckersHoldOwn, OnlyDoneHaveRows, DoneJobsHaveTheirVerdict,
                        InState
  <1>2. IntakeInv /\ HeldJobs /\ JobsInv /\ [Next]_vars => JobsInv'
    <2> SUFFICES ASSUME IntakeInv, HeldJobs, JobsInv, [Next]_vars PROVE JobsInv'
      OBVIOUS
    <2>0. TypeOK
      BY DEF IntakeInv
    <2>1. CASE UNCHANGED vars
      BY <2>1 DEF vars, JobsInv, CheckersHoldOwn, HoldsOwn, OnlyDoneHaveRows,
                  DoneJobsHaveTheirVerdict, InState
    <2>2. ASSUME NEW m \in Miners, NEW p \in Packages, CreateJob(m, p) PROVE JobsInv'
      <3>1. PICK j \in JobIds :
              /\ jobs[j].state = "absent"
              /\ jobs'[j] = [state |-> "queued", miner |-> m, pkg |-> p, row |-> None]
              /\ \A k \in JobIds \ {j} : jobs'[k] = jobs[k]
              /\ UNCHANGED <<submissions, agents, chk>>
        BY <2>0, <2>2, PostEffect
      <3>2. PostedKept
        BY <3>1 DEF PostedKept
      <3>3. NoneDone
        BY <3>1 DEF NoneDone
      <3>4. PICK c \in Checkers : TRUE
        BY <2>2 DEF CreateJob, Checkers
      <3>5. Others(c)
        BY <3>1 DEF Others
      <3>6. HoldsOwn(c, chk[c], jobs) /\ LocalOK(c, chk[c], submissions)
        BY DEF JobsInv, CheckersHoldOwn, IntakeInv, LocalsOK
      <3>7. ASSUME c \in Workers, chk[c].pc \in Busy
            PROVE  jobs'[chk[c].job] = jobs[chk[c].job]
        <4>1. chk[c].job \in JobIds /\ chk[c].job # None
          BY <3>6, <3>7, SubmissionNoneAssumption DEF LocalOK, JobIds
        <4>2. QED
          BY <3>1, <3>7, <4>1 DEF HeldJobs
      <3>8. HoldsOwn(c, chk[c], jobs')
        BY <3>6, <3>7 DEF HoldsOwn
      <3>9. QED
        BY <3>1, <3>2, <3>3, <3>5, <3>8, JobsQueueStep
    <2>3. ASSUME NEW c \in Direct, NEW m \in Miners, NEW p \in Packages, NEW src \in Sources,
                 NEW skip \in Skips, Begin(c, m, p, src, skip)
          PROVE  JobsInv'
      <3>1. src \in {"file", "registry"}
        BY SubmissionAssumption
      <3>2. HoldsOwn(c, Start(None, m, p, src, skip), jobs)
        BY <2>0, <2>3, <3>1, BeginEffect DEF HoldsOwn, Start, At, Busy, Holding
      <3>3. QED
        BY <2>0, <2>3, <3>2, BeginEffect, JobsQueueStep DEF PostedKept, NoneDone
    <2>4. ASSUME NEW c \in Checkers, Crash(c) PROVE JobsInv'
      BY <2>0, <2>4, CrashEffect, AtHoldsOwn, JobsQueueStep DEF PostedKept, NoneDone
    <2>5. QED
      BY <2>1, <2>2, <2>3, <2>4, JobsCheckStep, JobsWorkStep DEF Next
  <1>3. QED
    BY <1>1, <1>2, Inductive, PTL DEF Spec

\* A done job points at a row that was recorded for it, of its miner and image:
\* Worker._run_job hands finish_job the row of its own check, and requeued or
\* reclaimed jobs keep what they were posted with.
THEOREM DoneJobsAreAnswered == Spec => []DoneJobsHaveTheirVerdict
  <1>1. JobsInv => DoneJobsHaveTheirVerdict
    BY DEF JobsInv
  <1>2. QED
    BY <1>1, JobsInductive, PTL

-----------------------------------------------------------------------------
(* Who works on a job *)

\* Worker.run requeues every running job when it starts.  No server is started
\* while the worker of another one has a job: there is one server, or whoever
\* starts them sees to it.
NoOverlap == "overlap" \notin Faults \/ \A v, w \in Workers : v = w

\* Worker w, with locals l, works on job j.
WorksOn(l, j) == l.pc \in Busy /\ l.job = j

HoldersRun == \A w \in Workers : chk[w].pc \in Busy => jobs[chk[w].job].state = "running"

HoldersDiffer ==
  \A v, w \in Workers : chk[v].pc \in Busy /\ WorksOn(chk[w], chk[v].job) => v = w

RestersAreFree == \A w \in Workers : chk[w].job # None => chk[w].pc \in Busy \cup {"update"}

\* JobHeldOnce, strengthened to be inductive.
RunInv == HoldersRun /\ HoldersDiffer /\ RestersAreFree

\* One checker moves, and the jobs of the others keep their state.
LEMMA RunKept ==
  ASSUME RunInv, NEW c \in Checkers, Others(c),
         \A v \in Workers \ {c} : chk[v].pc \in Busy =>
           jobs'[chk[v].job].state = jobs[chk[v].job].state,
         c \in Workers =>
           /\ chk'[c].pc \in Busy =>
                /\ jobs'[chk'[c].job].state = "running"
                /\ \A v \in Workers \ {c} : ~WorksOn(chk[v], chk'[c].job)
           /\ chk'[c].job # None => chk'[c].pc \in Busy \cup {"update"}
  PROVE  RunInv'
  <1>1. \A v \in Workers : v \in Checkers /\ (v # c => chk'[v] = chk[v])
    BY DEF Others, Checkers
  <1>2. HoldersRun'
    BY <1>1 DEF RunInv, HoldersRun
  <1>3. HoldersDiffer'
    BY <1>1 DEF RunInv, HoldersDiffer, WorksOn
  <1>4. RestersAreFree'
    BY <1>1 DEF RunInv, RestersAreFree
  <1>5. QED
    BY <1>2, <1>3, <1>4 DEF RunInv

\* A checker that is at rest afterwards disturbs nothing, while the jobs stay.
LEMMA RunRests ==
  ASSUME RunInv, NEW c \in Checkers, Others(c), jobs' = jobs,
         NEW pc \in {"idle", "down", "dead", "claim"}, chk'[c] = At(pc)
  PROVE  RunInv'
  BY RunKept DEF At, Busy, Holding

\* A busy checker that stays busy with its job disturbs nothing.
LEMMA RunStays ==
  ASSUME RunInv, NEW c \in Checkers, Others(c), jobs' = jobs,
         chk[c].pc \in Busy, chk'[c].pc \in Busy, chk'[c].job = chk[c].job
  PROVE  RunInv'
  <1>1. c \in Workers => /\ jobs'[chk'[c].job].state = "running"
                         /\ \A v \in Workers \ {c} : ~WorksOn(chk[v], chk'[c].job)
    BY DEF RunInv, HoldersRun, HoldersDiffer
  <1>2. QED
    BY <1>1, RunKept

LEMMA RunCheckStep ==
  ASSUME IntakeInv, RunInv, NEW c \in Checkers, Check(c)
  PROVE  RunInv'
  <1>1. /\ Others(c) /\ jobs' = jobs
        /\ \/ Proceeds(c) \/ Returns(c) \/ Cleans(c) \/ RecordVerdict(c)
           \/ Registers(c) \/ FailsToRecord(c)
    BY CheckEffect
  <1>2. \/ chk[c].pc \in Busy /\ chk'[c].pc \in Busy /\ chk'[c].job = chk[c].job
        \/ chk'[c] = At("idle")
    <2>1. CASE Proceeds(c) \/ Returns(c) \/ Cleans(c) \/ Registers(c) \/ FailsToRecord(c)
      BY <2>1 DEF Proceeds, Returns, Cleans, Registers, FailsToRecord, SameCheck, Stages, Busy,
                  Holding
    <2>2. CASE RecordVerdict(c)
      BY <2>2, RecordEffect DEF RecordVerdict, SameCheck, IntakeInv, Busy, Holding
    <2>3. QED
      BY <1>1, <2>1, <2>2
  <1>3. QED
    BY <1>1, <1>2, RunRests, RunStays

LEMMA RunWorkStep ==
  ASSUME NoOverlap, IntakeInv, RunInv, NEW w \in Workers, Work(w)
  PROVE  RunInv'
  <1>0. /\ w \in Checkers /\ TypeOK /\ \A v \in Workers : v \in Checkers
        /\ \A v \in Workers : chk[v].pc \in Busy => chk[v].job \in JobIds
    BY DEF Checkers, IntakeInv, LocalsOK, LocalOK
  <1>1. CASE Boot(w)
    <2>1. \A v \in Workers \ {w} : chk[v].pc \notin Busy
      BY <1>0, <1>1, BootEffect DEF NoOverlap
    <2>2. Others(w) /\ chk'[w] = At("claim")
      BY <1>0, <1>1, BootEffect
    <2>3. chk'[w].pc = "claim" /\ chk'[w].job = None
      BY <2>2 DEF At
    <2>4. QED
      BY <1>0, <2>1, <2>2, <2>3, RunKept DEF Busy, Holding
  <1>2. CASE ClaimSelect(w)
    BY <1>0, <1>2, ClaimSelectEffect, RunKept DEF Busy, Holding
  <1>3. CASE ClaimUpdate(w)
    <2>1. CASE chk'[w] = At("claim") /\ jobs' = jobs
      BY <1>0, <1>3, <2>1, ClaimUpdateEffect, RunRests
    <2>2. CASE Claims(w, chk[w].job)
      <3> DEFINE j == chk[w].job
      <3>1. \A v \in Workers : ~WorksOn(chk[v], j)
        BY <2>2 DEF Claims, RunInv, HoldersRun, WorksOn
      <3>2. chk'[w].pc = "pull" /\ chk'[w].job = j /\ jobs'[j].state = "running"
        BY <2>2 DEF Claims, Start, At
      <3>3. \A v \in Workers \ {w} : chk[v].pc \in Busy => jobs'[chk[v].job] = jobs[chk[v].job]
        BY <1>0, <2>2, <3>1 DEF Claims, WorksOn
      <3>4. Others(w)
        BY <1>3, ClaimUpdateEffect
      <3> HIDE DEF j
      <3>5. QED
        BY <1>0, <3>1, <3>2, <3>3, <3>4, RunKept DEF Busy, Holding
    <2>3. QED
      BY <1>3, <2>1, <2>2, ClaimUpdateEffect
  <1>4. CASE FinishJob(w) \/ FailJob(w)
    <2>1. Others(w) /\ Settles(w, chk[w].job)
      BY <1>4, SettleEffect
    <2>2. chk[w].pc \in Busy /\ chk'[w].pc = "claim" /\ chk'[w].job = None
      BY <2>1 DEF Settles, At, Busy, Holding
    <2>3. \A v \in Workers \ {w} : chk[v].pc \in Busy => chk[v].job # chk[w].job
      BY <2>2 DEF RunInv, HoldersDiffer, WorksOn
    <2>4. \A v \in Workers \ {w} : chk[v].pc \in Busy => jobs'[chk[v].job] = jobs[chk[v].job]
      BY <1>0, <2>1, <2>3 DEF Settles
    <2>5. QED
      BY <1>0, <2>1, <2>2, <2>4, RunKept DEF Busy, Holding
  <1>5. CASE WorkerWriteFails(w)
    <2>1. Others(w) /\ jobs' = jobs
      BY <1>0, <1>5, WriteFailsEffect
    <2>2. CASE chk[w].pc = "finish" /\ chk'[w].pc = "fail" /\ SameCheck(w)
      BY <1>0, <2>1, <2>2, RunStays DEF SameCheck, Busy, Holding
    <2>3. QED
      BY <1>0, <1>5, <2>1, <2>2, WriteFailsEffect, RunRests
  <1>6. QED
    BY <1>1, <1>2, <1>3, <1>4, <1>5 DEF Work

LEMMA RunPostStep ==
  ASSUME IntakeInv, RunInv, NEW m \in Miners, NEW p \in Packages, CreateJob(m, p)
  PROVE  RunInv'
  <1>0. TypeOK /\ \A v \in Workers : chk[v].pc \in Busy => chk[v].job \in JobIds
    BY DEF Checkers, IntakeInv, LocalsOK, LocalOK
  <1>1. PICK j \in JobIds :
          /\ jobs[j].state = "absent"
          /\ \A k \in JobIds \ {j} : jobs'[k] = jobs[k]
          /\ chk' = chk
    BY <1>0, PostEffect
  <1>2. \A v \in Workers : chk[v].pc \in Busy => jobs'[chk[v].job] = jobs[chk[v].job]
    BY <1>0, <1>1 DEF RunInv, HoldersRun
  <1>3. QED
    BY <1>1, <1>2 DEF RunInv, HoldersRun, HoldersDiffer, RestersAreFree

LEMMA RunInductive ==
  ASSUME NoOverlap
  PROVE  Spec => []RunInv
  <1>1. Init => RunInv
    BY DEF Init, RunInv, HoldersRun, HoldersDiffer, RestersAreFree, WorksOn, At, Busy, Checkers
  <1>2. IntakeInv /\ RunInv /\ [Next]_vars => RunInv'
    <2> SUFFICES ASSUME IntakeInv, RunInv, [Next]_vars PROVE RunInv'
      OBVIOUS
    <2>0. TypeOK
      BY DEF IntakeInv
    <2>1. CASE UNCHANGED vars
      BY <2>1 DEF vars, RunInv, HoldersRun, HoldersDiffer, RestersAreFree
    <2>2. ASSUME NEW c \in Direct, NEW m \in Miners, NEW p \in Packages, NEW src \in Sources,
                 NEW skip \in Skips, Begin(c, m, p, src, skip)
          PROVE  RunInv'
      BY <2>0, <2>2, BeginEffect, RunKept
    <2>3. ASSUME NEW c \in Checkers, Crash(c) PROVE RunInv'
      <3>1. Others(c) /\ jobs' = jobs /\ chk'[c] = IF c \in Workers THEN At("down") ELSE At("idle")
        BY <2>0, <2>3, CrashEffect
      <3>2. QED
        BY <3>1, RunRests
    <2>4. QED
      BY <2>1, <2>2, <2>3, RunCheckStep, RunWorkStep, RunPostStep DEF Next
  <1>3. QED
    BY <1>1, <1>2, Inductive, PTL DEF Spec

\* Two workers never work on the same job, whoever dies and comes back and
\* whichever writes fail: the UPDATE of claim_next_job takes a job that is still
\* queued, and what a starting server puts back (requeue_running_jobs) no worker
\* is busy with, as long as starts do not overlap with work.
THEOREM WorkersShareNoJob == NoOverlap => (Spec => []JobHeldOnce)
  <1> SUFFICES ASSUME NoOverlap PROVE Spec => []JobHeldOnce
    OBVIOUS
  <1>1. RunInv => JobHeldOnce
    BY DEF RunInv, HoldersDiffer, RestersAreFree, JobHeldOnce, WorksOn
  <1>2. QED
    BY <1>1, RunInductive, PTL

\* A verdict is recorded only while its job is running: a job that is settled, or
\* back in the queue, has no worker left that could still add a row for it.
THEOREM VerdictsComeInTime == NoOverlap => (Spec => RowsComeInTime)
  <1> SUFFICES ASSUME NoOverlap PROVE Spec => RowsComeInTime
    OBVIOUS
  <1> DEFINE InTime == \A i \in DOMAIN submissions' \ DOMAIN submissions :
                         submissions'[i].job # None =>
                           jobs[submissions'[i].job].state = "running"
  <1>1. IntakeInv /\ JobsInv /\ RunInv /\ [Next]_vars => [InTime]_vars
    <2> SUFFICES ASSUME IntakeInv, JobsInv, RunInv, Next PROVE InTime
      OBVIOUS
    <2>0. TypeOK
      BY DEF IntakeInv
    <2>1. CASE submissions' = submissions
      BY <2>1
    <2>2. ASSUME NEW c \in Checkers, RecordVerdict(c) PROVE InTime
      <3> DEFINE n == Len(submissions)
                 j == chk[c].job
      <3>1. /\ chk[c].pc = "record" /\ HoldsOwn(c, chk[c], jobs)
        BY <2>2 DEF RecordVerdict, JobsInv, CheckersHoldOwn
      <3>2. /\ DOMAIN submissions = 1 .. n /\ DOMAIN submissions' = 1 .. (n + 1) /\ n \in Nat
            /\ submissions'[n + 1].job = j
        BY <2>2, <3>1, TableAppended DEF HoldsOwn, Holding
      <3>3. \A i \in DOMAIN submissions' \ DOMAIN submissions : i = n + 1
        BY <3>2
      <3>4. j # None => jobs[j].state = "running"
        BY <3>1 DEF HoldsOwn, Checkers, RunInv, HoldersRun, Busy
      <3> HIDE DEF n, j
      <3>5. QED
        BY <3>2, <3>3, <3>4
    <2>3. ASSUME NEW c \in Checkers, Check(c) PROVE InTime
      BY <2>1, <2>2, <2>3, CheckEffect DEF Proceeds, Returns, Cleans, Registers, FailsToRecord
    <2>4. ASSUME NEW w \in Workers, Work(w) PROVE submissions' = submissions
      BY <2>4 DEF Work, Boot, ClaimSelect, ClaimUpdate, FinishJob, FailJob, WorkerWriteFails
    <2> HIDE DEF InTime
    <2>5. QED
      BY <2>1, <2>3, <2>4 DEF Next, CreateJob, Begin, Crash
  <1>2. Spec => []RunInv
    BY RunInductive
  <1>3. QED
    BY <1>1, <1>2, Inductive, JobsInductive, PTL DEF Spec, RowsComeInTime

-----------------------------------------------------------------------------
(* How often a job is checked *)

\* A job that has a row was claimed.
RowsAreOfClaimedJobs ==
  \A i \in DOMAIN submissions : submissions[i].job # None =>
    jobs[submissions[i].job].state \notin {"absent", "queued"}

Unrecorded == Stages \cup {"cleanup", "record"}

\* A worker that has still to record its verdict finds no row of its job.
RecordsOnce ==
  \A w \in Workers : chk[w].pc \in Unrecorded =>
    \A i \in DOMAIN submissions : submissions[i].job # chk[w].job

OneRowPerJob ==
  \A i, j \in DOMAIN submissions :
    submissions[i].job # None /\ submissions[i].job = submissions[j].job => i = j

\* JobsAreCheckedOnce, strengthened to be inductive.
RecordInv == RowsAreOfClaimedJobs /\ RecordsOnce /\ OneRowPerJob

\* No worker lets go of a running job: no process dies, and with several workers
\* no write fails either, nor do starts overlap with work.
JobsAreKept ==
  /\ "crash" \notin Faults
  /\ Faults \cap {"db", "overlap"} = {} \/ \A v, w \in Workers : v = w

\* While a server has still to start, every running job is in a worker's hands, so
\* that the start finds nothing to put back.
RunningHeld ==
  (\E w \in Workers : chk[w].pc = "down") =>
    \A k \in JobIds : jobs[k].state = "running" => \E w \in Workers : WorksOn(chk[w], k)

\* One checker moves, and only the job it works on starts or stops running.
LEMMA HeldKept ==
  ASSUME RunningHeld, NEW c \in Checkers, Others(c),
         c \in Workers => chk'[c].pc # "down",
         \A k \in JobIds : jobs'[k].state = "running" =>
           \/ c \in Workers /\ WorksOn(chk'[c], k)
           \/ jobs[k].state = "running" /\ ~(c \in Workers /\ WorksOn(chk[c], k))
  PROVE  RunningHeld'
  <1>1. \A v \in Workers : v \in Checkers /\ (v # c => chk'[v] = chk[v])
    BY DEF Others, Checkers
  <1> SUFFICES ASSUME NEW d \in Workers, chk'[d].pc = "down",
                      NEW k \in JobIds, jobs'[k].state = "running"
               PROVE  \E w \in Workers : WorksOn(chk'[w], k)
    BY DEF RunningHeld, WorksOn
  <1>2. chk[d].pc = "down"
    BY <1>1
  <1>3. CASE jobs[k].state = "running" /\ ~(c \in Workers /\ WorksOn(chk[c], k))
    <2>1. PICK w \in Workers : WorksOn(chk[w], k)
      BY <1>2, <1>3 DEF RunningHeld
    <2>2. w # c
      BY <1>3, <2>1
    <2>3. QED
      BY <1>1, <2>1, <2>2
  <1>4. QED
    BY <1>3

\* No worker is down afterwards, when there is one and it is not.
LEMMA HeldAlone ==
  ASSUME NEW w \in Workers, \A v \in Workers : v = w, chk'[w].pc # "down"
  PROVE  RunningHeld'
  BY DEF RunningHeld

LEMMA HeldCheckStep ==
  ASSUME IntakeInv, RunningHeld, NEW c \in Checkers, Check(c)
  PROVE  RunningHeld'
  <1>1. /\ Others(c) /\ jobs' = jobs
        /\ \/ Proceeds(c) \/ Returns(c) \/ Cleans(c) \/ RecordVerdict(c)
           \/ Registers(c) \/ FailsToRecord(c)
    BY CheckEffect
  <1>2. c \in Workers => /\ chk[c].pc \in Busy /\ chk'[c].pc \in Busy
                         /\ chk'[c].job = chk[c].job
    <2>1. CASE Proceeds(c) \/ Returns(c) \/ Cleans(c) \/ Registers(c) \/ FailsToRecord(c)
      BY <2>1 DEF Proceeds, Returns, Cleans, Registers, FailsToRecord, SameCheck, Stages, Busy
    <2>2. CASE RecordVerdict(c)
      BY <2>2, RecordEffect DEF RecordVerdict, SameCheck, IntakeInv, Busy
    <2>3. QED
      BY <1>1, <2>1, <2>2
  <1>3. c \in Workers => chk'[c].pc # "down"
    BY <1>2 DEF Busy
  <1>4. QED
    BY <1>1, <1>2, <1>3, HeldKept DEF WorksOn

LEMMA HeldWorkStep ==
  ASSUME JobsAreKept, IntakeInv, RunningHeld, NEW w \in Workers, Work(w)
  PROVE  RunningHeld'
  <1>0. w \in Checkers /\ TypeOK
    BY DEF Checkers, IntakeInv
  <1>1. CASE Boot(w)
    <2>1. Others(w) /\ chk'[w].pc = "claim" /\ \A k \in JobIds : jobs'[k].state # "running"
      BY <1>0, <1>1, BootEffect DEF At
    <2>2. QED
      BY <1>0, <2>1, HeldKept
  <1>2. CASE ClaimSelect(w)
    <2>1. Others(w) /\ chk'[w].pc = "update" /\ jobs' = jobs /\ chk[w].pc = "claim"
      BY <1>0, <1>2, ClaimSelectEffect DEF ClaimSelect
    <2>2. QED
      BY <1>0, <2>1, HeldKept DEF WorksOn, Busy
  <1>3. CASE ClaimUpdate(w)
    <2>1. Others(w) /\ chk[w].pc = "update"
      BY <1>3, ClaimUpdateEffect
    <2>2. ~\E k \in JobIds : WorksOn(chk[w], k)
      BY <2>1 DEF WorksOn, Busy
    <2>3. CASE chk'[w] = At("claim") /\ jobs' = jobs
      BY <1>0, <2>1, <2>2, <2>3, HeldKept DEF At
    <2>4. CASE Claims(w, chk[w].job)
      <3>1. chk'[w].pc = "pull" /\ chk'[w].job = chk[w].job
        BY <2>4 DEF Claims, Start, At
      <3>2. \A k \in JobIds : k # chk[w].job => jobs'[k] = jobs[k]
        BY <2>4 DEF Claims
      <3>3. QED
        BY <1>0, <2>1, <2>2, <3>1, <3>2, HeldKept DEF WorksOn, Busy
    <2>5. QED
      BY <1>3, <2>3, <2>4, ClaimUpdateEffect
  <1>4. CASE FinishJob(w) \/ FailJob(w)
    <2>1. Others(w) /\ Settles(w, chk[w].job)
      BY <1>4, SettleEffect
    <2>2. /\ chk'[w].pc = "claim" /\ jobs'[chk[w].job].state # "running"
          /\ \A k \in JobIds : k # chk[w].job => jobs'[k] = jobs[k]
      BY <2>1 DEF Settles, At
    <2>3. QED
      BY <1>0, <2>1, <2>2, HeldKept DEF WorksOn
  <1>5. CASE WorkerWriteFails(w)
    <2>1. CASE chk[w].pc = "finish" /\ chk'[w].pc = "fail" /\ SameCheck(w)
      BY <1>0, <1>5, <2>1, WriteFailsEffect, HeldKept DEF SameCheck, WorksOn, Busy
    <2>2. CASE chk'[w] = At("dead") /\ "db" \in Faults
      <3>1. \A v \in Workers : v = w
        BY <2>2 DEF JobsAreKept
      <3>2. QED
        BY <2>2, <3>1, HeldAlone DEF At
    <2>3. QED
      BY <1>0, <1>5, <2>1, <2>2, WriteFailsEffect
  <1>6. QED
    BY <1>1, <1>2, <1>3, <1>4, <1>5 DEF Work

LEMMA HeldInductive ==
  ASSUME JobsAreKept
  PROVE  Spec => []RunningHeld
  <1>1. Init => RunningHeld
    BY DEF Init, RunningHeld, NoJob
  <1>2. IntakeInv /\ RunningHeld /\ [Next]_vars => RunningHeld'
    <2> SUFFICES ASSUME IntakeInv, RunningHeld, [Next]_vars PROVE RunningHeld'
      OBVIOUS
    <2>0. TypeOK
      BY DEF IntakeInv
    <2>1. CASE UNCHANGED vars
      BY <2>1 DEF vars, RunningHeld, WorksOn
    <2>2. ASSUME NEW m \in Miners, NEW p \in Packages, CreateJob(m, p) PROVE RunningHeld'
      <3>1. PICK j \in JobIds :
              /\ jobs'[j] = [state |-> "queued", miner |-> m, pkg |-> p, row |-> None]
              /\ \A k \in JobIds \ {j} : jobs'[k] = jobs[k]
              /\ chk' = chk
        BY <2>0, <2>2, PostEffect
      <3>2. \A k \in JobIds : jobs'[k].state = "running" => jobs[k].state = "running"
        BY <3>1
      <3>3. QED
        BY <3>1, <3>2 DEF RunningHeld, WorksOn
    <2>3. ASSUME NEW c \in Direct, NEW m \in Miners, NEW p \in Packages, NEW src \in Sources,
                 NEW skip \in Skips, Begin(c, m, p, src, skip)
          PROVE  RunningHeld'
      BY <2>0, <2>3, BeginEffect, HeldKept
    <2>4. ASSUME NEW c \in Checkers, Crash(c) PROVE RunningHeld'
      BY <2>4 DEF Crash, JobsAreKept
    <2>5. QED
      BY <2>1, <2>2, <2>3, <2>4, HeldCheckStep, HeldWorkStep DEF Next
  <1>3. QED
    BY <1>1, <1>2, Inductive, PTL DEF Spec

\* The rows stay, one checker moves, and no job that has a row is requeued.
LEMMA RecordKept ==
  ASSUME RecordInv, NEW c \in Checkers, Others(c), submissions' = submissions,
         \A i \in DOMAIN submissions : submissions[i].job # None =>
           jobs'[submissions[i].job].state \notin {"absent", "queued"},
         c \in Workers /\ chk'[c].pc \in Unrecorded =>
           \A i \in DOMAIN submissions : submissions[i].job # chk'[c].job
  PROVE  RecordInv'
  <1>1. \A v \in Workers : v \in Checkers /\ (v # c => chk'[v] = chk[v])
    BY DEF Others, Checkers
  <1>2. RecordsOnce'
    BY <1>1 DEF RecordInv, RecordsOnce, Unrecorded
  <1>3. RowsAreOfClaimedJobs' /\ OneRowPerJob'
    BY DEF RecordInv, RowsAreOfClaimedJobs, OneRowPerJob
  <1>4. QED
    BY <1>2, <1>3 DEF RecordInv

\* A checker that is past recording, or stays before it, disturbs nothing.
LEMMA RecordStays ==
  ASSUME RecordInv, NEW c \in Checkers, Others(c), submissions' = submissions, jobs' = jobs,
         chk'[c].pc \in Unrecorded => chk[c].pc \in Unrecorded /\ chk'[c].job = chk[c].job
  PROVE  RecordInv'
  BY RecordKept DEF RecordInv, RowsAreOfClaimedJobs, RecordsOnce, Unrecorded

\* The row of a job is recorded while its worker holds it.
LEMMA RecordRowStep ==
  ASSUME IntakeInv, JobsInv, RunInv, RecordInv, NEW c \in Checkers, RecordVerdict(c)
  PROVE  RecordInv'
  <1> DEFINE n == Len(submissions)
             j == chk[c].job
  <1>0. TypeOK /\ chk[c].pc = "record" /\ HoldsOwn(c, chk[c], jobs) /\ LocalOK(c, chk[c], submissions)
    BY DEF IntakeInv, RecordVerdict, JobsInv, CheckersHoldOwn, LocalsOK
  <1>1. /\ Others(c) /\ chk'[c].pc = "register" /\ jobs' = jobs
    BY <1>0, RecordEffect DEF RecordVerdict
  <1>2. /\ n \in Nat /\ DOMAIN submissions = 1 .. n /\ DOMAIN submissions' = 1 .. (n + 1)
        /\ \A i \in 1 .. n : submissions'[i] = submissions[i]
        /\ submissions'[n + 1].job = j
    BY <1>0, TableAppended DEF HoldsOwn, Holding
  <1>3. \A i \in 1 .. (n + 1) : i \in 1 .. n \/ i = n + 1
    BY <1>2
  <1>4. c \in Workers \/ j = None
    BY <1>0 DEF HoldsOwn, Checkers
  <1>5. c \in Workers => j \in JobIds /\ jobs[j].state = "running"
    BY <1>0 DEF RunInv, HoldersRun, LocalOK, Busy, Holding
  <1>6. c \in Workers => \A i \in 1 .. n : submissions[i].job # j
    BY <1>0, <1>2 DEF RecordInv, RecordsOnce, Unrecorded
  <1> HIDE DEF n, j
  <1>7. RowsAreOfClaimedJobs'
    BY <1>1, <1>2, <1>3, <1>4, <1>5 DEF RecordInv, RowsAreOfClaimedJobs
  <1>8. OneRowPerJob'
    BY <1>2, <1>3, <1>4, <1>6 DEF RecordInv, OneRowPerJob
  <1>9. RecordsOnce'
    <2> SUFFICES ASSUME NEW v \in Workers, chk'[v].pc \in Unrecorded
                 PROVE  \A i \in 1 .. (n + 1) : submissions'[i].job # chk'[v].job
      BY <1>2 DEF RecordsOnce, Unrecorded
    <2>1. v # c /\ chk'[v] = chk[v]
      BY <1>1 DEF Others, Checkers, Unrecorded, Stages
    <2>2. \A i \in 1 .. n : submissions[i].job # chk[v].job
      BY <1>2, <2>1 DEF RecordInv, RecordsOnce, Unrecorded
    <2>3. chk[v].pc \in Busy /\ chk[v].job \in JobIds /\ chk[v].job # None
      BY <2>1, SubmissionNoneAssumption
      DEF Unrecorded, Stages, Busy, Holding, IntakeInv, LocalsOK, LocalOK, Checkers, JobIds
    <2>4. chk[v].job # j
      BY <1>0, <1>4, <2>1, <2>3 DEF RunInv, HoldersDiffer, WorksOn, Busy, Holding, j
    <2>5. QED
      BY <1>2, <1>3, <2>1, <2>2, <2>4
  <1>10. QED
    BY <1>7, <1>8, <1>9 DEF RecordInv

LEMMA RecordCheckStep ==
  ASSUME IntakeInv, JobsInv, RunInv, RecordInv, NEW c \in Checkers, Check(c)
  PROVE  RecordInv'
  <1>1. /\ Others(c) /\ jobs' = jobs
        /\ \/ Proceeds(c) \/ Returns(c) \/ Cleans(c) \/ RecordVerdict(c)
           \/ Registers(c) \/ FailsToRecord(c)
    BY CheckEffect
  <1>2. CASE Proceeds(c) \/ Returns(c) \/ Cleans(c) \/ Registers(c) \/ FailsToRecord(c)
    <2>1. /\ submissions' = submissions
          /\ chk'[c].pc \in Unrecorded => chk[c].pc \in Unrecorded /\ chk'[c].job = chk[c].job
      BY <1>2 DEF Proceeds, Returns, Cleans, Registers, FailsToRecord, SameCheck, Stages,
                  Unrecorded, At
    <2>2. QED
      BY <1>1, <2>1, RecordStays
  <1>3. QED
    BY <1>1, <1>2, RecordRowStep

LEMMA RecordWorkStep ==
  ASSUME NoOverlap, RunningHeld, IntakeInv, JobsInv, RecordInv, NEW w \in Workers, Work(w)
  PROVE  RecordInv'
  <1>0. w \in Checkers /\ TypeOK
    BY DEF Checkers, IntakeInv
  <1>1. CASE Boot(w)
    <2>1. /\ Others(w) /\ chk[w].pc = "down" /\ chk'[w].pc = "claim" /\ submissions' = submissions
          /\ \A v \in Workers \ {w} : chk[v].pc \notin Busy
      BY <1>0, <1>1, BootEffect DEF NoOverlap, At
    <2>2. \A k \in JobIds : jobs[k].state # "running"
      BY <2>1 DEF RunningHeld, WorksOn, Busy
    <2>3. \A k \in JobIds : jobs'[k].state = jobs[k].state
      BY <1>0, <1>1, <2>2, BootEffect
    <2>4. \A i \in DOMAIN submissions : submissions[i].job # None =>
            jobs'[submissions[i].job].state \notin {"absent", "queued"}
      <3> TAKE i \in DOMAIN submissions
      <3>1. submissions[i].job \in JobIds \cup {None}
        BY <1>0, Table DEF Verdicts
      <3>2. QED
        BY <2>3, <3>1 DEF RecordInv, RowsAreOfClaimedJobs
    <2>5. QED
      BY <1>0, <2>1, <2>4, RecordKept DEF Unrecorded, Stages
  <1>2. CASE ClaimSelect(w)
    BY <1>0, <1>2, ClaimSelectEffect, RecordStays DEF Unrecorded, Stages
  <1>3. CASE ClaimUpdate(w)
    <2>1. CASE chk'[w] = At("claim") /\ jobs' = jobs
      BY <1>0, <1>3, <2>1, ClaimUpdateEffect, RecordStays DEF Unrecorded, Stages, At
    <2>2. CASE Claims(w, chk[w].job)
      <3> DEFINE j == chk[w].job
      <3>1. \A i \in DOMAIN submissions : submissions[i].job # j
        BY <1>0, <2>2, SubmissionNoneAssumption
        DEF Claims, RecordInv, RowsAreOfClaimedJobs, JobIds
      <3>2. chk'[w].pc = "pull" /\ chk'[w].job = j /\ jobs'[j].state = "running"
        BY <2>2 DEF Claims, Start, At
      <3>3. \A i \in DOMAIN submissions : submissions[i].job # None =>
              jobs'[submissions[i].job].state = jobs[submissions[i].job].state
        <4> TAKE i \in DOMAIN submissions
        <4>1. submissions[i].job \in JobIds \cup {None}
          BY <1>0, Table DEF Verdicts
        <4>2. QED
          BY <2>2, <3>1, <4>1 DEF Claims
      <3>4. Others(w) /\ submissions' = submissions
        BY <1>3, ClaimUpdateEffect
      <3> HIDE DEF j
      <3>5. QED
        BY <1>0, <3>1, <3>2, <3>3, <3>4, RecordKept DEF RecordInv, RowsAreOfClaimedJobs
    <2>3. QED
      BY <1>3, <2>1, <2>2, ClaimUpdateEffect
  <1>4. CASE FinishJob(w) \/ FailJob(w)
    <2>1. Others(w) /\ submissions' = submissions /\ Settles(w, chk[w].job)
      BY <1>4, SettleEffect
    <2>2. chk'[w].pc = "claim"
      BY <2>1 DEF Settles, At
    <2>3. \A i \in DOMAIN submissions : submissions[i].job # None =>
            jobs'[submissions[i].job].state \notin {"absent", "queued"}
      <3> TAKE i \in DOMAIN submissions
      <3>1. submissions[i].job \in JobIds \cup {None}
        BY <1>0, Table DEF Verdicts
      <3>2. QED
        BY <2>1, <3>1 DEF Settles, RecordInv, RowsAreOfClaimedJobs
    <2>4. QED
      BY <1>0, <2>1, <2>2, <2>3, RecordKept DEF Unrecorded, Stages
  <1>5. CASE WorkerWriteFails(w)
    BY <1>0, <1>5, WriteFailsEffect, RecordStays DEF Unrecorded, Stages, At
  <1>6. QED
    BY <1>1, <1>2, <1>3, <1>4, <1>5 DEF Work

LEMMA RecordPostStep ==
  ASSUME IntakeInv, RecordInv, NEW m \in Miners, NEW p \in Packages, CreateJob(m, p)
  PROVE  RecordInv'
  <1>0. TypeOK
    BY DEF IntakeInv
  <1>1. PICK j \in JobIds :
          /\ jobs[j].state = "absent"
          /\ \A k \in JobIds \ {j} : jobs'[k] = jobs[k]
          /\ UNCHANGED <<submissions, chk>>
    BY <1>0, PostEffect
  <1>2. \A i \in DOMAIN submissions : submissions[i].job # None =>
          jobs'[submissions[i].job] = jobs[submissions[i].job]
    <2> TAKE i \in DOMAIN submissions
    <2>1. submissions[i].job \in JobIds \cup {None}
      BY <1>0, Table DEF Verdicts
    <2>2. QED
      BY <1>1, <2>1 DEF RecordInv, RowsAreOfClaimedJobs
  <1>3. QED
    BY <1>1, <1>2 DEF RecordInv, RowsAreOfClaimedJobs, RecordsOnce, OneRowPerJob

LEMMA RecordInductive ==
  ASSUME JobsAreKept
  PROVE  Spec => []RecordInv
  <1>0. NoOverlap
    BY DEF NoOverlap, JobsAreKept
  <1>1. Init => RecordInv
    BY DEF Init, RecordInv, RowsAreOfClaimedJobs, RecordsOnce, OneRowPerJob
  <1>2. IntakeInv /\ JobsInv /\ RunInv /\ RunningHeld /\ RecordInv /\ [Next]_vars => RecordInv'
    <2> SUFFICES ASSUME IntakeInv, JobsInv, RunInv, RunningHeld, RecordInv, [Next]_vars
                 PROVE  RecordInv'
      OBVIOUS
    <2>0. TypeOK
      BY DEF IntakeInv
    <2>1. CASE UNCHANGED vars
      BY <2>1 DEF vars, RecordInv, RowsAreOfClaimedJobs, RecordsOnce, OneRowPerJob
    <2>2. ASSUME NEW c \in Direct, NEW m \in Miners, NEW p \in Packages, NEW src \in Sources,
                 NEW skip \in Skips, Begin(c, m, p, src, skip)
          PROVE  RecordInv'
      BY <2>0, <2>2, BeginEffect, RecordKept DEF RecordInv, RowsAreOfClaimedJobs
    <2>3. ASSUME NEW c \in Checkers, Crash(c) PROVE RecordInv'
      BY <2>3 DEF Crash, JobsAreKept
    <2>4. QED
      BY <1>0, <2>1, <2>2, <2>3, RecordCheckStep, RecordWorkStep, RecordPostStep DEF Next
  <1>3. Spec => []RunInv /\ []RunningHeld
    BY <1>0, RunInductive, HeldInductive
  <1>4. QED
    BY <1>1, <1>2, <1>3, Inductive, JobsInductive, PTL DEF Spec

\* No job is checked twice as long as no worker lets go of a running one: a worker
\* records one verdict for the job it claimed, and a server that starts finds
\* nothing to put back.  With one server that is so unless it dies: a failed write
\* settles the job instead of sending it back.  With several, a worker thread that
\* a failed write ended leaves its job to the next server's start, and a start
\* beside a busy worker takes the job from under it (requeue_running_jobs).
THEOREM JobsCheckedOnce == JobsAreKept => (Spec => []JobsAreCheckedOnce)
  <1> SUFFICES ASSUME JobsAreKept PROVE Spec => []JobsAreCheckedOnce
    OBVIOUS
  <1>1. RecordInv => JobsAreCheckedOnce
    BY DEF RecordInv, OneRowPerJob, JobsAreCheckedOnce
  <1>2. QED
    BY <1>1, RecordInductive, PTL

-----------------------------------------------------------------------------
(* The refinement *)

\* What the ledger shows of the tables: an entry per row, an owner per agent, a
\* card per job.
Entry(v) ==
  [miner |-> v.miner, pkg |-> v.pkg, agent |-> v.agent, accepted |-> v.status = "accepted"]

Log == [i \in DOMAIN submissions |-> Entry(submissions[i])]

Owners == [a \in Agents |-> IF agents[a] = None THEN None ELSE submissions[agents[a]].miner]

Card(r) ==
  [state |-> IF r.state \in {"queued", "running"} THEN "pending" ELSE r.state, by |-> r.row]

Board == [j \in JobIds |-> Card(jobs[j])]

LEMMA LedgerStutters ==
  ASSUME UNCHANGED <<Log, Owners, Board>>
  PROVE  [Ledger!Next]_(Ledger!vars)
  <1>1. UNCHANGED Ledger!vars
    BY DEF Ledger!vars, Log, Owners, Board, Entry, Card, Accepted
  <1>2. QED
    BY <1>1

LEMMA LedgerStarts ==
  /\ Log = << >> /\ Owners = [a \in Agents |-> None]
  /\ Board = [j \in JobIds |-> [state |-> "absent", by |-> None]]
  => Ledger!Init
  BY DEF Ledger!Init, Log, Owners, Board, Entry, Card, Accepted

LEMMA LedgerSteps ==
  /\ Ledger!Attempt <=> /\ \E t \in Ledger!Attempts : Log' = Append(Log, t)
                        /\ UNCHANGED <<Owners, Board>>
  /\ Ledger!Own <=> /\ \E a \in Agents, i \in DOMAIN Log :
                         /\ Owners[a] = None
                         /\ Log[i].accepted /\ Log[i].agent = a
                         /\ Owners' = [Owners EXCEPT ![a] = Log[i].miner]
                    /\ UNCHANGED <<Log, Board>>
  /\ Ledger!Post <=> /\ \E j \in JobIds : /\ Board[j].state = "absent"
                                          /\ Board' = [Board EXCEPT ![j].state = "pending"]
                     /\ UNCHANGED <<Log, Owners>>
  /\ Ledger!Settle <=> /\ \E j \in JobIds, i \in (DOMAIN Log) \cup {None} :
                            /\ Board[j].state = "pending"
                            /\ \A k \in JobIds : i # None => Board[k].by # i
                            /\ Board' = [Board EXCEPT ![j] =
                                 [state |-> IF i = None THEN "failed" ELSE "done", by |-> i]]
                       /\ UNCHANGED <<Log, Owners>>
  BY DEF Ledger!Attempt, Ledger!Own, Ledger!Post, Ledger!Settle, Log, Owners, Board, Entry, Card,
         Accepted

\* A row that is appended is an entry that is logged.
LEMMA LogGrows ==
  ASSUME NEW s \in Seq(Verdicts), NEW v \in Verdicts, NEW t, t = Append(s, v)
  PROVE  [i \in DOMAIN t |-> Entry(t[i])] = Append([i \in DOMAIN s |-> Entry(s[i])], Entry(v))
  OBVIOUS

\* The log and the owners stay with the rows and the agents.
LEMMA ViewKept ==
  ASSUME UNCHANGED <<submissions, agents>>
  PROVE  UNCHANGED <<Log, Owners>>
  BY DEF Log, Owners

\* The board does not tell a queued job from a running one.
LEMMA BoardKept ==
  ASSUME \A j \in JobIds : Card(jobs'[j]) = Card(jobs[j])
  PROVE  Board' = Board
  BY DEF Board

\* A job that is posted or settled gets another card.
LEMMA BoardChanges ==
  ASSUME NEW j \in JobIds, \A k \in JobIds \ {j} : jobs'[k] = jobs[k]
  PROVE  Board' = [Board EXCEPT ![j] = Card(jobs'[j])]
  BY DEF Board

LEMMA LedgerCheckStep ==
  ASSUME IntakeInv, NEW c \in Checkers, Check(c)
  PROVE  [Ledger!Next]_(Ledger!vars)
  <1>0. TypeOK
    BY DEF IntakeInv
  <1>1. /\ jobs' = jobs
        /\ \/ Proceeds(c) \/ Returns(c) \/ Cleans(c) \/ RecordVerdict(c)
           \/ Registers(c) \/ FailsToRecord(c)
    BY CheckEffect
  <1>2. Board' = Board
    BY <1>1, BoardKept
  <1>3. CASE Proceeds(c) \/ Returns(c) \/ Cleans(c) \/ FailsToRecord(c)
    <2>1. UNCHANGED <<submissions, agents>>
      BY <1>3 DEF Proceeds, Returns, Cleans, FailsToRecord
    <2>2. QED
      BY <1>2, <2>1, ViewKept, LedgerStutters
  <1>4. CASE RecordVerdict(c)
    <2> DEFINE v == chk[c].verdict
    <2>1. v \in Verdicts /\ submissions \in Seq(Verdicts)
      BY <1>4 DEF RecordVerdict, IntakeInv, TypeOK, LocalsOK, LocalOK, Holding
    <2>2. submissions' = Append(submissions, v) /\ agents' = agents
      BY <1>4 DEF RecordVerdict
    <2>3. Log' = Append(Log, Entry(v))
      BY <2>1, <2>2, LogGrows DEF Log
    <2>4. Entry(v) \in Ledger!Attempts
      BY <2>1 DEF Entry, Ledger!Attempts, Verdicts
    <2>5. \A a \in Agents : agents[a] # None => submissions'[agents[a]] = submissions[agents[a]]
      BY <1>0, <1>4, TableAppended DEF TypeOK
    <2>6. Owners' = Owners
      BY <2>2, <2>5 DEF Owners
    <2> HIDE DEF v
    <2>7. Ledger!Attempt
      BY <1>2, <2>3, <2>4, <2>6, LedgerSteps
    <2>8. QED
      BY <2>7 DEF Ledger!Next
  <1>5. CASE Registers(c)
    <2> DEFINE v == chk[c].verdict
               i == chk[c].row
    <2>1. /\ chk[c].pc = "register" /\ agents' = Registered(v, i) /\ submissions' = submissions
      BY <1>5 DEF Registers
    <2>2. v \in Verdicts /\ i \in DOMAIN submissions /\ submissions[i] = v
      BY <1>0, <2>1, Table DEF IntakeInv, LocalsOK, LocalOK, Holding
    <2> HIDE DEF v, i
    <2>3. CASE agents' = agents
      BY <1>2, <2>1, <2>3, ViewKept, LedgerStutters
    <2>4. CASE /\ v.status = "accepted" /\ v.agent # None /\ agents[v.agent] = None
               /\ agents' = [agents EXCEPT ![v.agent] = i]
      <3>1. v.agent \in Agents /\ Owners[v.agent] = None
        BY <2>2, <2>4 DEF Verdicts, Owners
      <3>2. i \in DOMAIN Log /\ Log[i].accepted /\ Log[i].agent = v.agent /\ Log[i].miner = v.miner
        BY <2>2, <2>4 DEF Log, Entry
      <3>3. i # None
        BY <1>0, <2>2, Table, SubmissionNoneAssumption
      <3>4. Owners' = [Owners EXCEPT ![v.agent] = v.miner]
        BY <1>0, <2>1, <2>2, <2>4, <3>1, <3>3 DEF Owners, TypeOK
      <3>5. Log' = Log
        BY <2>1 DEF Log
      <3>6. Ledger!Own
        BY <1>2, <3>1, <3>2, <3>4, <3>5, LedgerSteps
      <3>7. QED
        BY <3>6 DEF Ledger!Next
    <2>5. QED
      BY <2>1, <2>3, <2>4 DEF Registered
  <1>6. QED
    BY <1>1, <1>3, <1>4, <1>5

\* A worker that holds a job settles it with a row no other job has.
LEMMA LedgerSettleStep ==
  ASSUME IntakeInv, JobsInv, RunInv, NEW w \in Workers, FinishJob(w) \/ FailJob(w)
  PROVE  Ledger!Settle
  <1> DEFINE j == chk[w].job
             i == IF chk[w].pc = "finish" THEN chk[w].row ELSE None
  <1>0. /\ TypeOK /\ w \in Checkers /\ LocalOK(w, chk[w], submissions)
        /\ HoldsOwn(w, chk[w], jobs)
    BY DEF IntakeInv, LocalsOK, Checkers, JobsInv, CheckersHoldOwn
  <1>1. UNCHANGED <<submissions, agents>> /\ Settles(w, j)
    BY SettleEffect
  <1>2. j \in JobIds /\ chk[w].pc \in {"finish", "fail"} /\ jobs[j].state = "running"
    BY <1>1 DEF Settles, RunInv, HoldersRun, Busy, Holding
  <1>3. Board[j].state = "pending"
    BY <1>2 DEF Board, Card
  <1>4. chk[w].pc = "finish" =>
          chk[w].row \in DOMAIN submissions /\ submissions[chk[w].row].job = j
    BY <1>0, Table DEF LocalOK, HoldsOwn, Holding
  <1>5. i \in (DOMAIN Log) \cup {None}
    BY <1>4 DEF Log
  <1>6. ASSUME i # None, NEW k \in JobIds PROVE Board[k].by # i
    <2>1. chk[w].pc = "finish" /\ i = chk[w].row
      BY <1>6
    <2>2. CASE jobs[k].state = "done"
      BY <1>2, <1>4, <2>1, <2>2 DEF JobsInv, DoneJobsHaveTheirVerdict, InState, Board, Card
    <2>3. CASE jobs[k].state # "done"
      BY <1>6, <2>3 DEF JobsInv, OnlyDoneHaveRows, Board, Card
    <2>4. QED
      BY <2>2, <2>3
  <1>7. chk[w].pc = "finish" => chk[w].row # None
    BY <1>0, <1>4, Table, SubmissionNoneAssumption
  <1>8. Card(jobs'[j]) = [state |-> IF i = None THEN "failed" ELSE "done", by |-> i]
    BY <1>1, <1>2, <1>7 DEF Settles, Card
  <1>9. \A k \in JobIds \ {j} : jobs'[k] = jobs[k]
    BY <1>1 DEF Settles
  <1> HIDE DEF i, j
  <1>10. Board' = [Board EXCEPT ![j] = [state |-> IF i = None THEN "failed" ELSE "done", by |-> i]]
    BY <1>2, <1>8, <1>9, BoardChanges
  <1>11. QED
    BY <1>1, <1>2, <1>3, <1>5, <1>6, <1>10, ViewKept, LedgerSteps

LEMMA LedgerWorkStep ==
  ASSUME IntakeInv, JobsInv, RunInv, NEW w \in Workers, Work(w)
  PROVE  [Ledger!Next]_(Ledger!vars)
  <1>0. TypeOK
    BY DEF IntakeInv
  <1>1. ASSUME UNCHANGED <<submissions, agents>>,
               \A k \in JobIds : Card(jobs'[k]) = Card(jobs[k])
        PROVE  [Ledger!Next]_(Ledger!vars)
    BY <1>1, ViewKept, BoardKept, LedgerStutters
  <1>2. CASE Boot(w)
    BY <1>0, <1>1, <1>2, BootEffect DEF Card
  <1>3. CASE ClaimSelect(w)
    BY <1>0, <1>1, <1>3, ClaimSelectEffect
  <1>4. CASE ClaimUpdate(w)
    <2>1. UNCHANGED <<submissions, agents>> /\ (Claims(w, chk[w].job) \/ jobs' = jobs)
      BY <1>4, ClaimUpdateEffect
    <2>2. \A k \in JobIds : Card(jobs'[k]) = Card(jobs[k])
      BY <2>1 DEF Claims, Card
    <2>3. QED
      BY <1>1, <2>1, <2>2
  <1>5. CASE FinishJob(w) \/ FailJob(w)
    BY <1>5, LedgerSettleStep DEF Ledger!Next
  <1>6. CASE WorkerWriteFails(w)
    BY <1>0, <1>1, <1>6, WriteFailsEffect
  <1>7. QED
    BY <1>2, <1>3, <1>4, <1>5, <1>6 DEF Work

LEMMA LedgerPostStep ==
  ASSUME IntakeInv, JobsInv, NEW m \in Miners, NEW p \in Packages, CreateJob(m, p)
  PROVE  Ledger!Post
  <1>1. PICK j \in JobIds :
          /\ jobs[j].state = "absent"
          /\ jobs'[j] = [state |-> "queued", miner |-> m, pkg |-> p, row |-> None]
          /\ \A k \in JobIds \ {j} : jobs'[k] = jobs[k]
          /\ UNCHANGED <<submissions, agents, chk>>
    BY PostEffect DEF IntakeInv
  <1>2. Board[j] = [state |-> "absent", by |-> None]
    BY <1>1 DEF Board, Card, JobsInv, OnlyDoneHaveRows
  <1>3. Board' = [Board EXCEPT ![j] = [state |-> "pending", by |-> None]]
    BY <1>1, BoardChanges DEF Card
  <1>4. Board' = [Board EXCEPT ![j].state = "pending"]
    <2>1. [Board[j] EXCEPT !.state = "pending"] = [state |-> "pending", by |-> None]
      BY <1>2
    <2>2. QED
      BY <1>3, <2>1
  <1>5. UNCHANGED <<Log, Owners>>
    BY <1>1, ViewKept
  <1>6. \E k \in JobIds : Board[k].state = "absent" /\ Board' = [Board EXCEPT ![k].state = "pending"]
    <2>1. Board[j].state = "absent"
      BY <1>2
    <2>2. QED
      BY <1>4, <2>1, Zenon
  <1>7. QED
    BY <1>5, <1>6, LedgerSteps, Zenon

\* The service is an append-only log with one owner per agent, who keeps it, and a
\* board whose jobs are settled once: record_submission logs, register_agent gives
\* an agent without an owner away, and of all the steps of the queue only
\* finish_job settles a job, with a row no other job has: servers may start, die
\* and come back, as long as no start overlaps with work.
THEOREM ServiceImplementsLedger == NoOverlap => (Spec => ImplementsLedger)
  <1> SUFFICES ASSUME NoOverlap PROVE Spec => ImplementsLedger
    OBVIOUS
  <1>1. Init => Ledger!Init
    BY LedgerStarts DEF Init, Log, Owners, Board, Card, NoJob
  <1>2. IntakeInv /\ JobsInv /\ RunInv /\ [Next]_vars => [Ledger!Next]_(Ledger!vars)
    <2> SUFFICES ASSUME IntakeInv, JobsInv, RunInv, [Next]_vars
                 PROVE  [Ledger!Next]_(Ledger!vars)
      OBVIOUS
    <2>0. TypeOK
      BY DEF IntakeInv
    <2>1. ASSUME UNCHANGED <<submissions, agents, jobs>> PROVE [Ledger!Next]_(Ledger!vars)
      BY <2>1, ViewKept, BoardKept, LedgerStutters
    <2>2. CASE UNCHANGED vars
      BY <2>1, <2>2 DEF vars
    <2>3. ASSUME NEW c \in Direct, NEW m \in Miners, NEW p \in Packages, NEW src \in Sources,
                 NEW skip \in Skips, Begin(c, m, p, src, skip)
          PROVE  [Ledger!Next]_(Ledger!vars)
      BY <2>0, <2>1, <2>3, BeginEffect
    <2>4. ASSUME NEW c \in Checkers, Crash(c) PROVE [Ledger!Next]_(Ledger!vars)
      BY <2>0, <2>1, <2>4, CrashEffect
    <2>5. ASSUME NEW m \in Miners, NEW p \in Packages, CreateJob(m, p)
          PROVE  [Ledger!Next]_(Ledger!vars)
      BY <2>5, LedgerPostStep DEF Ledger!Next
    <2>6. QED
      BY <2>2, <2>3, <2>4, <2>5, LedgerCheckStep, LedgerWorkStep DEF Next
  <1>3. Spec => []RunInv
    BY RunInductive
  <1>4. QED
    BY <1>1, <1>2, <1>3, Inductive, JobsInductive, PTL DEF Spec, ImplementsLedger, Ledger!Spec

=============================================================================
