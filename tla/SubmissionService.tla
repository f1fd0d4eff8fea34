------------------------- MODULE SubmissionService -------------------------
(***************************************************************************)
(* Intake of agent images (secqurityVali): pipeline.py runs the stages     *)
(* over one submission, db.py records the verdict and registers the agent  *)
(* with its owner, api.py queues jobs for a worker thread.  The worker,    *)
(* the command line and the security validator's evaluation thread are all *)
(* "checkers": they run check_and_record over one SQLite file and one      *)
(* Docker daemon, and their steps interleave.  A checker's process may die *)
(* between any two steps, and servers are started one by one: each start   *)
(* puts every running job back in the queue.                               *)
(*                                                                         *)
(* Data abstraction.  A package is what is submitted: a tarball's exact    *)
(* bytes, or a registry reference; AgentOf gives its agent digest (None    *)
(* when Docker reports no layers) and Flaw the first stage, if any, whose  *)
(* gate it fails.  An image is present in the daemon under its package.    *)
(* The columns of a submissions row that no decision reads are left out.   *)
(***************************************************************************)
EXTENDS Naturals, Sequences, FiniteSets

CONSTANTS
  Miners,      \* miner ids
  Packages,    \* what they submit
  Agents,      \* agent digests
  AgentOf,     \* [Packages -> Agents \cup {None}]
  Flaw,        \* [Packages -> Flaws]
  Workers,     \* API servers, each with its worker thread
  Direct,      \* checkers outside the API: command line, security validator
  Sources,     \* front doors the direct checkers use
  Skips,       \* values of skip_dry_run the direct checkers use
  Faults,      \* failures the environment may inject
  None,        \* Python's None
  MaxRows,     \* bound: rows of the submissions table
  MaxJobs      \* bound: rows of the jobs table

Checkers == Workers \cup Direct

Flaws == {"none", "file", "structure", "inspect", "run"}

\* "stage": the daemon is unreachable or a stage raises; "call": a call to Docker
\* or to a registry fails in another way; "digest": a loaded or pulled image cannot
\* be named; "rm": docker image rm fails; "db": a write raises; "crash": a process
\* dies; "overlap": a server is started while another one's worker has a job.
FaultKinds == {"stage", "call", "digest", "rm", "db", "crash", "overlap"}

ASSUME SubmissionAssumption ==
  /\ AgentOf \in [Packages -> Agents \cup {None}]
  /\ Flaw \in [Packages -> Flaws]
  /\ Workers \cap Direct = {}
  /\ Sources \subseteq {"file", "registry"}
  /\ Skips \subseteq BOOLEAN
  /\ Faults \subseteq FaultKinds

ASSUME SubmissionNoneAssumption ==
  None \notin Nat \cup Miners \cup Packages \cup Agents

ASSUME SubmissionBoundAssumption == MaxRows \in Nat /\ MaxJobs \in Nat

VARIABLES
  submissions,  \* the submissions table: a sequence, row i has id i
  agents,       \* the agents table: digest -> first_submission, or None
  jobs,         \* the jobs table
  images,       \* Docker: packages whose image is loaded
  chk           \* each checker's program counter and locals

vars == <<submissions, agents, jobs, images, chk>>

-----------------------------------------------------------------------------
(* Tables and locals *)

RowIds == 1 .. MaxRows
JobIds == 1 .. MaxJobs

\* hash: file_sha256; why: "image" for a judgement of the image, "fault" for
\* the reasons in VALIDATOR_FAULT_REASONS.  job is not a column: it is the job
\* the row was recorded for.
Verdicts ==
  [miner : Miners, pkg : Packages, src : {"file", "registry"},
   hash : Packages \cup {None}, agent : Agents \cup {None},
   status : {"accepted", "rejected"}, why : {"none", "image", "duplicate", "fault"},
   origin : RowIds \cup {None}, cached : BOOLEAN, job : JobIds \cup {None}]

JobRecords ==
  [state : {"absent", "queued", "running", "done", "failed"},
   miner : Miners \cup {None}, pkg : Packages \cup {None}, row : RowIds \cup {None}]

NoJob == [state |-> "absent", miner |-> None, pkg |-> None, row |-> None]

Locals ==
  [pc : {"idle", "down", "dead", "claim", "update", "file", "load", "pull", "inspect",
         "dry_run", "cleanup", "record", "register", "finish", "fail"},
   job : JobIds \cup {None}, miner : Miners \cup {None}, pkg : Packages \cup {None},
   src : {"file", "registry"}, skip : BOOLEAN, loaded : BOOLEAN,
   verdict : Verdicts \cup {None}, row : RowIds \cup {None}]

At(pc) == [pc |-> pc, job |-> None, miner |-> None, pkg |-> None, src |-> "file",
           skip |-> FALSE, loaded |-> FALSE, verdict |-> None, row |-> None]

\* Where a checker waits for its next submission.
Rest(c) == IF c \in Workers THEN At("claim") ELSE At("idle")

\* A check of package p for miner m begins.
Start(j, m, p, src, skip) ==
  [At(IF src = "file" THEN "file" ELSE "pull")
     EXCEPT !.job = j, !.miner = m, !.pkg = p, !.src = src, !.skip = skip]

Goto(c, pc) == chk' = [chk EXCEPT ![c].pc = pc]

-----------------------------------------------------------------------------
(* Verdicts *)

\* The evidence every verdict carries once FILE (the hash) and INSPECT (the
\* digest) have passed.
Verdict(c, hash, agent, status, why, origin, cached) ==
  [miner |-> chk[c].miner, pkg |-> chk[c].pkg, src |-> chk[c].src, hash |-> hash,
   agent |-> agent, status |-> status, why |-> why, origin |-> origin,
   cached |-> cached, job |-> chk[c].job]

MeasuredHash(c) == IF chk[c].src = "file" THEN chk[c].pkg ELSE None

Accept(c) ==
  Verdict(c, MeasuredHash(c), AgentOf[chk[c].pkg], "accepted", "none", None, FALSE)

Reject(c, hash, agent, why) == Verdict(c, hash, agent, "rejected", why, None, FALSE)

\* Someone else got here first, with row i.
Duplicate(c, agent, i) ==
  Verdict(c, MeasuredHash(c), agent, "rejected", "duplicate", i, FALSE)

\* Replay the verdict of row i; what was measured now overrides its evidence.
Replay(c, agent, i) ==
  LET old == submissions[i]
      pick(new, was) == IF new # None THEN new ELSE was
  IN Verdict(c, pick(MeasuredHash(c), old.hash), pick(agent, old.agent),
             old.status, old.why, i, TRUE)

\* The pipeline returns v; an image it loaded is removed first.
Return(c, v) ==
  chk' = [chk EXCEPT ![c].verdict = v,
                     ![c].pc = IF chk[c].loaded THEN "cleanup" ELSE "record"]

-----------------------------------------------------------------------------
(* The stages *)

Latest(I) == CHOOSE i \in I : \A j \in I : j <= i

\* Mutant: our own failures are replayed too.
CheckedWithFaults(p) ==
  {i \in DOMAIN submissions : submissions[i].hash = p /\ ~submissions[i].cached}

\* Rows on these bytes that may be replayed: checked, and not our own failure.
Checked(p) ==
  {i \in DOMAIN submissions : /\ submissions[i].hash = p
                              /\ ~submissions[i].cached
                              /\ submissions[i].why # "fault"}

\* Mutant: any earlier row on the bytes makes them someone else's.
FileLookupOfAnyStatus(c, seen) ==
  Return(c, IF submissions[seen].miner = chk[c].miner
            THEN Replay(c, None, seen) ELSE Duplicate(c, None, seen))

\* What the newest checked row on the same bytes decides.
FileLookup(c, seen) ==
  IF submissions[seen].miner = chk[c].miner THEN Return(c, Replay(c, None, seen))
  ELSE IF submissions[seen].status = "accepted" THEN Return(c, Duplicate(c, None, seen))
  ELSE Goto(c, "load")

\* Stage FILE, and the lookup by file hash.
CheckFile(c) ==
  /\ chk[c].pc = "file"
  /\ \/ /\ Flaw[chk[c].pkg] = "file"
        /\ Return(c, Reject(c, None, None, "image"))
     \/ /\ Flaw[chk[c].pkg] # "file"
        /\ Checked(chk[c].pkg) # {}
        /\ FileLookup(c, Latest(Checked(chk[c].pkg)))
     \/ /\ Flaw[chk[c].pkg] # "file"
        /\ Checked(chk[c].pkg) = {}
        /\ Goto(c, "load")
  /\ UNCHANGED <<submissions, agents, jobs, images>>

\* Stages STRUCTURE and LOAD of a tarball; or stage LOAD of a registry
\* reference, where the flaw "structure" stands for an image the registry
\* refuses, does not have, or declares too large.
LoadImage(c) ==
  /\ chk[c].pc \in {"load", "pull"}
  /\ \/ /\ Flaw[chk[c].pkg] = "structure"
        /\ Return(c, Reject(c, MeasuredHash(c), None, "image"))
        /\ UNCHANGED images
     \/ /\ Flaw[chk[c].pkg] # "structure"
        /\ images' = images \cup {chk[c].pkg}
        /\ chk' = [chk EXCEPT ![c].pc = "inspect", ![c].loaded = TRUE]
  /\ UNCHANGED <<submissions, agents, jobs>>

\* The daemon has the image, but load_image or pull_image raises: the call timed
\* out, docker load named no image, or the repo digest is missing or cannot be
\* asked for.  The pipeline never learns that there is an image to remove.
LoadUnresolved(c, why) ==
  /\ chk[c].pc \in {"load", "pull"}
  /\ "digest" \in Faults
  /\ Flaw[chk[c].pkg] # "structure"
  /\ images' = images \cup {chk[c].pkg}
  /\ Return(c, Reject(c, MeasuredHash(c), None, why))
  /\ UNCHANGED <<submissions, agents, jobs>>

\* The agents row of a package's digest: its first submission.
Known(p) == IF AgentOf[p] = None THEN None ELSE agents[AgentOf[p]]

\* Mutant: the agent digest is not looked up.
AgentLookupSkipped(c) ==
  IF chk[c].skip THEN Return(c, Accept(c)) ELSE Goto(c, "dry_run")

\* What the agents table decides for an image that passed the gates.
AgentLookup(c) ==
  LET p == chk[c].pkg
      known == Known(p)
  IN IF known = None
     THEN IF chk[c].skip THEN Return(c, Accept(c)) ELSE Goto(c, "dry_run")
     ELSE IF submissions[known].miner = chk[c].miner
     THEN Return(c, Replay(c, AgentOf[p], known))
     ELSE Return(c, Duplicate(c, AgentOf[p], known))

\* Stage INSPECT, and the lookup by agent digest.  An image that another
\* checker has removed in the meantime is a load failure.
InspectImage(c) ==
  /\ chk[c].pc = "inspect"
  /\ \/ /\ chk[c].pkg \notin images \/ Flaw[chk[c].pkg] = "inspect"
        /\ Return(c, Reject(c, MeasuredHash(c), None, "image"))
     \/ /\ chk[c].pkg \in images /\ Flaw[chk[c].pkg] # "inspect"
        /\ AgentLookup(c)
  /\ UNCHANGED <<submissions, agents, jobs, images>>

\* Stage DRY_RUN.  docker create fails on a missing local image, and pulls a
\* missing registry image by itself.
DryRun(c) ==
  /\ chk[c].pc = "dry_run"
  /\ LET p == chk[c].pkg
         gone == chk[c].src = "file" /\ p \notin images
     IN /\ Return(c, IF gone \/ Flaw[p] = "run"
                     THEN Reject(c, MeasuredHash(c), AgentOf[p], "image") ELSE Accept(c))
        /\ images' = IF gone THEN images ELSE images \cup {p}
  /\ UNCHANGED <<submissions, agents, jobs>>

\* A stage fails for a reason that is not in the package, with the evidence of
\* the stages that passed.
Failed(c, why) ==
  Return(c, Reject(c, IF chk[c].pc = "file" THEN None ELSE MeasuredHash(c),
                   IF chk[c].pc = "dry_run" THEN AgentOf[chk[c].pkg] ELSE None, why))

\* The daemon is unreachable, or a stage raised: DOCKER_UNAVAILABLE or
\* INTERNAL_ERROR.
StageFault(c) ==
  /\ "stage" \in Faults
  /\ chk[c].pc \in {"file", "load", "pull", "inspect", "dry_run"}
  /\ Failed(c, "fault")
  /\ UNCHANGED <<submissions, agents, jobs, images>>

\* docker load, pull, inspect, create, start or wait fails or runs out of time
\* and does not look like a daemon that is down, or the registry is out of reach
\* or refuses our credentials: LOAD_FAILED, PULL_FAILED, REGISTRY_UNAUTHORIZED,
\* CREATE_FAILED, START_FAILED or DRY_RUN_NONZERO_EXIT, whatever the image is.
\* docker create may have pulled the image by then.
CallFails(c) ==
  /\ "call" \in Faults
  /\ chk[c].pc \in {"load", "pull", "inspect", "dry_run"}
  /\ Failed(c, "image")
  /\ \/ UNCHANGED images
     \/ chk[c].pc = "dry_run" /\ chk[c].src = "registry" /\ images' = images \cup {chk[c].pkg}
  /\ UNCHANGED <<submissions, agents, jobs>>

\* Mutant: only an accepted image is removed.
CleanupIfAccepted(c) ==
  /\ chk[c].pc = "cleanup"
  /\ images' = IF chk[c].verdict.status = "accepted" THEN images \ {chk[c].pkg} ELSE images
  /\ Goto(c, "record")
  /\ UNCHANGED <<submissions, agents, jobs>>

\* The pipeline's finally clause.
Cleanup(c) ==
  /\ chk[c].pc = "cleanup"
  /\ images' = images \ {chk[c].pkg}
  /\ Goto(c, "record")
  /\ UNCHANGED <<submissions, agents, jobs>>

\* docker image rm fails: best effort, the verdict stands.
CleanupFails(c) ==
  /\ chk[c].pc = "cleanup"
  /\ "rm" \in Faults
  /\ Goto(c, "record")
  /\ UNCHANGED <<submissions, agents, jobs, images>>

-----------------------------------------------------------------------------
(* check_and_record: the verdict, then the agent *)

RecordVerdict(c) ==
  /\ chk[c].pc = "record"
  /\ Len(submissions) < MaxRows
  /\ submissions' = Append(submissions, chk[c].verdict)
  /\ chk' = [chk EXCEPT ![c].pc = "register", ![c].row = Len(submissions) + 1]
  /\ UNCHANGED <<agents, jobs, images>>

\* Mutant: INSERT OR REPLACE.
RegisteredLast(v, i) ==
  IF ~v.cached /\ v.status = "accepted" /\ v.agent # None
  THEN [agents EXCEPT ![v.agent] = i] ELSE agents

\* Mutant: an agent that came through the registry is not stored.
RegisteredFilesOnly(v, i) ==
  IF ~v.cached /\ v.status = "accepted" /\ v.agent # None /\ v.src = "file" /\ agents[v.agent] = None
  THEN [agents EXCEPT ![v.agent] = i] ELSE agents

\* Mutant: a rejected agent is stored too.
RegisteredAnyStatus(v, i) ==
  IF ~v.cached /\ v.agent # None /\ agents[v.agent] = None
  THEN [agents EXCEPT ![v.agent] = i] ELSE agents

\* The agents table after registering verdict v, row i: INSERT OR IGNORE,
\* unless v was replayed or rejected, or its agent is not identified.
Registered(v, i) ==
  IF ~v.cached /\ v.status = "accepted" /\ v.agent # None /\ agents[v.agent] = None
  THEN [agents EXCEPT ![v.agent] = i] ELSE agents

RegisterAgent(c) ==
  /\ chk[c].pc = "register"
  /\ agents' = Registered(chk[c].verdict, chk[c].row)
  /\ IF c \in Workers THEN Goto(c, "finish") ELSE chk' = [chk EXCEPT ![c] = Rest(c)]
  /\ UNCHANGED <<submissions, jobs, images>>

\* A write raises out of check_and_record.
RecordFails(c) ==
  /\ chk[c].pc \in {"record", "register"}
  /\ "db" \in Faults
  /\ IF c \in Workers THEN Goto(c, "fail") ELSE chk' = [chk EXCEPT ![c] = Rest(c)]
  /\ UNCHANGED <<submissions, agents, jobs, images>>

-----------------------------------------------------------------------------
(* The job queue *)

InState(s) == {j \in JobIds : jobs[j].state = s}

\* Rows the checks under way may still append.
Reserved ==
  Cardinality(InState("queued") \cup InState("running"))
    + Cardinality({c \in Direct : chk[c].pc \notin {"idle", "register"}})

Oldest(J) == CHOOSE j \in J : \A k \in J : j <= k

\* POST /v1/submissions, on a server whose process is up.
CreateJob(m, p) ==
  /\ \E w \in Workers : chk[w].pc # "down"
  /\ InState("absent") # {}
  /\ Len(submissions) + Reserved < MaxRows
  /\ jobs' = [jobs EXCEPT ![Oldest(InState("absent"))] =
                [state |-> "queued", miner |-> m, pkg |-> p, row |-> None]]
  /\ UNCHANGED <<submissions, agents, images, chk>>

\* Mutant: nothing is put back in the queue.
NoneRequeued == jobs

\* The jobs table after requeue_running_jobs.
Requeued ==
  [j \in JobIds |-> IF jobs[j].state = "running"
                    THEN [jobs[j] EXCEPT !.state = "queued"] ELSE jobs[j]]

\* Where a checker has a submission in hand; a worker, from the claim to the report.
Busy == {"file", "load", "pull", "inspect", "dry_run",
         "cleanup", "record", "register", "finish", "fail"}

\* A server starts, for the first time or again: its worker requeues whatever is
\* running, which "belongs to a previous process that died" unless servers overlap.
Boot(w) ==
  /\ chk[w].pc = "down"
  /\ "overlap" \in Faults \/ \A v \in Workers \ {w} : chk[v].pc \notin Busy
  /\ jobs' = Requeued
  /\ chk' = [chk EXCEPT ![w] = Rest(w)]
  /\ UNCHANGED <<submissions, agents, images>>

\* claim_next_job, the SELECT.
ClaimSelect(w) ==
  /\ chk[w].pc = "claim"
  /\ InState("queued") # {}
  /\ chk' = [chk EXCEPT ![w].pc = "update", ![w].job = Oldest(InState("queued"))]
  /\ UNCHANGED <<submissions, agents, jobs, images>>

\* Mutant: the UPDATE does not re-check the state.
ClaimableAlways(j) == TRUE

\* The state the UPDATE expects the selected row to be in.
Claimable(j) == jobs[j].state = "queued"

\* claim_next_job, the UPDATE; a worker that changes no row moves on.
ClaimUpdate(w) ==
  /\ chk[w].pc = "update"
  /\ LET j == chk[w].job
     IN \/ /\ Claimable(j)
           /\ jobs' = [jobs EXCEPT ![j].state = "running"]
           /\ chk' = [chk EXCEPT ![w] = Start(j, jobs[j].miner, jobs[j].pkg, "registry", FALSE)]
        \/ /\ ~Claimable(j)
           /\ chk' = [chk EXCEPT ![w] = Rest(w)]
           /\ UNCHANGED jobs
  /\ UNCHANGED <<submissions, agents, images>>

\* Mutant: an off-by-one in the row id.
RowAfter(w) == chk[w].row + 1

\* Mutant: the newest row of the table is taken for the job's.
NewestRow(w) == Len(submissions)

\* The row check_and_record returned.
RecordedRow(w) == chk[w].row

\* finish_job with a verdict.
FinishJob(w) ==
  /\ chk[w].pc = "finish"
  /\ jobs' = [jobs EXCEPT ![chk[w].job].state = "done", ![chk[w].job].row = RecordedRow(w)]
  /\ chk' = [chk EXCEPT ![w] = Rest(w)]
  /\ UNCHANGED <<submissions, agents, images>>

\* finish_job with an error, after an exception in _run_job.
FailJob(w) ==
  /\ chk[w].pc = "fail"
  /\ jobs' = [jobs EXCEPT ![chk[w].job].state = "failed", ![chk[w].job].row = None]
  /\ chk' = [chk EXCEPT ![w] = Rest(w)]
  /\ UNCHANGED <<submissions, agents, images>>

\* A write of the worker itself raises: _run_job catches that of finish_job
\* once; anywhere else it ends the worker's thread, while the server lives on.
WorkerWriteFails(w) ==
  /\ "db" \in Faults
  /\ \/ chk[w].pc = "finish" /\ Goto(w, "fail")
     \/ chk[w].pc \in {"down", "claim", "update", "fail"} /\ chk' = [chk EXCEPT ![w] = At("dead")]
  /\ UNCHANGED <<submissions, agents, jobs, images>>

-----------------------------------------------------------------------------
\* The command line, or the evaluation thread of the security validator,
\* submits a package.
Begin(c, m, p, src, skip) ==
  /\ chk[c].pc = "idle"
  /\ Len(submissions) + Reserved < MaxRows
  /\ chk' = [chk EXCEPT ![c] = Start(None, m, p, src, skip)]
  /\ UNCHANGED <<submissions, agents, jobs, images>>

\* A checker's process dies; what it loaded into Docker stays there.
Crash(c) ==
  /\ "crash" \in Faults
  /\ chk[c].pc \notin {"idle", "down"}
  /\ Len(submissions) + Reserved <= MaxRows
  /\ chk' = [chk EXCEPT ![c] = IF c \in Workers THEN At("down") ELSE At("idle")]
  /\ UNCHANGED <<submissions, agents, jobs, images>>

Init ==
  /\ submissions = << >>
  /\ agents = [a \in Agents |-> None]
  /\ jobs = [j \in JobIds |-> NoJob]
  /\ images = {}
  /\ chk = [c \in Checkers |-> IF c \in Workers THEN At("down") ELSE Rest(c)]

\* One step of check_and_record.
Check(c) ==
  \/ CheckFile(c)
  \/ LoadImage(c)
  \/ \E why \in {"image", "fault"} : LoadUnresolved(c, why)
  \/ InspectImage(c)
  \/ DryRun(c)
  \/ StageFault(c)
  \/ CallFails(c)
  \/ Cleanup(c)
  \/ CleanupFails(c)
  \/ RecordVerdict(c)
  \/ RegisterAgent(c)
  \/ RecordFails(c)

\* One step of a worker outside check_and_record.
Work(w) ==
  \/ Boot(w)
  \/ ClaimSelect(w)
  \/ ClaimUpdate(w)
  \/ FinishJob(w)
  \/ FailJob(w)
  \/ WorkerWriteFails(w)

Next ==
  \/ \E m \in Miners, p \in Packages : CreateJob(m, p)
  \/ \E c \in Direct, m \in Miners, p \in Packages, src \in Sources, skip \in Skips :
       Begin(c, m, p, src, skip)
  \/ \E c \in Checkers : Check(c) \/ Crash(c)
  \/ \E w \in Workers : Work(w)

Spec == Init /\ [][Next]_vars

\* Threads keep running, every Docker call has a timeout, a supervisor restarts
\* a dead server, and crashes stop.
Fairness ==
  /\ \A c \in Checkers : WF_vars(Check(c))
  /\ \A w \in Workers : WF_vars(Work(w))
  /\ \A c \in Checkers : <>[][~Crash(c)]_vars

FairSpec == Spec /\ Fairness

-----------------------------------------------------------------------------
(* Properties *)

\* Every variable stays in its domain, and every row id points into the table.
TypeOK ==
  /\ submissions \in Seq(Verdicts) /\ Len(submissions) <= MaxRows
  /\ agents \in [Agents -> (DOMAIN submissions) \cup {None}]
  /\ jobs \in [JobIds -> JobRecords]
  /\ \A j \in JobIds : jobs[j].row \in (DOMAIN submissions) \cup {None}
  /\ images \subseteq Packages
  /\ chk \in [Checkers -> Locals]

Accepted(i) == submissions[i].status = "accepted"

\* Every stored agent is backed by the row it names: an accepted check of that
\* very agent, not a replay (register_agent).
AgentsAreBacked ==
  \A a \in Agents : agents[a] # None =>
    /\ Accepted(agents[a])
    /\ submissions[agents[a]].agent = a
    /\ ~submissions[agents[a]].cached

\* A replayed verdict repeats, for the same miner, an earlier row that ran the
\* checks on the same bytes or the same agent, and never a failure that the code
\* counts as ours (VALIDATOR_FAULT_REASONS), so a chain of resubmissions leads
\* back to the work (latest_checked_for_sha256).
ReplaysAreGrounded ==
  \A i \in DOMAIN submissions : LET r == submissions[i] IN
    r.cached =>
      /\ r.origin < i
      /\ LET o == submissions[r.origin]
         IN /\ ~o.cached /\ o.miner = r.miner
            /\ o.status = r.status /\ o.why = r.why /\ o.why # "fault"
            /\ o.pkg = r.pkg \/ o.agent = r.agent

\* A submission is turned away as a duplicate only against an earlier accepted
\* row of another miner, on the same bytes or the same agent (_duplicate_verdict).
DuplicatesNameAnOwner ==
  \A i \in DOMAIN submissions : LET r == submissions[i] IN
    r.why = "duplicate" /\ ~r.cached =>
      /\ r.origin < i /\ Accepted(r.origin)
      /\ submissions[r.origin].miner # r.miner
      /\ submissions[r.origin].pkg = r.pkg \/ submissions[r.origin].agent = r.agent

\* An agent is accepted from one miner only (the rules table of
\* secqurityVali/README.md: "different miner, agent already owned | rejected").
OneAcceptedOwner ==
  \A i, j \in DOMAIN submissions :
    /\ Accepted(i) /\ Accepted(j)
    /\ submissions[i].agent = submissions[j].agent /\ submissions[i].agent # None
    => submissions[i].miner = submissions[j].miner

\* A stored agent belongs to "the miner who submitted it first" (db.py): to the
\* one of its first accepted row.
FirstAcceptedOwns ==
  \A a \in Agents : \A i \in DOMAIN submissions :
    agents[a] # None /\ Accepted(i) /\ submissions[i].agent = a =>
      \/ agents[a] <= i
      \/ submissions[agents[a]].miner = submissions[i].miner

\* A verdict that blames the image, replayed or not, is about an image that has
\* a flaw ("Our failures are never the miner's", secqurityVali/README.md).
RejectionsAreDeserved ==
  \A i \in DOMAIN submissions :
    submissions[i].why = "image" => Flaw[submissions[i].pkg] # "none"

\* An image is loaded only while a checker is using it ("Nothing persists
\* between submissions", secqurityVali/README.md and pipeline.py).
NothingPersists ==
  \A p \in images : \E c \in Checkers : chk[c].loaded /\ chk[c].pkg = p

\* Two workers never work on the same job (claim_next_job: "two workers racing
\* for the same row cannot both win"; Worker.run requeues what a dead process left).
JobHeldOnce ==
  \A v, w \in Workers :
    /\ v # w /\ chk[v].job # None /\ chk[v].job = chk[w].job
    => chk[v].pc = "update" \/ chk[w].pc = "update"

\* A row is recorded for a job only while the job is running: once it is settled,
\* or put back in the queue, no checker still works for it (requeue_running_jobs:
\* "A job in `running` with no live worker").
RowsComeInTime ==
  [][\A i \in DOMAIN submissions' \ DOMAIN submissions :
       submissions'[i].job # None => jobs[submissions'[i].job].state = "running"]_vars

\* A job that is done points at a row recorded for it, of its miner and image.
DoneJobsHaveTheirVerdict ==
  \A j \in InState("done") :
    /\ jobs[j].row # None
    /\ LET r == submissions[jobs[j].row]
       IN r.job = j /\ r.miner = jobs[j].miner /\ r.pkg = jobs[j].pkg

\* A job is checked once: at most one row that is not a replay was recorded for
\* it (requeue_running_jobs: "Nothing was recorded, so the work is simply redone").
JobsAreCheckedOnce ==
  \A i, j \in DOMAIN submissions :
    /\ submissions[i].job # None /\ submissions[i].job = submissions[j].job
    /\ ~submissions[i].cached /\ ~submissions[j].cached
    => i = j

\* Every posted job is settled, though the server may die in the middle of it and
\* come back (requeue_running_jobs).
JobsAreSettled ==
  \A j \in JobIds : jobs[j].state = "queued" ~> jobs[j].state \in {"done", "failed"}

\* The service implements the ledger: rows are only appended, an agent keeps its
\* first owner, and a job is settled once.
Ledger == INSTANCE AgentLedger WITH
  attempts <- [i \in DOMAIN submissions |->
                 [miner |-> submissions[i].miner, pkg |-> submissions[i].pkg,
                  agent |-> submissions[i].agent, accepted |-> Accepted(i)]],
  owner <- [a \in Agents |-> IF agents[a] = None THEN None
                             ELSE submissions[agents[a]].miner],
  board <- [j \in JobIds |->
              [state |-> IF jobs[j].state \in {"queued", "running"} THEN "pending"
                         ELSE jobs[j].state,
               by |-> jobs[j].row]]

ImplementsLedger == Ledger!Spec

=============================================================================
