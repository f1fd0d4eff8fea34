-------------------------- MODULE AgentEvaluation --------------------------
(***************************************************************************)
(* How one miner's agent is evaluated: the miner seals its image for the   *)
(* validator's key and hosts the blob (neurons/security_miner.py,          *)
(* masxai/agent_blob.py, masxai/agent_crypto.py); the validator downloads, *)
(* opens and checks it (_evaluate_blob, _evaluate in                       *)
(* neurons/security_validator.py); and the isolated job runs it in Docker  *)
(* against a fresh target (secqurityVali/job.py, secqurityVali/replay.py). *)
(*                                                                         *)
(* The evaluation is one thread, and one step of it is one call that may   *)
(* fail: a docker command, the download, the intake.  Each docker command  *)
(* succeeds, exits with an error ("refuse") or runs out of time ("late"),  *)
(* and then may have done its work or not.  The containers, network and    *)
(* files of a run are named after the run.                                 *)
(***************************************************************************)
EXTENDS EvaluationScore

CONSTANTS
  Agents,     \* agents the miner's image may hold
  Valid,      \* those that pass the intake
  Documents,  \* the reports an agent may write
  Deeds,      \* what an agent may do: sets of system calls
  Faults,     \* failures the environment may inject
  MaxRuns,    \* bound: evaluations
  MaxEvents   \* bound: failed calls, restarts and crashes

\* "net": the download breaks or is cut short; "http": a request of the replay
\* fails; "log": the monitor captured nothing; "file": the validator's key file
\* cannot be read or written; "port": the miner cannot bind its blob server;
\* "miner", "crash": the miner, the validator restarts.
FaultKinds ==
  {"refuse", "late", "net", "http", "log", "file", "port", "miner", "crash"}

ASSUME EvaluationAssumption ==
  /\ Valid \subseteq Agents
  /\ \A doc \in Documents : IsDocument(doc)
  /\ Deeds \subseteq SUBSET Events
  /\ Faults \subseteq FaultKinds

ASSUME EvaluationNoneAssumption ==
  /\ None \notin Nat \cup Agents \cup Documents \cup Deeds \cup {Unreadable}
  /\ None \notin [agent : Agents, key : Nat]
  /\ None \notin [canaryFound : BOOLEAN, score : Nat]

ASSUME EvaluationBoundAssumption == MaxRuns \in Nat /\ MaxEvents \in Nat

VARIABLES
  miner,    \* the miner: its image, blob server, saved tar and sealed blobs
  vault,    \* the validator's key, its key file, and the last key minted; the
            \* history: whether the file ever failed
  events,   \* how many failures there were
  host,     \* what exists on the validator's host, by kind and run
  spoiled,  \* history: runs in which a removal failed, or that were killed
  job       \* the evaluation: program counter, locals and history

vars == <<miner, vault, events, host, spoiled, job>>

peers == <<miner, vault>>

-----------------------------------------------------------------------------
(* State *)

Runs == 1 .. MaxRuns

\* Keys are numbered as they are minted; 0 is another validator's.
OtherKey == 0

Blobs == [agent : Agents, key : Nat]

Miners ==
  [image : Agents, hosting : BOOLEAN, tar : Agents \cup {None}, blobs : SUBSET Blobs]

Vaults == [key : Nat, file : Nat \cup {None}, minted : Nat, failed : BOOLEAN]

Resources ==
  {"network", "target", "agent", "replay", "out", "tar", "image", "pulled"} \X Runs

\* What the evaluation does next.
Positions ==
  {"idle", "download", "intake", "load", "network", "target", "address", "create", "start",
   "wait", "kill", "collect", "replay", "probe", "rm_replay", "logs", "rm_agent",
   "rm_target", "rm_network", "rm_image"}

\* via: the blob path or the plain reference; ran: the agent's container;
\* doc, log: the evidence collected; reward: None until there is one, and for
\* our own faults; stage: what decided the outcome.  The history: since, the
\* failures there had been when it began; learned, the agent read this run's
\* canary; unsafe, it did something that blocks; reproduced, a fresh target
\* gave its canary away.
Locals ==
  [pc : Positions,
   run : 0 .. MaxRuns, since : 0 .. MaxEvents,
   via : {"blob", "reference"}, blob : Blobs \cup {None},
   agent : Agents \cup {None}, variant : Variants,
   ran : {"absent", "created", "running", "exited", "expired"},
   doc : Documents \cup {Unreadable, None}, log : Deeds \cup {None}, replayed : BOOLEAN,
   reward : 0 .. 10 \cup {None},
   stage : {"none", "transport", "decrypt", "intake", "job", "error"},
   learned : BOOLEAN, unsafe : BOOLEAN, reproduced : BOOLEAN]

Begun(run, via, blob, agent, pc) ==
  [pc |-> pc, run |-> run, since |-> events, via |-> via, blob |-> blob, agent |-> agent,
   variant |-> "union", ran |-> "absent", doc |-> None, log |-> None, replayed |-> FALSE,
   reward |-> None, stage |-> "none", learned |-> FALSE, unsafe |-> FALSE, reproduced |-> FALSE]

Mine(kind) == <<kind, job.run>>

Goto(pc) == job' = [job EXCEPT !.pc = pc]

\* A failure of kind f happens now.
Fails(f) == f \in Faults /\ events < MaxEvents /\ events' = events + 1

Spoil == spoiled' = spoiled \cup {job.run}

\* What the command would do to the host when it succeeds, or may have done
\* when it ran out of time.
Perhaps(done) == host' \in {host, done}

-----------------------------------------------------------------------------
(* The miner *)

\* Mutant: the ciphertext is cached for the tar alone.
CachedForTar(m, agent, key) == {b \in m.blobs : b.agent = agent}

\* self._agent_blobs.get((pubkey_b64, tar_sha))
Cached(m, agent, key) == {b \in m.blobs : b.agent = agent /\ b.key = key}

\* _agent_blob_for: save once, seal once for each key.
BlobFor(m, key) ==
  LET cached == Cached(m, m.image, key)
  IN IF m.tar = m.image /\ cached # {} THEN CHOOSE b \in cached : TRUE
     ELSE [agent |-> m.image, key |-> key]

AfterServing(m, key) ==
  [m EXCEPT !.tar = m.image,
            !.blobs = (IF m.tar = m.image THEN @ ELSE {}) \cup {BlobFor(m, key)}]

\* Another validator asks.
OtherAsks ==
  /\ miner.hosting
  /\ miner' = AfterServing(miner, OtherKey)
  /\ UNCHANGED <<vault, events, host, spoiled, job>>

\* The miner process restarts, perhaps with another image: the caches are gone,
\* the blob server has a new directory and may not get its port.
MinerRestarts(agent, hosting) ==
  /\ Fails("miner")
  /\ hosting \/ "port" \in Faults
  /\ miner' = [image |-> agent, hosting |-> hosting, tar |-> None, blobs |-> {}]
  /\ UNCHANGED <<vault, host, spoiled, job>>

-----------------------------------------------------------------------------
(* The validator *)

\* A new key, and what the file holds if it can be written.
Minted(v, writable) ==
  [v EXCEPT !.key = v.minted + 1, !.minted = @ + 1,
            !.file = IF writable THEN v.minted + 1 ELSE @]

\* Mutant: a restart mints a key, whatever the file holds.
MintAnyway(v, readable, writable) == Minted(v, writable)

\* _load_or_create_keypair: a file that is missing or cannot be read is replaced;
\* when it cannot be written, the key is in memory only.
LoadOrCreateKeypair(v, readable, writable) ==
  IF v.file # None /\ readable THEN [v EXCEPT !.key = v.file] ELSE Minted(v, writable)

\* The validator's process dies, the evaluation with it, and starts again;
\* nothing sweeps what the job had created.
Restart(readable, writable) ==
  /\ Fails("crash")
  /\ (readable /\ writable) \/ "file" \in Faults
  /\ vault' = [LoadOrCreateKeypair(vault, readable, writable)
                EXCEPT !.failed = @ \/ ~(readable /\ writable)]
  /\ job' = Begun(job.run, "blob", None, None, "idle")
  /\ spoiled' = IF job.pc = "idle" THEN spoiled ELSE spoiled \cup {job.run}
  /\ UNCHANGED <<miner, host>>

\* A round asks the miner, which answers with a blob for our key, or with its
\* plain reference if it has no blob server (SecurityMiner.forward).
Ask ==
  /\ job.pc = "idle" /\ job.run < MaxRuns
  /\ IF miner.hosting
     THEN /\ miner' = AfterServing(miner, vault.key)
          /\ job' = Begun(job.run + 1, "blob", BlobFor(miner, vault.key), None, "download")
     ELSE /\ job' = Begun(job.run + 1, "reference", None, miner.image, "intake")
          /\ UNCHANGED miner
  /\ UNCHANGED <<vault, events, host, spoiled>>

\* The evaluation ends without a job, for the reason named by stage.
Over(stage, reward) ==
  job' = [job EXCEPT !.pc = "idle", !.stage = stage, !.reward = reward]

\* hashlib.sha256(blob).hexdigest() == ciphertext_sha256
Verified(received) == received = job.blob

\* decrypt_agent succeeds: sealed for our key, and whole.
Opens(received) == received # None /\ received.key = vault.key

\* _download_blob and what follows: the blob is served only by the process that
\* sealed it; received is None when the bytes were cut short.
Download ==
  /\ job.pc = "download"
  /\ \/ /\ Fails("net") \/ (UNCHANGED events /\ ~(miner.hosting /\ job.blob \in miner.blobs))
        /\ Over("transport", None) /\ UNCHANGED host
     \/ \E received \in {job.blob, None} :
          /\ miner.hosting /\ job.blob \in miner.blobs
          /\ IF received = None THEN Fails("net") ELSE UNCHANGED events
          /\ IF ~Verified(received) THEN Over("transport", None) /\ UNCHANGED host
             ELSE IF ~Opens(received) THEN Over("decrypt", 0) /\ UNCHANGED host
             ELSE /\ job' = [job EXCEPT !.pc = "intake", !.agent = received.agent]
                  /\ host' = host \cup {Mine("tar")}
  /\ UNCHANGED <<peers, spoiled>>

\* What is left of this run's things when its tarball is deleted too.
WithoutTar == host \ {Mine("tar")}

\* check_and_record, modelled in SubmissionService: it leaves the host as it was.
\* An accepted reference goes to run_job, which makes the output directory; an
\* accepted tarball is loaded first.
Intake ==
  /\ job.pc = "intake"
  /\ \/ /\ Fails("refuse")
        /\ Over("intake", None) /\ host' = WithoutTar
     \/ /\ job.agent \notin Valid /\ UNCHANGED events
        /\ Over("intake", 0) /\ host' = WithoutTar
     \/ /\ job.agent \in Valid /\ UNCHANGED events
        /\ IF job.via = "blob" THEN Goto("load") /\ UNCHANGED host
           ELSE Goto("network") /\ host' = host \cup {Mine("out")}
  /\ UNCHANGED <<peers, spoiled>>

\* docker_ops.load_image, which raises: the round skips the uid.  A load that
\* ran out of time names no image to remove.
Load ==
  /\ job.pc = "load"
  /\ \/ /\ UNCHANGED <<events, spoiled>>
        /\ Goto("network") /\ host' = host \cup {Mine("image"), Mine("out")}
     \/ /\ Fails("refuse") /\ UNCHANGED spoiled
        /\ Over("error", None) /\ host' = WithoutTar
     \/ /\ Fails("late") /\ Spoil
        /\ Over("error", None) /\ host' \in {WithoutTar, WithoutTar \cup {Mine("image")}}
  /\ UNCHANGED peers

-----------------------------------------------------------------------------
(* run_job *)

\* Mutant: a failure returns without the teardown.
FaultWithoutTeardown(pc) ==
  [job EXCEPT !.pc = IF job.via = "blob" THEN "rm_image" ELSE "idle",
              !.doc = None, !.log = None, !.stage = "error", !.reward = None]

\* _our_fault, then the teardown that begins at pc.
OurFault(pc) ==
  [job EXCEPT !.pc = pc, !.doc = None, !.log = None, !.stage = "error", !.reward = None]

\* A command of the try block: it succeeds, with what that makes of the host and
\* where the job goes on; exits with an error; or runs out of time.
Command(pc, done, next, refused) ==
  /\ job.pc = pc
  /\ \/ UNCHANGED events /\ host' = done /\ job' = next
     \/ Fails("refuse") /\ UNCHANGED host /\ job' = refused
     \/ Fails("late") /\ Perhaps(done) /\ job' = OurFault("rm_agent")
  /\ UNCHANGED <<peers, spoiled>>

At(pc) == [job EXCEPT !.pc = pc]

\* Nobody looks at the exit status: without a network the target fails.
NetworkCreate == Command("network", host \cup {Mine("network")}, At("target"), At("target"))

TargetRun ==
  IF Mine("network") \in host
  THEN \E variant \in Variants :
         Command("target", host \cup {Mine("target")},
                 [At("address") EXCEPT !.variant = variant], OurFault("rm_agent"))
  ELSE Command("target", host, OurFault("rm_agent"), OurFault("rm_agent"))

ContainerIp == Command("address", host, At("create"), OurFault("rm_agent"))

\* Creating the container of a reference pulls the image if it is not there;
\* nothing removes it.
AgentCreate ==
  Command("create",
          host \cup {Mine("agent")} \cup (IF job.via = "blob" THEN {} ELSE {Mine("pulled")}),
          [At("start") EXCEPT !.ran = "created"], OurFault("rm_agent"))

\* Nobody looks at the exit status.
AgentStart == Command("start", host, [At("wait") EXCEPT !.ran = "running"], At("wait"))

\* The agent comes to its end.
AgentExits ==
  /\ job.pc = "wait" /\ job.ran = "running"
  /\ job' = [job EXCEPT !.ran = "exited"]
  /\ UNCHANGED <<peers, events, host, spoiled>>

\* Mutant: the wait has no time limit.
WaitForever == FALSE

\* The agent's time is up.
TimeIsUp == job.ran = "running"

\* docker wait returns when the container does not run, or with an error.
Wait ==
  /\ job.pc = "wait"
  /\ \/ job.ran # "running" /\ UNCHANGED events /\ Goto("collect")
     \/ Fails("refuse") /\ Goto("collect")
     \/ TimeIsUp /\ UNCHANGED events /\ job' = [At("kill") EXCEPT !.ran = "expired"]
  /\ UNCHANGED <<peers, host, spoiled>>

Kill == Command("kill", host, At("collect"), At("collect"))

\* _maybe_replay asks for a replay: the run the report names is not looked at.
WantsReplay(doc) == doc.formed /\ doc.reproduction # {}

Collected(doc, deeds, learned, logged) ==
  [job EXCEPT !.pc = IF WantsReplay(doc) THEN "replay" ELSE "logs",
              !.doc = doc, !.log = IF logged THEN deeds ELSE None,
              !.learned = learned, !.unsafe = ~SafetyVerdict(deeds)]

\* _exit_code, _read_findings, _read_behaviour: the agent, if it was ever
\* started, did some deeds and left some report; it names this run's canary only
\* if it read it.  Without a start there is no report and no log.
Collect ==
  /\ job.pc = "collect"
  /\ \/ /\ Fails("late") /\ job' = OurFault("rm_agent")
     \/ \E doc \in Documents \cup {Unreadable}, deeds \in Deeds, learned \in BOOLEAN,
           logged \in BOOLEAN :
          /\ Names(doc) => learned
          /\ IF logged THEN UNCHANGED events ELSE Fails("log")
          /\ job.ran # "created"
          /\ job' = Collected(doc, deeds, learned, logged)
     \/ /\ job.ran = "created" /\ UNCHANGED events
        /\ job' = [job EXCEPT !.pc = "logs", !.doc = Unreadable]
  /\ UNCHANGED <<peers, host, spoiled>>

-----------------------------------------------------------------------------
(* run_replay *)

ReplayRun ==
  /\ job.pc = "replay"
  /\ \/ UNCHANGED events /\ host' = host \cup {Mine("replay")} /\ Goto("probe")
     \/ Fails("refuse") /\ UNCHANGED host /\ Goto("rm_replay")
     \/ Fails("late") /\ Perhaps(host \cup {Mine("replay")}) /\ Goto("rm_replay")
  /\ UNCHANGED <<peers, spoiled>>

\* Poll until it answers, then try the recipe; any failure is "not confirmed".
ReplayProbe ==
  /\ job.pc = "probe"
  /\ \E answers \in BOOLEAN :
       /\ IF answers THEN UNCHANGED events ELSE Fails("http")
       /\ LET confirmed == answers /\ Reproduces(job.variant, job.doc.reproduction)
          IN job' = [At("rm_replay") EXCEPT !.replayed = confirmed, !.reproduced = confirmed]
  /\ UNCHANGED <<peers, host, spoiled>>

\* A removal: nobody looks at its exit status, and what it leaves stays for good.
Remove(pc, removed, next, late) ==
  /\ job.pc = pc
  /\ \/ UNCHANGED <<events, spoiled>> /\ host' = host \ removed /\ job' = next
     \/ Fails("refuse") /\ Spoil /\ UNCHANGED host /\ job' = next
     \/ Fails("late") /\ Spoil /\ Perhaps(host \ removed) /\ job' = late
  /\ UNCHANGED peers

\* The finally of run_replay; what it raises is caught by run_job.
ReplayRemove == Remove("rm_replay", {Mine("replay")}, At("logs"), OurFault("rm_agent"))

\* _read_request_count, then assemble_result and the reward.
ReadLogs ==
  /\ job.pc = "logs"
  /\ \/ /\ Fails("late") /\ job' = OurFault("rm_agent")
     \/ /\ UNCHANGED events
        /\ job' = [At("rm_agent") EXCEPT
             !.doc = None, !.log = None, !.stage = "job",
             !.reward = RewardForJob(AssembleResult(job.doc, job.log, job.replayed))]
  /\ UNCHANGED <<peers, host, spoiled>>

-----------------------------------------------------------------------------
(* The teardown: the finally of run_job, then that of work() *)

\* Where work() goes on: its own finally, if there is an image to remove.
Unwinding == IF job.via = "blob" THEN "rm_image" ELSE "idle"

\* A removal that runs out of time raises out of run_job, past the other ones;
\* the round skips the uid.
Escaped == [At(Unwinding) EXCEPT !.stage = "error", !.reward = None]

RemoveAgent == Remove("rm_agent", {Mine("agent")}, At("rm_target"), Escaped)

RemoveTarget == Remove("rm_target", {Mine("target")}, At("rm_network"), Escaped)

\* A network with a container on it cannot be removed; the output directory is
\* deleted next, whatever became of the network.
RemoveNetwork ==
  LET removed == IF {Mine("agent"), Mine("target")} \cap host = {} THEN {Mine("network")} ELSE {}
  IN /\ job.pc = "rm_network"
     /\ \/ UNCHANGED <<events, spoiled>>
           /\ host' = host \ (removed \cup {Mine("out")}) /\ job' = At(Unwinding)
        \/ Fails("refuse") /\ Spoil /\ host' = host \ {Mine("out")} /\ job' = At(Unwinding)
        \/ Fails("late") /\ Spoil /\ Perhaps(host \ removed) /\ job' = Escaped
     /\ UNCHANGED peers

\* docker_ops.remove_image never raises; then the tarball is deleted.
RemoveImage ==
  /\ job.pc = "rm_image" /\ Goto("idle")
  /\ \/ UNCHANGED <<events, spoiled>> /\ host' = WithoutTar \ {Mine("image")}
     \/ Fails("refuse") /\ Spoil /\ host' = WithoutTar
     \/ Fails("late") /\ Spoil /\ host' \in {WithoutTar, WithoutTar \ {Mine("image")}}
  /\ UNCHANGED peers

-----------------------------------------------------------------------------
(* The specification *)

Init ==
  /\ miner \in [image : Agents, hosting : {TRUE}, tar : {None}, blobs : {{}}]
  /\ \E written \in BOOLEAN :
       /\ written \/ "file" \in Faults
       /\ vault = [key |-> 1, file |-> IF written THEN 1 ELSE None, minted |-> 1,
                   failed |-> ~written]
  /\ events = 0
  /\ host = {}
  /\ spoiled = {}
  /\ job = Begun(0, "blob", None, None, "idle")

\* One step of the evaluation thread.
Evaluate ==
  \/ Download
  \/ Intake
  \/ Load
  \/ NetworkCreate
  \/ TargetRun
  \/ ContainerIp
  \/ AgentCreate
  \/ AgentStart
  \/ Wait
  \/ Kill
  \/ Collect
  \/ ReplayRun
  \/ ReplayProbe
  \/ ReplayRemove
  \/ ReadLogs
  \/ RemoveAgent
  \/ RemoveTarget
  \/ RemoveNetwork
  \/ RemoveImage

Next ==
  \/ Ask
  \/ Evaluate
  \/ AgentExits
  \/ OtherAsks
  \/ \E agent \in Agents, hosting \in BOOLEAN : MinerRestarts(agent, hosting)
  \/ \E readable, writable \in BOOLEAN : Restart(readable, writable)

Spec == Init /\ [][Next]_vars

\* The evaluation thread runs on: whatever it calls has a time limit.
FairSpec == Spec /\ WF_vars(Evaluate)

-----------------------------------------------------------------------------
(* Properties *)

TypeOK ==
  /\ miner \in Miners /\ vault \in Vaults
  /\ events \in 0 .. MaxEvents
  /\ host \subseteq Resources /\ spoiled \subseteq Runs
  /\ job \in Locals

\* The miner's blob opens with the validator's key, across restarts, other
\* validators and cut downloads: no miner that runs this code scores 0 for a
\* blob "that will not decrypt for our key" (_evaluate_blob).
BlobsOpen == job.stage # "decrypt"

\* A reward above 0 needs a run that read this run's canary and tried nothing
\* that blocks, and one above 5 a fresh target that gave its canary away too
\* ("the one unforgeable fact", task_score.py; "a blocking safety violation
\* rejects the run", assemble_result).
RewardsAreProven ==
  job.reward # None =>
    /\ job.reward > 0 => job.learned /\ ~job.unsafe
    /\ job.reward > 5 => job.reproduced

\* What a run created is gone when it ends, on every path on which its removals
\* succeed (run_job: "Everything created is destroyed before returning"), but for
\* the image a plain reference made Docker pull.
NothingLeftBehind ==
  \A r \in host :
    \/ r[1] = "pulled" \/ r[2] \in spoiled
    \/ r[2] = job.run /\ job.pc # "idle"

\* Whatever the agent does, it is scored: an evaluation that ends without a reward
\* had a failure on its way (EvalOutcome: "None meaning our fault").
UnscoredIsOurFault ==
  job.pc = "idle" /\ job.stage # "none" /\ job.reward = None => events > job.since

\* Every blob a miner keeps for us opens with our key, as long as the key file did
\* not fail (generate_keypair: "reuse across restarts so that blobs a miner
\* encrypted for a previous ask can still be decrypted").
SealedBlobsOpen ==
  \A b \in miner.blobs : b.key \in {OtherKey, vault.key} \/ vault.failed

\* A zero for a job is for an agent that ran until it ended or its time was up
\* (reward.py: "a validator outage never records a zero against a miner who did
\* nothing wrong").
OutagesAreNotScored ==
  job.stage = "job" /\ job.reward = 0 => job.ran \in {"exited", "expired"}

\* Every evaluation ends, though an agent may never exit (run_job: the timeouts).
EvaluationsFinish == job.pc # "idle" ~> job.pc = "idle"

=============================================================================
