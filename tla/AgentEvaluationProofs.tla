----------------------- MODULE AgentEvaluationProofs -----------------------
(***************************************************************************)
(* Proofs about AgentEvaluation, for any agents, reports and behaviours,   *)
(* every fault, and any number of evaluations, failures and restarts.      *)
(***************************************************************************)
EXTENDS AgentEvaluation, FiniteSetTheorems, TLAPS

\* The evidence is this run's, until it becomes a reward.
EvidenceIsOurs ==
  /\ job.pc \in {"replay", "probe", "rm_replay", "logs"} => job.doc # None
  /\ job.doc # None /\ Names(job.doc) => job.learned
  /\ job.log # None => job.unsafe = ~SafetyVerdict(job.log)
  /\ job.replayed => job.reproduced
  /\ job.reward # None => job.pc \in {"idle", "rm_agent", "rm_target", "rm_network", "rm_image"}

\* The blob asked for is sealed with the key it will be opened with, and the
\* file holds the key as long as it did not fail.
BlobIsForUs ==
  /\ job.pc = "download" => job.blob \in Blobs /\ job.blob.key = vault.key
  /\ job.pc \in {"download", "load"} => job.via = "blob"
  /\ vault.file = vault.key \/ vault.failed

\* What a run may still have on the host when its evaluation is at pc.
AtStage(pc) ==
  CASE pc \in {"idle", "download"} -> {}
    [] pc \in {"intake", "load"} -> {"tar"}
    [] pc = "network" -> {"tar", "image", "out"}
    [] pc \in {"probe", "rm_replay"} ->
         {"tar", "image", "out", "network", "target", "agent", "replay"}
    [] pc = "rm_target" -> {"tar", "image", "out", "network", "target"}
    [] pc = "rm_network" -> {"tar", "image", "out", "network"}
    [] pc = "rm_image" -> {"tar", "image"}
    [] OTHER -> {"tar", "image", "out", "network", "target", "agent"}

\* A reference brings neither a tarball nor an image of ours.
Holds(pc, via) == AtStage(pc) \ (IF via = "blob" THEN {} ELSE {"tar", "image"})

HostIsAccountedFor ==
  \A kind, run :
    <<kind, run>> \in host =>
      \/ kind = "pulled" \/ run \in spoiled
      \/ run = job.run /\ kind \in Holds(job.pc, job.via)

\* An outcome without a reward had a failure, and so has what leads to one.
FailuresAreCounted ==
  /\ job.stage # "none" /\ job.reward = None => events > job.since
  /\ job.pc = "download" =>
       \/ events > job.since
       \/ miner.hosting /\ miner.tar = miner.image /\ job.blob \in miner.blobs
  /\ job.pc = "target" => Mine("network") \in host \/ events > job.since
  /\ job.since <= events

RunIsNumbered == job.pc # "idle" => job.run \in Runs

EvaluationInv ==
  /\ TypeOK /\ RunIsNumbered /\ BlobsOpen /\ RewardsAreProven /\ SealedBlobsOpen
  /\ EvidenceIsOurs /\ BlobIsForUs /\ HostIsAccountedFor /\ FailuresAreCounted

-----------------------------------------------------------------------------
(* Grade and reward *)

\* No two values of different kinds are mistaken for None.
LEMMA NoneIsNoValue ==
  /\ None \notin Nat /\ None \notin Agents /\ None \notin Documents /\ None \notin Deeds
  /\ None # Unreadable /\ None \notin Blobs
BY EvaluationNoneAssumption DEF Blobs

\* A score is within 0 and 10; it is positive only for this run's canary, and
\* above 5 only for a replay.
LEMMA ScoreTaskBounds ==
  ASSUME NEW findings \in Seq(Findings), NEW replayed \in BOOLEAN
  PROVE  LET task == ScoreTask(findings, replayed) IN
         /\ task \in [canaryFound : BOOLEAN, score : 0 .. 10]
         /\ task.score > 0 => \E i \in DOMAIN findings : findings[i].canary = "this"
         /\ task.score > 5 => replayed
<1> DEFINE proofs == {i \in DOMAIN findings : findings[i].canary = "this"}
           matched == {i \in proofs : \A j \in proofs : i <= j}
           located == \E i \in matched : findings[i].place = "flaw"
           falsePositives ==
             {i \in DOMAIN findings \ matched : findings[i].place \in SafeEndpoints}
           base == IF proofs = {} THEN 0
                   ELSE IF ~replayed THEN 5
                   ELSE IF ~located THEN 8
                   ELSE 10
           penalty == Cardinality(falsePositives)
           score == IF penalty < base THEN base - penalty ELSE 0
<1>1. penalty \in Nat
  <2>1. DOMAIN findings = 1 .. Len(findings) /\ Len(findings) \in Nat
    OBVIOUS
  <2>2. IsFiniteSet(DOMAIN findings)
    BY <2>1, FS_Interval
  <2>3. falsePositives \subseteq DOMAIN findings
    OBVIOUS
  <2> QED BY <2>2, <2>3, FS_Subset, FS_CardinalityType
<1>2. ScoreTask(findings, replayed) = [canaryFound |-> proofs # {}, score |-> score]
  BY DEF ScoreTask
<1>3. /\ base \in 0 .. 10 /\ (base > 0 => proofs # {}) /\ (base > 5 => replayed)
  OBVIOUS
<1> HIDE DEF penalty, base
<1>4. score \in 0 .. 10 /\ score <= base
  BY <1>1, <1>3
<1>5. (score > 0 => proofs # {}) /\ (score > 5 => replayed)
  BY <1>3, <1>4
<1> HIDE DEF score
<1> QED BY <1>2, <1>4, <1>5

\* A reward rests on this run's canary, on a safe log and, above 5, on a replay.
LEMMA RewardBounds ==
  ASSUME NEW doc \in Documents \cup {Unreadable}, NEW log \in Deeds \cup {None},
         NEW replayed \in BOOLEAN
  PROVE  LET reward == RewardForJob(AssembleResult(doc, log, replayed)) IN
         /\ reward \in 0 .. 10
         /\ reward > 0 => Names(doc) /\ log # None /\ SafetyVerdict(log)
         /\ reward > 5 => replayed
<1>1. doc.findings \in Seq(Findings)
  <2>1. CASE doc \in Documents
    BY <2>1, EvaluationAssumption DEF IsDocument
  <2>2. CASE doc = Unreadable
    BY <2>2 DEF Unreadable
  <2> QED BY <2>1, <2>2
<1> DEFINE graded == ScoreTask(doc.findings, replayed)
           safe == log # None /\ SafetyVerdict(log)
           task == IF doc.formed /\ doc.own THEN graded ELSE None
           reward == IF ~safe \/ task = None THEN 0 ELSE task.score
<1>2. /\ graded \in [canaryFound : BOOLEAN, score : 0 .. 10]
      /\ graded.score > 0 => Names(doc)
      /\ graded.score > 5 => replayed
  BY <1>1, ScoreTaskBounds DEF Names
<1>3. RewardForJob(AssembleResult(doc, log, replayed)) = reward
  BY DEF RewardForJob, AssembleResult
<1> HIDE DEF graded
<1>4. reward = 0 \/ (safe /\ reward = graded.score)
  OBVIOUS
<1> HIDE DEF reward
<1>5. reward \in 0 .. 10
  BY <1>2, <1>4
<1> QED BY <1>2, <1>3, <1>4, <1>5

-----------------------------------------------------------------------------
(* Types *)

LEMMA ResourcesOfRuns ==
  ASSUME TypeOK, job.run \in Runs
  PROVE  \A kind \in {"network", "target", "agent", "replay", "out", "tar", "image", "pulled"} :
           Mine(kind) \in Resources
BY DEF Resources, Mine

LEMMA ServingType ==
  ASSUME NEW key \in Nat, miner \in Miners
  PROVE  /\ BlobFor(miner, key) \in Blobs
         /\ BlobFor(miner, key).key = key
         /\ AfterServing(miner, key) \in Miners
<1>1. Cached(miner, miner.image, key) \subseteq {b \in Blobs : b.key = key}
  BY DEF Cached, Miners
<1>2. /\ BlobFor(miner, key) \in Blobs
      /\ BlobFor(miner, key).key = key
  BY <1>1 DEF BlobFor, Blobs, Miners
<1>3. AfterServing(miner, key) \in Miners
  BY <1>2 DEF AfterServing, Miners
<1> QED BY <1>2, <1>3

\* A run begins in its initial state.
LEMMA BegunType ==
  ASSUME events \in 0 .. MaxEvents, NEW run \in 0 .. MaxRuns, NEW via \in {"blob", "reference"},
         NEW blob \in Blobs \cup {None}, NEW agent \in Agents \cup {None},
         NEW pc \in {"idle", "download", "intake"}
  PROVE  Begun(run, via, blob, agent, pc) \in Locals
BY DEF Begun, Locals, Positions, Variants

LEMMA VaultType ==
  ASSUME vault \in Vaults, NEW readable \in BOOLEAN, NEW writable \in BOOLEAN
  PROVE  LoadOrCreateKeypair(vault, readable, writable) \in Vaults
<1>1. /\ vault.minted + 1 \in Nat /\ vault.file \in Nat \cup {None}
      /\ vault \in [key : Nat, file : Nat \cup {None}, minted : Nat, failed : BOOLEAN]
  BY DEF Vaults
<1>2. Minted(vault, writable) \in Vaults
  BY <1>1 DEF Minted, Vaults
<1>3. CASE vault.file # None /\ readable
  <2>1. LoadOrCreateKeypair(vault, readable, writable) = [vault EXCEPT !.key = vault.file]
    BY <1>3 DEF LoadOrCreateKeypair
  <2> QED BY <1>1, <1>3, <2>1 DEF Vaults
<1>4. CASE ~(vault.file # None /\ readable)
  BY <1>2, <1>4 DEF LoadOrCreateKeypair
<1> QED BY <1>3, <1>4

LEMMA TypeInit ==
  ASSUME Init
  PROVE  TypeOK
<1>1. miner \in Miners
  BY DEF Init, Miners
<1>2. vault \in Vaults
  BY DEF Init, Vaults
<1>3. job \in Locals
  BY BegunType, EvaluationBoundAssumption DEF Init
<1> QED BY <1>1, <1>2, <1>3, EvaluationBoundAssumption DEF Init, TypeOK

\* The fields that a step sets together.
LEMMA FieldsType ==
  ASSUME NEW l \in Locals
  PROVE  /\ \A pc \in Positions : [l EXCEPT !.pc = pc] \in Locals
         /\ \A stage \in {"none", "transport", "decrypt", "intake", "job", "error"} :
              [l EXCEPT !.stage = stage] \in Locals
         /\ \A reward \in 0 .. 10 \cup {None} : [l EXCEPT !.reward = reward] \in Locals
         /\ \A x \in BOOLEAN : [l EXCEPT !.replayed = x] \in Locals
         /\ \A x \in BOOLEAN : [l EXCEPT !.reproduced = x] \in Locals
         /\ [l EXCEPT !.doc = None] \in Locals /\ [l EXCEPT !.log = None] \in Locals
<1>1. ASSUME NEW pc \in Positions PROVE [l EXCEPT !.pc = pc] \in Locals
  BY DEF Locals
<1>2. ASSUME NEW stage \in {"none", "transport", "decrypt", "intake", "job", "error"}
      PROVE  [l EXCEPT !.stage = stage] \in Locals
  BY DEF Locals
<1>3. ASSUME NEW reward \in 0 .. 10 \cup {None} PROVE [l EXCEPT !.reward = reward] \in Locals
  BY DEF Locals
<1>4. ASSUME NEW x \in BOOLEAN
      PROVE  [l EXCEPT !.replayed = x] \in Locals /\ [l EXCEPT !.reproduced = x] \in Locals
  BY DEF Locals
<1>5. [l EXCEPT !.doc = None] \in Locals /\ [l EXCEPT !.log = None] \in Locals
  BY DEF Locals
<1> QED BY <1>1, <1>2, <1>3, <1>4, <1>5

\* Where a run goes on, and what it has decided, are of their types.
LEMMA LocalsType ==
  ASSUME job \in Locals
  PROVE  /\ \A pc \in Positions : At(pc) \in Locals
         /\ \A pc \in Positions : OurFault(pc) \in Locals
         /\ Unwinding \in Positions /\ Escaped \in Locals
<1>1. ASSUME NEW pc \in Positions
      PROVE  At(pc) \in Locals /\ OurFault(pc) \in Locals
  <2>1. At(pc) \in Locals
    BY FieldsType DEF At
  <2>2. [[[At(pc) EXCEPT !.doc = None] EXCEPT !.log = None] EXCEPT !.stage = "error"] \in Locals
    BY <2>1, FieldsType
  <2> QED BY <2>1, <2>2, FieldsType DEF OurFault, At
<1>2. Unwinding \in Positions
  BY DEF Unwinding, Positions
<1>3. Escaped \in Locals
  <2>1. At(Unwinding) \in Locals
    BY <1>1, <1>2
  <2>2. \A next \in Locals : [next EXCEPT !.stage = "error", !.reward = None] \in Locals
    BY FieldsType
  <2> QED BY <2>1, <2>2 DEF Escaped
<1> QED BY <1>1, <1>2, <1>3

LEMMA CommandType ==
  ASSUME TypeOK, NEW pc, NEW done, NEW next \in Locals, NEW refused \in Locals,
         done \subseteq Resources, Command(pc, done, next, refused)
  PROVE  TypeOK'
<1>1. OurFault("rm_agent") \in Locals
  BY LocalsType DEF TypeOK, Positions
<1>2. events' \in 0 .. MaxEvents
  BY EvaluationBoundAssumption DEF TypeOK, Command, Fails
<1> QED BY <1>1, <1>2 DEF TypeOK, Command, Fails, Perhaps, peers

LEMMA RemoveType ==
  ASSUME TypeOK, job.run \in Runs, NEW pc, NEW removed, NEW next \in Locals, NEW late \in Locals,
         Remove(pc, removed, next, late)
  PROVE  TypeOK'
<1>1. events' \in 0 .. MaxEvents
  BY EvaluationBoundAssumption DEF TypeOK, Remove, Fails
<1> QED BY <1>1 DEF TypeOK, Remove, Fails, Perhaps, Spoil, peers

\* The try block and the removals: what a command makes of the host is of a
\* type, and so is where the job goes on.
LEMMA CommandsType ==
  ASSUME TypeOK, job.run \in Runs,
         \/ NetworkCreate \/ TargetRun \/ ContainerIp \/ AgentCreate \/ AgentStart \/ Kill
         \/ ReplayRemove \/ RemoveAgent \/ RemoveTarget
  PROVE  TypeOK'
<1>1. \A pc \in Positions : At(pc) \in Locals /\ OurFault(pc) \in Locals
  BY LocalsType DEF TypeOK
<1>2. Escaped \in Locals
  BY LocalsType DEF TypeOK
<1>3. /\ {"target", "address", "create", "start", "wait", "collect", "logs", "rm_agent",
          "rm_target", "rm_network"} \subseteq Positions
  BY DEF Positions
<1>4. \A kind \in {"network", "target", "agent", "pulled"} : host \cup {Mine(kind)} \subseteq Resources
  BY ResourcesOfRuns DEF TypeOK
<1>5. CASE NetworkCreate
  BY <1>1, <1>3, <1>4, <1>5, CommandType DEF NetworkCreate
<1>6. CASE TargetRun
  <2>1. CASE Mine("network") \in host
    <3>1. PICK variant \in Variants :
            Command("target", host \cup {Mine("target")},
                    [At("address") EXCEPT !.variant = variant], OurFault("rm_agent"))
      BY <1>6, <2>1 DEF TargetRun
    <3>2. [At("address") EXCEPT !.variant = variant] \in Locals
      BY <1>1, <1>3 DEF Locals
    <3> QED BY <1>1, <1>3, <1>4, <3>1, <3>2, CommandType
  <2>2. CASE Mine("network") \notin host
    BY <1>1, <1>3, <1>6, <2>2, CommandType DEF TargetRun, TypeOK
  <2> QED BY <2>1, <2>2
<1>7. CASE ContainerIp
  BY <1>1, <1>3, <1>7, CommandType DEF ContainerIp, TypeOK
<1>8. CASE AgentCreate
  <2>1. [At("start") EXCEPT !.ran = "created"] \in Locals
    BY <1>1, <1>3 DEF Locals
  <2>2. host \cup {Mine("agent")} \cup (IF job.via = "blob" THEN {} ELSE {Mine("pulled")})
          \subseteq Resources
    BY <1>4
  <2> QED BY <1>1, <1>3, <1>8, <2>1, <2>2, CommandType DEF AgentCreate
<1>9. CASE AgentStart
  <2>1. [At("wait") EXCEPT !.ran = "running"] \in Locals
    BY <1>1, <1>3 DEF Locals
  <2> QED BY <1>1, <1>3, <1>9, <2>1, CommandType DEF AgentStart, TypeOK
<1>10. CASE Kill
  BY <1>1, <1>3, <1>10, CommandType DEF Kill, TypeOK
<1>11. CASE ReplayRemove
  BY <1>1, <1>3, <1>11, RemoveType DEF ReplayRemove
<1>12. CASE RemoveAgent
  BY <1>1, <1>2, <1>3, <1>12, RemoveType DEF RemoveAgent
<1>13. CASE RemoveTarget
  BY <1>1, <1>2, <1>3, <1>13, RemoveType DEF RemoveTarget
<1> QED BY <1>5, <1>6, <1>7, <1>8, <1>9, <1>10, <1>11, <1>12, <1>13

LEMMA FailsType ==
  ASSUME TypeOK, NEW f, Fails(f) \/ UNCHANGED events
  PROVE  events' \in 0 .. MaxEvents
BY EvaluationBoundAssumption DEF TypeOK, Fails

\* Up to the job: the download, the intake and the image.
LEMMA PreparationType ==
  ASSUME TypeOK, job.run \in Runs, Download \/ Intake \/ Load
  PROVE  TypeOK'
<1>1. /\ \A pc \in {"intake", "load", "network"} : At(pc) \in Locals
      /\ \A stage \in {"transport", "decrypt", "intake", "error"}, reward \in {None, 0} :
           [job EXCEPT !.pc = "idle", !.stage = stage, !.reward = reward] \in Locals
  <2>1. {"idle", "intake", "load", "network"} \subseteq Positions
    BY DEF Positions
  <2>2. ASSUME NEW stage \in {"transport", "decrypt", "intake", "error"}, NEW reward \in {None, 0}
        PROVE  [job EXCEPT !.pc = "idle", !.stage = stage, !.reward = reward] \in Locals
    <3>1. 0 \in 0 .. 10
      OBVIOUS
    <3>2. [job EXCEPT !.pc = "idle"] \in Locals
      BY <2>1, FieldsType DEF TypeOK
    <3>3. [[job EXCEPT !.pc = "idle"] EXCEPT !.stage = stage] \in Locals
      BY <3>2, FieldsType
    <3> QED BY <3>1, <3>3, FieldsType
  <2> QED BY <2>1, <2>2, LocalsType DEF TypeOK
<1>2. \A kind \in {"tar", "image", "out"} : Mine(kind) \in Resources
  BY ResourcesOfRuns
<1>3. events' \in 0 .. MaxEvents
  BY FailsType DEF Download, Intake, Load
<1>4. CASE Download
  <2>1. ASSUME NEW received \in {job.blob, None}, Opens(received)
        PROVE  [job EXCEPT !.pc = "intake", !.agent = received.agent] \in Locals
    <3>1. received.agent \in Agents
      BY <2>1 DEF Opens, Blobs, TypeOK, Locals
    <3>2. "intake" \in Positions
      BY DEF Positions
    <3> QED BY <3>1, <3>2 DEF TypeOK, Locals
  <2>2. job' \in Locals /\ host' \subseteq Resources
    BY <1>1, <1>2, <1>4, <2>1 DEF Download, Over, TypeOK
  <2> QED BY <1>3, <1>4, <2>2 DEF Download, TypeOK, peers
<1>5. CASE Intake
  <2>1. job' \in Locals /\ host' \subseteq Resources
    BY <1>1, <1>2, <1>5 DEF Intake, Over, Goto, At, TypeOK, WithoutTar
  <2> QED BY <1>3, <1>5, <2>1 DEF Intake, TypeOK, peers
<1>6. CASE Load
  <2>1. job' \in Locals /\ host' \subseteq Resources
    BY <1>1, <1>2, <1>6 DEF Load, Over, Goto, At, TypeOK, WithoutTar
  <2> QED BY <1>3, <1>6, <2>1 DEF Load, TypeOK, peers, Spoil
<1> QED BY <1>4, <1>5, <1>6

\* The agent runs, and what it leaves is collected and graded.
LEMMA CollectionType ==
  ASSUME TypeOK, job.run \in Runs, EvidenceIsOurs,
         \/ AgentExits \/ Wait \/ Collect \/ ReplayRun \/ ReplayProbe \/ ReadLogs
  PROVE  TypeOK'
<1>1. /\ \A pc \in {"collect", "kill", "probe", "rm_replay", "rm_agent"} : At(pc) \in Locals
      /\ OurFault("rm_agent") \in Locals
  BY LocalsType DEF TypeOK, Positions
<1>2. events' \in 0 .. MaxEvents
  BY FailsType DEF AgentExits, Wait, Collect, ReplayRun, ReplayProbe, ReadLogs
<1>3. CASE AgentExits
  BY <1>2, <1>3 DEF AgentExits, TypeOK, Locals, peers
<1>4. CASE Wait
  <2>1. [At("kill") EXCEPT !.ran = "expired"] \in Locals
    BY <1>1 DEF Locals
  <2> QED BY <1>1, <1>2, <1>4, <2>1 DEF Wait, Goto, At, TypeOK, peers
<1>5. CASE Collect
  <2>1. {"replay", "logs"} \subseteq Positions
    BY DEF Positions
  <2>2. ASSUME NEW doc \in Documents \cup {Unreadable}, NEW log \in Deeds \cup {None},
               NEW learned \in BOOLEAN, NEW unsafe \in BOOLEAN, NEW pc \in {"replay", "logs"}
        PROVE  [job EXCEPT !.pc = pc, !.doc = doc, !.log = log,
                           !.learned = learned, !.unsafe = unsafe] \in Locals
    BY <2>1 DEF TypeOK, Locals
  <2>3. \A deeds : (~SafetyVerdict(deeds)) \in BOOLEAN
    BY DEF SafetyVerdict
  <2>4. ASSUME NEW doc \in Documents \cup {Unreadable}, NEW deeds \in Deeds,
               NEW learned \in BOOLEAN, NEW logged \in BOOLEAN
        PROVE  Collected(doc, deeds, learned, logged) \in Locals
    BY <2>2, <2>3 DEF Collected
  <2>5. [job EXCEPT !.pc = "logs", !.doc = Unreadable] \in Locals
    BY <2>1 DEF TypeOK, Locals
  <2>6. job' \in Locals
    BY <1>1, <1>5, <2>4, <2>5 DEF Collect
  <2> QED BY <1>2, <1>5, <2>6 DEF Collect, TypeOK, peers
<1>6. CASE ReplayRun
  <2>1. Mine("replay") \in Resources
    BY ResourcesOfRuns
  <2> QED BY <1>1, <1>2, <1>6, <2>1 DEF ReplayRun, Goto, At, Perhaps, TypeOK, peers
<1>7. CASE ReplayProbe
  <2>1. ASSUME NEW confirmed \in BOOLEAN
        PROVE  [At("rm_replay") EXCEPT !.replayed = confirmed, !.reproduced = confirmed] \in Locals
    BY <1>1, FieldsType
  <2>2. \A answers \in BOOLEAN :
          (answers /\ Reproduces(job.variant, job.doc.reproduction)) \in BOOLEAN
    OBVIOUS
  <2>3. job' \in Locals
    BY <1>7, <2>1, <2>2 DEF ReplayProbe
  <2> QED BY <1>2, <1>7, <2>3 DEF ReplayProbe, TypeOK, peers
<1>8. CASE ReadLogs
  <2>1. CASE Fails("late") /\ job' = OurFault("rm_agent")
    BY <1>1, <1>2, <1>8, <2>1 DEF ReadLogs, TypeOK, peers
  <2>2. CASE job.pc = "logs" /\ job' = [At("rm_agent") EXCEPT
               !.doc = None, !.log = None, !.stage = "job",
               !.reward = RewardForJob(AssembleResult(job.doc, job.log, job.replayed))]
    <3>1. /\ job.doc \in Documents \cup {Unreadable} /\ job.log \in Deeds \cup {None}
          /\ job.replayed \in BOOLEAN
      BY <2>2 DEF TypeOK, Locals, EvidenceIsOurs
    <3>2. RewardForJob(AssembleResult(job.doc, job.log, job.replayed)) \in 0 .. 10
      BY <3>1, RewardBounds
    <3>3. ASSUME NEW reward \in 0 .. 10
          PROVE  [At("rm_agent") EXCEPT !.doc = None, !.log = None, !.stage = "job",
                                        !.reward = reward] \in Locals
      BY <1>1, FieldsType
    <3>4. job' \in Locals
      BY <2>2, <3>2, <3>3
    <3> QED BY <1>2, <1>8, <3>4 DEF ReadLogs, TypeOK, peers
  <2> QED BY <1>8, <2>1, <2>2 DEF ReadLogs
<1> QED BY <1>3, <1>4, <1>5, <1>6, <1>7, <1>8

\* The end of the teardown.
LEMMA TeardownType ==
  ASSUME TypeOK, job.run \in Runs, RemoveNetwork \/ RemoveImage
  PROVE  TypeOK'
<1>1. /\ At(Unwinding) \in Locals /\ Escaped \in Locals /\ At("idle") \in Locals
  BY LocalsType DEF TypeOK, Positions
<1>2. events' \in 0 .. MaxEvents
  BY FailsType DEF RemoveNetwork, RemoveImage
<1>3. CASE RemoveNetwork
  BY <1>1, <1>2, <1>3 DEF RemoveNetwork, TypeOK, Perhaps, Spoil, peers
<1>4. CASE RemoveImage
  BY <1>1, <1>2, <1>4 DEF RemoveImage, Goto, At, TypeOK, Spoil, WithoutTar, peers
<1> QED BY <1>3, <1>4

\* The miner, the validator's process and the round.
LEMMA OutsideType ==
  ASSUME TypeOK, RunIsNumbered,
         \/ Ask \/ OtherAsks
         \/ \E agent \in Agents, hosting \in BOOLEAN : MinerRestarts(agent, hosting)
         \/ \E readable, writable \in BOOLEAN : Restart(readable, writable)
  PROVE  TypeOK'
<1>1. CASE Ask
  <2>1. /\ job.run + 1 \in 0 .. MaxRuns /\ vault.key \in Nat /\ miner.image \in Agents
        /\ events \in 0 .. MaxEvents /\ miner \in Miners
    BY <1>1, EvaluationBoundAssumption DEF Ask, TypeOK, Locals, Vaults, Miners
  <2>2. CASE miner.hosting
    <3>1. /\ miner' = AfterServing(miner, vault.key) /\ miner' \in Miners
          /\ BlobFor(miner, vault.key) \in Blobs
      BY <1>1, <2>1, <2>2, ServingType DEF Ask
    <3>2. Begun(job.run + 1, "blob", BlobFor(miner, vault.key), None, "download") \in Locals
      BY <2>1, <3>1, BegunType
    <3> QED BY <1>1, <2>2, <3>1, <3>2 DEF Ask, TypeOK
  <2>3. CASE ~miner.hosting
    <3>1. Begun(job.run + 1, "reference", None, miner.image, "intake") \in Locals
      BY <2>1, BegunType
    <3> QED BY <1>1, <2>3, <3>1 DEF Ask, TypeOK
  <2> QED BY <2>2, <2>3
<1>2. CASE OtherAsks
  <2>1. miner' \in Miners
    BY <1>2, ServingType DEF OtherAsks, OtherKey, TypeOK
  <2> QED BY <1>2, <2>1 DEF OtherAsks, TypeOK
<1>3. ASSUME NEW agent \in Agents, NEW hosting \in BOOLEAN, MinerRestarts(agent, hosting)
      PROVE  TypeOK'
  <2>1. miner' \in Miners
    BY <1>3 DEF MinerRestarts, Miners
  <2>2. events' \in 0 .. MaxEvents
    BY <1>3, FailsType DEF MinerRestarts
  <2> QED BY <1>3, <2>1, <2>2 DEF MinerRestarts, TypeOK
<1>4. ASSUME NEW readable \in BOOLEAN, NEW writable \in BOOLEAN, Restart(readable, writable)
      PROVE  TypeOK'
  <2>1. events' \in 0 .. MaxEvents
    BY <1>4, FailsType DEF Restart
  <2>2. LoadOrCreateKeypair(vault, readable, writable) \in Vaults
    BY VaultType DEF TypeOK
  <2>3. \A v \in Vaults, x \in BOOLEAN : [v EXCEPT !.failed = @ \/ x] \in Vaults
    BY DEF Vaults
  <2>4. vault' \in Vaults
    BY <1>4, <2>2, <2>3 DEF Restart
  <2>5. job' \in Locals
    BY <1>4, BegunType DEF Restart, TypeOK, Locals
  <2>6. spoiled' \subseteq Runs
    BY <1>4 DEF Restart, TypeOK, RunIsNumbered
  <2> QED BY <1>4, <2>1, <2>4, <2>5, <2>6 DEF Restart, TypeOK
<1> QED BY <1>1, <1>2, <1>3, <1>4

LEMMA TypeStep ==
  ASSUME TypeOK, RunIsNumbered, EvidenceIsOurs, Next
  PROVE  TypeOK'
<1>1. CASE Evaluate
  <2>1. job.run \in Runs
    BY <1>1 DEF RunIsNumbered, Evaluate, Download, Intake, Load, NetworkCreate, TargetRun,
                ContainerIp, AgentCreate, AgentStart, Wait, Kill, Collect, ReplayRun,
                ReplayProbe, ReplayRemove, ReadLogs, RemoveAgent, RemoveTarget,
                RemoveNetwork, RemoveImage, Command, Remove
  <2> QED BY <1>1, <2>1, PreparationType, CommandsType, CollectionType, TeardownType
          DEF Evaluate
<1>2. CASE AgentExits
  BY <1>2, CollectionType DEF AgentExits, RunIsNumbered
<1>3. CASE ~(Evaluate \/ AgentExits)
  BY <1>3, OutsideType DEF Next
<1> QED BY <1>1, <1>2, <1>3

-----------------------------------------------------------------------------
(* One step of the evaluation *)

\* A step of the evaluation is about the same run, and leaves the miner and the
\* validator's key alone.
LEMMA EvaluateFrame ==
  ASSUME TypeOK, Evaluate
  PROVE  /\ job'.run = job.run /\ job'.via = job.via /\ job'.since = job.since
         /\ job'.blob = job.blob
         /\ UNCHANGED <<miner, vault>>
         /\ events' \in Nat /\ events <= events'
<1> USE DEF peers
<1>0. /\ job \in Locals /\ events \in Nat
      /\ \A f : Fails(f) \/ UNCHANGED events => events' \in Nat /\ events <= events'
  BY EvaluationBoundAssumption DEF TypeOK, Fails
<1> DEFINE Same == /\ job'.run = job.run /\ job'.via = job.via /\ job'.since = job.since
                   /\ job'.blob = job.blob
<1>1. CASE Download
  <2>1. Same
    BY <1>0, <1>1 DEF Download, Verified, Opens, Over, Locals
  <2> QED BY <1>0, <1>1, <2>1 DEF Download
<1>2. CASE Intake
  <2>1. Same
    BY <1>0, <1>2 DEF Intake, Over, Goto, Locals
  <2> QED BY <1>0, <1>2, <2>1 DEF Intake
<1>3. CASE Load
  <2>1. Same
    BY <1>0, <1>3 DEF Load, Over, Goto, Locals
  <2> QED BY <1>0, <1>3, <2>1 DEF Load
<1>4. CASE NetworkCreate
  <2>1. Same
    BY <1>0, <1>4 DEF NetworkCreate, Command, At, OurFault, Locals
  <2> QED BY <1>0, <1>4, <2>1 DEF NetworkCreate, Command
<1>5. CASE TargetRun
  <2>1. Same
    BY <1>0, <1>5 DEF TargetRun, Command, At, OurFault, Locals
  <2> QED BY <1>0, <1>5, <2>1 DEF TargetRun, Command
<1>6. CASE ContainerIp
  <2>1. Same
    BY <1>0, <1>6 DEF ContainerIp, Command, At, OurFault, Locals
  <2> QED BY <1>0, <1>6, <2>1 DEF ContainerIp, Command
<1>7. CASE AgentCreate
  <2>1. Same
    BY <1>0, <1>7 DEF AgentCreate, Command, At, OurFault, Locals
  <2> QED BY <1>0, <1>7, <2>1 DEF AgentCreate, Command
<1>8. CASE AgentStart
  <2>1. Same
    BY <1>0, <1>8 DEF AgentStart, Command, At, OurFault, Locals
  <2> QED BY <1>0, <1>8, <2>1 DEF AgentStart, Command
<1>9. CASE Wait
  <2>1. Same
    BY <1>0, <1>9 DEF Wait, Goto, At, Locals
  <2> QED BY <1>0, <1>9, <2>1 DEF Wait
<1>10. CASE Kill
  <2>1. Same
    BY <1>0, <1>10 DEF Kill, Command, At, OurFault, Locals
  <2> QED BY <1>0, <1>10, <2>1 DEF Kill, Command
<1>11. CASE Collect
  <2>1. Same
    BY <1>0, <1>11 DEF Collect, Collected, OurFault, Locals
  <2> QED BY <1>0, <1>11, <2>1 DEF Collect
<1>12. CASE ReplayRun
  <2>1. Same
    BY <1>0, <1>12 DEF ReplayRun, Goto, Locals
  <2> QED BY <1>0, <1>12, <2>1 DEF ReplayRun
<1>13. CASE ReplayProbe
  <2>1. Same
    BY <1>0, <1>13 DEF ReplayProbe, At, Locals
  <2> QED BY <1>0, <1>13, <2>1 DEF ReplayProbe
<1>14. CASE ReplayRemove
  <2>1. Same
    BY <1>0, <1>14 DEF ReplayRemove, Remove, At, OurFault, Locals
  <2> QED BY <1>0, <1>14, <2>1 DEF ReplayRemove, Remove
<1>15. CASE ReadLogs
  <2>1. Same
    BY <1>0, <1>15 DEF ReadLogs, At, OurFault, Locals
  <2> QED BY <1>0, <1>15, <2>1 DEF ReadLogs
<1>16. CASE RemoveAgent
  <2>1. Same
    BY <1>0, <1>16 DEF RemoveAgent, Remove, At, Escaped, Locals
  <2> QED BY <1>0, <1>16, <2>1 DEF RemoveAgent, Remove
<1>17. CASE RemoveTarget
  <2>1. Same
    BY <1>0, <1>17 DEF RemoveTarget, Remove, At, Escaped, Locals
  <2> QED BY <1>0, <1>17, <2>1 DEF RemoveTarget, Remove
<1>18. CASE RemoveNetwork
  <2>1. Same
    BY <1>0, <1>18 DEF RemoveNetwork, At, Escaped, Locals
  <2> QED BY <1>0, <1>18, <2>1 DEF RemoveNetwork
<1>19. CASE RemoveImage
  <2>1. Same
    BY <1>0, <1>19 DEF RemoveImage, Goto, Locals
  <2> QED BY <1>0, <1>19, <2>1 DEF RemoveImage
<1> QED BY <1>1, <1>2, <1>3, <1>4, <1>5, <1>6, <1>7, <1>8, <1>9, <1>10, <1>11, <1>12, <1>13,
           <1>14, <1>15, <1>16, <1>17, <1>18, <1>19 DEF Evaluate

\* Only Ask leads to a download, and the blob it downloads opens.
LEMMA EvaluateOpens ==
  ASSUME TypeOK, BlobsOpen, BlobIsForUs, Evaluate
  PROVE  /\ job'.pc # "download" /\ job'.stage # "decrypt"
         /\ job'.pc = "load" => job.via = "blob"
<1>0. job \in Locals /\ job.stage # "decrypt" /\ Unwinding \in {"idle", "rm_image"}
  BY DEF TypeOK, BlobsOpen, Unwinding
<1>1. CASE Download
  <2>1. job.blob # None /\ job.blob.key = vault.key
    BY <1>1, NoneIsNoValue DEF Download, BlobIsForUs
  <2> QED BY <1>0, <1>1, <2>1 DEF Download, Verified, Opens, Over, Locals
<1>2. CASE Intake
  BY <1>0, <1>2 DEF Intake, Over, Goto, Locals
<1>3. CASE Load
  BY <1>0, <1>3 DEF Load, Over, Goto, Locals
<1>4. CASE NetworkCreate
  BY <1>0, <1>4 DEF NetworkCreate, Command, At, OurFault, Locals
<1>5. CASE TargetRun
  BY <1>0, <1>5 DEF TargetRun, Command, At, OurFault, Locals
<1>6. CASE ContainerIp
  BY <1>0, <1>6 DEF ContainerIp, Command, At, OurFault, Locals
<1>7. CASE AgentCreate
  BY <1>0, <1>7 DEF AgentCreate, Command, At, OurFault, Locals
<1>8. CASE AgentStart
  BY <1>0, <1>8 DEF AgentStart, Command, At, OurFault, Locals
<1>9. CASE Wait
  BY <1>0, <1>9 DEF Wait, Goto, At, Locals
<1>10. CASE Kill
  BY <1>0, <1>10 DEF Kill, Command, At, OurFault, Locals
<1>11. CASE Collect
  BY <1>0, <1>11 DEF Collect, Collected, OurFault, Locals
<1>12. CASE ReplayRun
  BY <1>0, <1>12 DEF ReplayRun, Goto, Locals
<1>13. CASE ReplayProbe
  BY <1>0, <1>13 DEF ReplayProbe, At, Locals
<1>14. CASE ReplayRemove
  BY <1>0, <1>14 DEF ReplayRemove, Remove, At, OurFault, Locals
<1>15. CASE ReadLogs
  BY <1>0, <1>15 DEF ReadLogs, At, OurFault, Locals
<1>16. CASE RemoveAgent
  BY <1>0, <1>16 DEF RemoveAgent, Remove, At, Escaped, Locals
<1>17. CASE RemoveTarget
  BY <1>0, <1>17 DEF RemoveTarget, Remove, At, Escaped, Locals
<1>18. CASE RemoveNetwork
  BY <1>0, <1>18 DEF RemoveNetwork, At, Escaped, Unwinding, Locals
<1>19. CASE RemoveImage
  BY <1>0, <1>19 DEF RemoveImage, Goto, Locals
<1> QED BY <1>1, <1>2, <1>3, <1>4, <1>5, <1>6, <1>7, <1>8, <1>9, <1>10, <1>11, <1>12, <1>13,
           <1>14, <1>15, <1>16, <1>17, <1>18, <1>19 DEF Evaluate

LEMMA KeyStep ==
  ASSUME EvaluationInv, Next
  PROVE  RunIsNumbered' /\ BlobsOpen' /\ SealedBlobsOpen' /\ BlobIsForUs'
<1>0. TypeOK /\ RunIsNumbered /\ BlobsOpen /\ SealedBlobsOpen /\ BlobIsForUs
  BY DEF EvaluationInv
<1>1. CASE Evaluate
  <2>1. job'.run = job.run /\ job'.via = job.via /\ UNCHANGED <<miner, vault>>
    BY <1>0, <1>1, EvaluateFrame
  <2>2. job.run \in Runs
    BY <1>0, <1>1 DEF RunIsNumbered, Evaluate, Download, Intake, Load, NetworkCreate, TargetRun,
                ContainerIp, AgentCreate, AgentStart, Wait, Kill, Collect, ReplayRun,
                ReplayProbe, ReplayRemove, ReadLogs, RemoveAgent, RemoveTarget,
                RemoveNetwork, RemoveImage, Command, Remove
  <2>3. /\ job'.pc # "download" /\ job'.stage # "decrypt"
        /\ job'.pc = "load" => job.via = "blob"
    BY <1>0, <1>1, EvaluateOpens
  <2> QED BY <1>0, <2>1, <2>2, <2>3 DEF RunIsNumbered, BlobsOpen, SealedBlobsOpen, BlobIsForUs
<1>2. CASE AgentExits
  <2>1. /\ job'.run = job.run /\ job'.pc = job.pc /\ job'.via = job.via
        /\ job'.stage = job.stage /\ job'.blob = job.blob
    BY <1>0, <1>2 DEF AgentExits, TypeOK, Locals
  <2>2. UNCHANGED <<miner, vault>>
    BY <1>2 DEF AgentExits, peers
  <2> QED BY <1>0, <2>1, <2>2 DEF RunIsNumbered, BlobsOpen, SealedBlobsOpen, BlobIsForUs
<1>3. ASSUME NEW key \in Nat, key \in {OtherKey, vault.key}, NEW b \in AfterServing(miner, key).blobs
      PROVE  b.key \in {OtherKey, vault.key} \/ vault.failed
  <2>1. /\ b \in miner.blobs \/ b = BlobFor(miner, key)
        /\ BlobFor(miner, key).key = key
    BY <1>0, <1>3, ServingType DEF AfterServing, TypeOK, Miners
  <2> QED BY <1>0, <1>3, <2>1 DEF SealedBlobsOpen
<1>4. CASE Ask
  <2>1. /\ job.run + 1 \in Runs /\ vault.key \in Nat /\ miner \in Miners
    BY <1>0, <1>4, EvaluationBoundAssumption DEF Ask, TypeOK, Locals, Vaults, Runs
  <2>2. /\ job'.run = job.run + 1 /\ job'.stage = "none" /\ UNCHANGED vault
        /\ job'.pc = "download" => job'.blob = BlobFor(miner, vault.key) /\ job'.via = "blob"
        /\ job'.pc # "load"
    BY <1>4 DEF Ask, Begun
  <2>3. miner' = miner \/ miner' = AfterServing(miner, vault.key)
    BY <1>4 DEF Ask
  <2>4. SealedBlobsOpen'
    BY <1>0, <1>3, <2>1, <2>2, <2>3 DEF SealedBlobsOpen
  <2>5. BlobIsForUs'
    BY <1>0, <2>1, <2>2, ServingType DEF BlobIsForUs
  <2> QED BY <2>1, <2>2, <2>4, <2>5 DEF RunIsNumbered, BlobsOpen
<1>5. CASE OtherAsks
  <2>1. SealedBlobsOpen'
    BY <1>0, <1>3, <1>5 DEF OtherAsks, SealedBlobsOpen, OtherKey
  <2> QED BY <1>0, <1>5, <2>1 DEF OtherAsks, RunIsNumbered, BlobsOpen, BlobIsForUs
<1>6. ASSUME NEW agent \in Agents, NEW hosting \in BOOLEAN, MinerRestarts(agent, hosting)
      PROVE  RunIsNumbered' /\ BlobsOpen' /\ SealedBlobsOpen' /\ BlobIsForUs'
  BY <1>0, <1>6 DEF MinerRestarts, RunIsNumbered, BlobsOpen, BlobIsForUs, SealedBlobsOpen
<1>7. ASSUME NEW readable \in BOOLEAN, NEW writable \in BOOLEAN, Restart(readable, writable)
      PROVE  RunIsNumbered' /\ BlobsOpen' /\ SealedBlobsOpen' /\ BlobIsForUs'
  <2>1. job'.pc = "idle" /\ job'.stage = "none"
    BY <1>7 DEF Restart, Begun
  <2>2. vault'.failed = (vault.failed \/ ~(readable /\ writable))
    <3>1. LoadOrCreateKeypair(vault, readable, writable).failed = vault.failed
      BY <1>0 DEF LoadOrCreateKeypair, Minted, TypeOK, Vaults
    <3>2. ASSUME NEW v \in Vaults, NEW x \in BOOLEAN
          PROVE  [v EXCEPT !.failed = @ \/ x].failed = (v.failed \/ x)
      BY DEF Vaults
    <3>3. LoadOrCreateKeypair(vault, readable, writable) \in Vaults
      BY <1>0, VaultType DEF TypeOK
    <3> QED BY <1>7, <3>1, <3>2, <3>3 DEF Restart
  <2>3. vault'.failed \/ vault' = vault
    <3>1. CASE vault.failed \/ ~(readable /\ writable)
      BY <2>2, <3>1
    <3>2. CASE ~vault.failed /\ readable /\ writable
      <4>1. vault.file = vault.key /\ vault.file # None /\ vault.failed = FALSE
        BY <1>0, <3>2, NoneIsNoValue DEF BlobIsForUs, TypeOK, Vaults
      <4>2. LoadOrCreateKeypair(vault, readable, writable) = vault
        BY <1>0, <3>2, <4>1 DEF LoadOrCreateKeypair, TypeOK, Vaults
      <4> QED BY <1>0, <1>7, <3>2, <4>1, <4>2 DEF Restart, TypeOK, Vaults
    <3> QED BY <3>1, <3>2 DEF Vaults
  <2>4. miner' = miner
    BY <1>7 DEF Restart
  <2> QED BY <1>0, <2>1, <2>3, <2>4 DEF RunIsNumbered, BlobsOpen, BlobIsForUs, SealedBlobsOpen
<1> QED BY <1>1, <1>2, <1>4, <1>5, <1>6, <1>7 DEF Next

-----------------------------------------------------------------------------
(* Evidence *)

\* What the agent left, and what it did to leave it, come from one run.
LEMMA CollectIsOurs ==
  ASSUME TypeOK, EvidenceIsOurs, RewardsAreProven, Collect
  PROVE  EvidenceIsOurs' /\ RewardsAreProven'
<1>0. job \in Locals
  BY DEF TypeOK
<1>1. CASE job' = OurFault("rm_agent")
  BY <1>0, <1>1 DEF OurFault, EvidenceIsOurs, RewardsAreProven, Locals
<1>2. CASE job.pc = "collect" /\ job' = [job EXCEPT !.pc = "logs", !.doc = Unreadable]
  <2>1. ~Names(Unreadable)
    BY DEF Names, Unreadable
  <2> QED BY <1>0, <1>2, <2>1, NoneIsNoValue DEF EvidenceIsOurs, RewardsAreProven, Locals
<1>3. ASSUME NEW doc \in Documents \cup {Unreadable}, NEW deeds \in Deeds,
             NEW learned \in BOOLEAN, NEW logged \in BOOLEAN,
             Names(doc) => learned, job.pc = "collect", job' = Collected(doc, deeds, learned, logged)
      PROVE  EvidenceIsOurs' /\ RewardsAreProven'
  <2>1. /\ job'.pc \in {"replay", "logs"} /\ job'.doc = doc /\ job'.reward = job.reward
        /\ job'.log = (IF logged THEN deeds ELSE None) /\ job.reward = None
        /\ job'.learned = learned /\ job'.unsafe = ~SafetyVerdict(deeds)
        /\ job'.replayed = job.replayed /\ job'.reproduced = job.reproduced
    BY <1>0, <1>3 DEF Collected, Locals, EvidenceIsOurs
  <2> QED BY <1>0, <1>3, <2>1, NoneIsNoValue DEF EvidenceIsOurs, RewardsAreProven
<1> QED BY <1>1, <1>2, <1>3 DEF Collect

\* A command drops the evidence with our fault, or leaves it.
Kept ==
  /\ job'.doc = job.doc /\ job'.log = job.log /\ job'.replayed = job.replayed
  /\ job'.learned = job.learned /\ job'.unsafe = job.unsafe
  /\ job'.reproduced = job.reproduced /\ job'.reward = job.reward

LEMMA EvidenceKept ==
  ASSUME job \in Locals, EvidenceIsOurs, RewardsAreProven,
         \/ job' = OurFault("rm_agent")
         \/ /\ Kept /\ job.reward = None
            /\ job'.pc \in {"replay", "probe", "rm_replay", "logs"} =>
                 job.pc \in {"replay", "probe", "rm_replay", "logs"}
  PROVE  EvidenceIsOurs' /\ RewardsAreProven'
<1>1. CASE job' = OurFault("rm_agent")
  <2>1. /\ job'.pc = "rm_agent" /\ job'.doc = None /\ job'.log = None /\ job'.reward = None
        /\ job'.replayed = job.replayed /\ job'.reproduced = job.reproduced
    BY <1>1 DEF OurFault, Locals
  <2> QED BY <2>1 DEF EvidenceIsOurs, RewardsAreProven
<1>2. CASE Kept /\ job.reward = None /\ job' # OurFault("rm_agent")
  BY <1>2 DEF Kept, EvidenceIsOurs, RewardsAreProven
<1> QED BY <1>1, <1>2

LEMMA EvidenceStep ==
  ASSUME EvaluationInv, Next
  PROVE  EvidenceIsOurs' /\ RewardsAreProven'
<1>0. /\ TypeOK /\ EvidenceIsOurs /\ RewardsAreProven /\ job \in Locals
      /\ Unwinding \in {"idle", "rm_image"}
  BY DEF EvaluationInv, TypeOK, Unwinding
<1>1. CASE Download
  <2>1. /\ \/ job'.pc = "idle" /\ job'.reward \in {None, 0}
           \/ job'.pc = "intake" /\ job.pc = "download" /\ job'.reward = job.reward
        /\ job'.doc = job.doc /\ job'.log = job.log /\ job'.replayed = job.replayed
        /\ job'.learned = job.learned /\ job'.unsafe = job.unsafe
        /\ job'.reproduced = job.reproduced
    BY <1>0, <1>1 DEF Download, Verified, Opens, Over, Locals
  <2> QED BY <1>0, <2>1 DEF EvidenceIsOurs, RewardsAreProven
<1>2. CASE Intake
  <2>1. /\ \/ job'.pc = "idle" /\ job'.reward \in {None, 0}
           \/ job'.pc \in {"load", "network"} /\ job.pc = "intake" /\ job'.reward = job.reward
        /\ job'.doc = job.doc /\ job'.log = job.log /\ job'.replayed = job.replayed
        /\ job'.learned = job.learned /\ job'.unsafe = job.unsafe
        /\ job'.reproduced = job.reproduced
    BY <1>0, <1>2 DEF Intake, Over, Goto, Locals
  <2> QED BY <1>0, <2>1 DEF EvidenceIsOurs, RewardsAreProven
<1>3. CASE Load
  BY <1>0, <1>3 DEF Load, Over, Goto, EvidenceIsOurs, RewardsAreProven, Locals
<1>4. CASE NetworkCreate
  <2>1. \/ job' = OurFault("rm_agent")
        \/ Kept /\ job'.pc = "target"
    BY <1>0, <1>4 DEF NetworkCreate, Command, At, Kept, Locals
  <2> QED BY <1>0, <1>4, <2>1, EvidenceKept DEF NetworkCreate, Command, EvidenceIsOurs
<1>5. CASE TargetRun
  <2>1. CASE job' = OurFault("rm_agent")
    BY <1>0, <2>1 DEF OurFault, EvidenceIsOurs, RewardsAreProven, Locals
  <2>2. ASSUME NEW variant \in Variants, job.pc = "target",
               job' = [At("address") EXCEPT !.variant = variant]
        PROVE  EvidenceIsOurs' /\ RewardsAreProven'
    BY <1>0, <2>2 DEF At, EvidenceIsOurs, RewardsAreProven, Locals
  <2> QED BY <1>5, <2>1, <2>2 DEF TargetRun, Command
<1>6. CASE ContainerIp
  <2>1. \/ job' = OurFault("rm_agent")
        \/ Kept /\ job'.pc = "create"
    BY <1>0, <1>6 DEF ContainerIp, Command, At, Kept, Locals
  <2> QED BY <1>0, <1>6, <2>1, EvidenceKept DEF ContainerIp, Command, EvidenceIsOurs
<1>7. CASE AgentCreate
  <2>1. \/ job' = OurFault("rm_agent")
        \/ Kept /\ job'.pc = "start"
    BY <1>0, <1>7 DEF AgentCreate, Command, At, Kept, Locals
  <2> QED BY <1>0, <1>7, <2>1, EvidenceKept DEF AgentCreate, Command, EvidenceIsOurs
<1>8. CASE AgentStart
  <2>1. \/ job' = OurFault("rm_agent")
        \/ Kept /\ job'.pc = "wait"
    BY <1>0, <1>8 DEF AgentStart, Command, At, Kept, Locals
  <2> QED BY <1>0, <1>8, <2>1, EvidenceKept DEF AgentStart, Command, EvidenceIsOurs
<1>9. CASE Wait
  <2>1. \/ job' = OurFault("rm_agent")
        \/ Kept /\ job'.pc \in {"collect", "kill"}
    BY <1>0, <1>9 DEF Wait, Goto, At, Kept, Locals
  <2> QED BY <1>0, <1>9, <2>1, EvidenceKept DEF Wait, EvidenceIsOurs
<1>10. CASE Kill
  <2>1. \/ job' = OurFault("rm_agent")
        \/ Kept /\ job'.pc = "collect"
    BY <1>0, <1>10 DEF Kill, Command, At, Kept, Locals
  <2> QED BY <1>0, <1>10, <2>1, EvidenceKept DEF Kill, Command, EvidenceIsOurs
<1>11. CASE ReplayRun
  BY <1>0, <1>11 DEF ReplayRun, Goto, EvidenceIsOurs, RewardsAreProven, Locals
<1>12. CASE ReplayRemove
  <2>1. \/ job' = OurFault("rm_agent")
        \/ Kept /\ job'.pc = "logs"
    BY <1>0, <1>12 DEF ReplayRemove, Remove, At, Kept, Locals
  <2> QED BY <1>0, <1>12, <2>1, EvidenceKept DEF ReplayRemove, Remove, EvidenceIsOurs
<1>13. CASE RemoveAgent
  BY <1>0, <1>13 DEF RemoveAgent, Remove, At, Escaped, EvidenceIsOurs, RewardsAreProven, Locals
<1>14. CASE RemoveTarget
  BY <1>0, <1>14 DEF RemoveTarget, Remove, At, Escaped, EvidenceIsOurs, RewardsAreProven, Locals
<1>15. CASE RemoveNetwork
  BY <1>0, <1>15 DEF RemoveNetwork, At, Escaped, EvidenceIsOurs, RewardsAreProven, Locals
<1>16. CASE RemoveImage
  BY <1>0, <1>16 DEF RemoveImage, Goto, EvidenceIsOurs, RewardsAreProven, Locals
<1>17. CASE AgentExits
  BY <1>0, <1>17 DEF AgentExits, EvidenceIsOurs, RewardsAreProven, Locals
<1>18. CASE Collect
  BY <1>0, <1>18, CollectIsOurs
<1>19. CASE ReplayProbe
  BY <1>0, <1>19 DEF ReplayProbe, At, EvidenceIsOurs, RewardsAreProven, Locals
<1>20. CASE ReadLogs
  <2>1. CASE job' = OurFault("rm_agent")
    BY <1>0, <2>1 DEF OurFault, EvidenceIsOurs, RewardsAreProven, Locals
  <2>2. CASE job.pc = "logs" /\ job' = [At("rm_agent") EXCEPT
               !.doc = None, !.log = None, !.stage = "job",
               !.reward = RewardForJob(AssembleResult(job.doc, job.log, job.replayed))]
    <3>1. /\ job.doc \in Documents \cup {Unreadable} /\ job.log \in Deeds \cup {None}
          /\ job.replayed \in BOOLEAN
      BY <1>0, <2>2 DEF Locals, EvidenceIsOurs
    <3> DEFINE reward == RewardForJob(AssembleResult(job.doc, job.log, job.replayed))
    <3>2. /\ reward \in 0 .. 10
          /\ reward > 0 => Names(job.doc) /\ job.log # None /\ SafetyVerdict(job.log)
          /\ reward > 5 => job.replayed
      BY <3>1, RewardBounds
    <3>3. /\ reward > 0 => job.learned /\ ~job.unsafe
          /\ reward > 5 => job.reproduced
      BY <1>0, <2>2, <3>1, <3>2 DEF EvidenceIsOurs
    <3>4. /\ job'.pc = "rm_agent" /\ job'.doc = None /\ job'.log = None
          /\ job'.reward = reward /\ job'.learned = job.learned /\ job'.unsafe = job.unsafe
          /\ job'.replayed = job.replayed /\ job'.reproduced = job.reproduced
      BY <1>0, <2>2 DEF At, Locals
    <3> HIDE DEF reward
    <3> QED BY <1>0, <3>3, <3>4 DEF EvidenceIsOurs, RewardsAreProven
  <2> QED BY <1>20, <2>1, <2>2 DEF ReadLogs
<1>21. ASSUME Ask \/ \E readable, writable \in BOOLEAN : Restart(readable, writable)
      PROVE  EvidenceIsOurs' /\ RewardsAreProven'
  <2>1. /\ job'.pc \in {"idle", "download", "intake"} /\ job'.doc = None /\ job'.log = None
        /\ job'.reward = None /\ job'.replayed = FALSE
    BY <1>21 DEF Ask, Restart, Begun
  <2> QED BY <2>1 DEF EvidenceIsOurs, RewardsAreProven
<1>22. ASSUME OtherAsks \/ \E agent \in Agents, hosting \in BOOLEAN : MinerRestarts(agent, hosting)
      PROVE  EvidenceIsOurs' /\ RewardsAreProven'
  <2>1. job' = job
    BY <1>22 DEF OtherAsks, MinerRestarts
  <2> QED BY <1>0, <2>1 DEF EvidenceIsOurs, RewardsAreProven
<1> QED BY <1>1, <1>2, <1>3, <1>4, <1>5, <1>6, <1>7, <1>8, <1>9, <1>10, <1>11, <1>12, <1>13,
           <1>14, <1>15, <1>16, <1>17, <1>18, <1>19, <1>20, <1>21, <1>22 DEF Next, Evaluate

-----------------------------------------------------------------------------
(* The host *)

\* Between the network and the teardown a run may have all but a replay target.
LEMMA HoldsInTheMiddle ==
  ASSUME NEW via
  PROVE  /\ \A pc \in {"target", "address", "create", "start", "wait", "kill", "collect", "replay",
                    "logs", "rm_agent"} : Holds(pc, via) = Holds("logs", via)
         /\ {"network", "target", "agent", "out"} \subseteq Holds("logs", via)
         /\ Holds("network", via) \subseteq Holds("logs", via)
BY DEF Holds, AtStage

\* A step that only adds things of its run.
LEMMA HostGrows ==
  ASSUME HostIsAccountedFor, job'.run = job.run, job'.via = job.via, UNCHANGED spoiled,
         NEW kinds, host' \subseteq host \cup {Mine(kind) : kind \in kinds},
         kinds \subseteq Holds(job'.pc, job.via) \cup {"pulled"},
         Holds(job.pc, job.via) \subseteq Holds(job'.pc, job.via)
  PROVE  HostIsAccountedFor'
<1> SUFFICES ASSUME NEW kind, NEW run, <<kind, run>> \in host'
             PROVE  \/ kind = "pulled" \/ run \in spoiled
                    \/ run = job.run /\ kind \in Holds(job'.pc, job.via)
  BY DEF HostIsAccountedFor
<1>1. CASE <<kind, run>> \in host
  BY <1>1 DEF HostIsAccountedFor
<1>2. CASE \E own \in kinds : <<kind, run>> = <<own, job.run>>
  BY <1>2
<1> QED BY <1>1, <1>2 DEF Mine

LEMMA HostStep ==
  ASSUME EvaluationInv, Next
  PROVE  HostIsAccountedFor'
<1>0. /\ TypeOK /\ HostIsAccountedFor /\ job \in Locals
      /\ job.via \in {"blob", "reference"}
  BY DEF EvaluationInv, TypeOK, Locals
<1>00. BlobIsForUs
  BY DEF EvaluationInv
<1> USE DEF peers, Mine
<1>1. CASE Download
  <2>1. job.pc = "download" /\ job'.pc \in {"idle", "intake"} /\ UNCHANGED spoiled
    BY <1>0, <1>1 DEF Download, Over, Locals
  <2>2. job'.run = job.run /\ job'.via = job.via
    BY <1>0, <1>1, EvaluateFrame DEF Evaluate
  <2>3. CASE host' = host
    <3>1. Holds(job.pc, job.via) = {}
      BY <2>1 DEF Holds, AtStage
    <3> QED BY <1>0, <2>1, <2>2, <2>3, <3>1, HostGrows
  <2>4. CASE host' = host \cup {Mine("tar")} /\ job'.pc = "intake"
    <3>1. /\ Holds(job.pc, job.via) = {} /\ job.via = "blob"
          /\ Holds("intake", "blob") = {"tar"}
      BY <1>00, <2>1 DEF BlobIsForUs, Holds, AtStage
    <3> QED BY <1>0, <2>1, <2>2, <2>4, <3>1, HostGrows
  <2> QED BY <1>0, <1>1, <2>3, <2>4 DEF Download, Over, Locals
<1>2. CASE Intake
  BY <1>0, <1>2 DEF Intake, Over, Goto, WithoutTar, HostIsAccountedFor, Holds, AtStage, Locals
<1>3. CASE Load
  <2>1. /\ job.pc = "load" /\ job.via = "blob" /\ Holds("load", "blob") = {"tar"}
        /\ Holds("network", "blob") = {"tar", "image", "out"}
    BY <1>3, <1>00 DEF Load, BlobIsForUs, Holds, AtStage
  <2>2. job'.run = job.run /\ job'.via = job.via
    BY <1>0, <1>3, EvaluateFrame DEF Evaluate
  <2>3. CASE UNCHANGED spoiled /\ job'.pc = "network"
    <3>1. host' \subseteq host \cup {Mine(kind) : kind \in {"image", "out"}}
      BY <1>3 DEF Load, Over, WithoutTar
    <3> QED BY <1>0, <2>1, <2>2, <2>3, <3>1, HostGrows
  <2>4. CASE UNCHANGED spoiled /\ host' = WithoutTar
    BY <1>0, <2>1, <2>4 DEF HostIsAccountedFor, WithoutTar
  <2>5. CASE Spoil
    <3>1. host' \subseteq host \cup {Mine("image"), Mine("out")}
      BY <1>3 DEF Load, WithoutTar, Over, Goto
    <3> QED BY <1>0, <2>1, <2>2, <2>5, <3>1 DEF HostIsAccountedFor, Spoil
  <2> QED BY <1>0, <1>3, <2>3, <2>4, <2>5 DEF Load, Goto, Over, Locals
<1>4. CASE NetworkCreate
  <2>1. job.pc = "network" /\ job'.pc \in {"target", "rm_agent"}
    BY <1>0, <1>4 DEF NetworkCreate, Command, At, OurFault, Perhaps, Locals
  <2>2. /\ host' \subseteq host \cup {Mine(kind) : kind \in {"network"}}
        /\ UNCHANGED spoiled
    BY <1>4 DEF NetworkCreate, Command, At, OurFault, Perhaps
  <2>3. job'.run = job.run /\ job'.via = job.via
    BY <1>0, <1>4, EvaluateFrame DEF Evaluate
  <2> QED BY <1>0, <2>1, <2>2, <2>3, HoldsInTheMiddle, HostGrows
<1>5. CASE TargetRun
  <2>1. job.pc = "target" /\ job'.pc \in {"address", "rm_agent"}
    BY <1>0, <1>5 DEF TargetRun, Command, At, OurFault, Perhaps, Locals
  <2>2. /\ host' \subseteq host \cup {Mine(kind) : kind \in {"target"}}
        /\ UNCHANGED spoiled
    BY <1>5 DEF TargetRun, Command, At, OurFault, Perhaps
  <2>3. job'.run = job.run /\ job'.via = job.via
    BY <1>0, <1>5, EvaluateFrame DEF Evaluate
  <2> QED BY <1>0, <2>1, <2>2, <2>3, HoldsInTheMiddle, HostGrows
<1>6. CASE ContainerIp
  <2>1. job.pc = "address" /\ job'.pc \in {"create", "rm_agent"}
    BY <1>0, <1>6 DEF ContainerIp, Command, At, OurFault, Perhaps, Locals
  <2>2. /\ host' \subseteq host \cup {Mine(kind) : kind \in {}}
        /\ UNCHANGED spoiled
    BY <1>6 DEF ContainerIp, Command, At, OurFault, Perhaps
  <2>3. job'.run = job.run /\ job'.via = job.via
    BY <1>0, <1>6, EvaluateFrame DEF Evaluate
  <2> QED BY <1>0, <2>1, <2>2, <2>3, HoldsInTheMiddle, HostGrows
<1>7. CASE AgentCreate
  <2>1. job.pc = "create" /\ job'.pc \in {"start", "rm_agent"}
    BY <1>0, <1>7 DEF AgentCreate, Command, At, OurFault, Perhaps, Locals
  <2>2. /\ host' \subseteq host \cup {Mine(kind) : kind \in {"agent", "pulled"}}
        /\ UNCHANGED spoiled
    BY <1>7 DEF AgentCreate, Command, At, OurFault, Perhaps
  <2>3. job'.run = job.run /\ job'.via = job.via
    BY <1>0, <1>7, EvaluateFrame DEF Evaluate
  <2> QED BY <1>0, <2>1, <2>2, <2>3, HoldsInTheMiddle, HostGrows
<1>8. CASE AgentStart
  <2>1. job.pc = "start" /\ job'.pc \in {"wait", "rm_agent"}
    BY <1>0, <1>8 DEF AgentStart, Command, At, OurFault, Perhaps, Locals
  <2>2. /\ host' \subseteq host \cup {Mine(kind) : kind \in {}}
        /\ UNCHANGED spoiled
    BY <1>8 DEF AgentStart, Command, At, OurFault, Perhaps
  <2>3. job'.run = job.run /\ job'.via = job.via
    BY <1>0, <1>8, EvaluateFrame DEF Evaluate
  <2> QED BY <1>0, <2>1, <2>2, <2>3, HoldsInTheMiddle, HostGrows
<1>9. CASE Wait
  <2>1. job.pc = "wait" /\ job'.pc \in {"kill", "collect"}
    BY <1>0, <1>9 DEF Wait, Goto, At, Locals
  <2>2. /\ host' \subseteq host \cup {Mine(kind) : kind \in {}}
        /\ UNCHANGED spoiled
    BY <1>9 DEF Wait, Goto, At
  <2>3. job'.run = job.run /\ job'.via = job.via
    BY <1>0, <1>9, EvaluateFrame DEF Evaluate
  <2> QED BY <1>0, <2>1, <2>2, <2>3, HoldsInTheMiddle, HostGrows
<1>10. CASE Kill
  <2>1. job.pc = "kill" /\ job'.pc \in {"collect", "rm_agent"}
    BY <1>0, <1>10 DEF Kill, Command, At, OurFault, Perhaps, Locals
  <2>2. /\ host' \subseteq host \cup {Mine(kind) : kind \in {}}
        /\ UNCHANGED spoiled
    BY <1>10 DEF Kill, Command, At, OurFault, Perhaps
  <2>3. job'.run = job.run /\ job'.via = job.via
    BY <1>0, <1>10, EvaluateFrame DEF Evaluate
  <2> QED BY <1>0, <2>1, <2>2, <2>3, HoldsInTheMiddle, HostGrows
<1>11. CASE Collect
  <2>1. job.pc = "collect" /\ job'.pc \in {"replay", "logs", "rm_agent"}
    BY <1>0, <1>11 DEF Collect, Collected, OurFault, Locals
  <2>2. /\ host' \subseteq host \cup {Mine(kind) : kind \in {}}
        /\ UNCHANGED spoiled
    BY <1>11 DEF Collect, Collected, OurFault
  <2>3. job'.run = job.run /\ job'.via = job.via
    BY <1>0, <1>11, EvaluateFrame DEF Evaluate
  <2> QED BY <1>0, <2>1, <2>2, <2>3, HoldsInTheMiddle, HostGrows
<1>12. CASE ReplayRun
  BY <1>0, <1>12 DEF ReplayRun, Goto, Perhaps, HostIsAccountedFor, Holds, AtStage, Locals
<1>13. CASE ReplayProbe
  BY <1>0, <1>13 DEF ReplayProbe, At, HostIsAccountedFor, Holds, AtStage, Locals
<1>14. CASE ReplayRemove
  BY <1>0, <1>14 DEF ReplayRemove, OurFault, Remove, At, Perhaps, Spoil, HostIsAccountedFor,
     Holds, AtStage, Locals
<1>15. CASE ReadLogs
  <2>1. job.pc = "logs" /\ job'.pc = "rm_agent"
    BY <1>0, <1>15 DEF ReadLogs, At, OurFault, Locals
  <2>2. /\ host' \subseteq host \cup {Mine(kind) : kind \in {}}
        /\ UNCHANGED spoiled
    BY <1>15 DEF ReadLogs, At, OurFault
  <2>3. job'.run = job.run /\ job'.via = job.via
    BY <1>0, <1>15, EvaluateFrame DEF Evaluate
  <2> QED BY <1>0, <2>1, <2>2, <2>3, HoldsInTheMiddle, HostGrows
<1>16. CASE RemoveAgent
  BY <1>0, <1>16 DEF RemoveAgent, Escaped, Unwinding, Remove, At, Perhaps, Spoil,
     HostIsAccountedFor, Holds, AtStage, Locals
<1>17. CASE RemoveTarget
  BY <1>0, <1>17 DEF RemoveTarget, Escaped, Unwinding, Remove, At, Perhaps, Spoil,
     HostIsAccountedFor, Holds, AtStage, Locals
<1>18. CASE RemoveNetwork
  BY <1>0, <1>18 DEF RemoveNetwork, Escaped, Unwinding, At, Perhaps, Spoil,
     HostIsAccountedFor, Holds, AtStage, Locals
<1>19. CASE RemoveImage
  BY <1>0, <1>19 DEF RemoveImage, Goto, Spoil, WithoutTar, HostIsAccountedFor, Holds,
     AtStage, Locals
<1>20. CASE AgentExits
  BY <1>0, <1>20 DEF AgentExits, HostIsAccountedFor, Holds, AtStage, Locals
<1>21. CASE Ask
  BY <1>0, <1>21 DEF Ask, Begun, HostIsAccountedFor, Holds, AtStage
<1>22. ASSUME NEW readable, NEW writable, Restart(readable, writable)
      PROVE  HostIsAccountedFor'
  BY <1>0, <1>22 DEF Restart, Begun, HostIsAccountedFor, Holds, AtStage
<1>23. ASSUME OtherAsks \/ \E agent \in Agents, hosting \in BOOLEAN : MinerRestarts(agent, hosting)
      PROVE  HostIsAccountedFor'
  <2>1. UNCHANGED <<job, host, spoiled>>
    BY <1>23 DEF OtherAsks, MinerRestarts
  <2> QED BY <1>0, <2>1 DEF HostIsAccountedFor
<1> QED BY <1>1, <1>2, <1>3, <1>4, <1>5, <1>6, <1>7, <1>8, <1>9, <1>10, <1>11, <1>12, <1>13,
           <1>14, <1>15, <1>16, <1>17, <1>18, <1>19, <1>20, <1>21, <1>22, <1>23 DEF Next,
           Evaluate

-----------------------------------------------------------------------------
(* Failures *)

\* A step on which nothing fails, of an evaluation without failures, decides
\* nothing without a reward.
LEMMA QuietStep ==
  ASSUME TypeOK, EvidenceIsOurs, BlobIsForUs, FailuresAreCounted, Evaluate,
         events = job.since, \A f : ~Fails(f)
  PROVE  /\ job'.pc = "target" => Mine("network") \in host'
         /\ job'.stage # "none" => job'.reward # None
<1>0. /\ job \in Locals /\ Unwinding \in {"idle", "rm_image"} /\ events \in Nat
      /\ job.stage # "none" => job.reward # None
      /\ job.pc = "target" => Mine("network") \in host
      /\ job.pc = "download" =>
           miner.hosting /\ job.blob \in miner.blobs /\ job.blob \in Blobs /\ job.blob.key = vault.key
      /\ 0 # None
  BY NoneIsNoValue DEF TypeOK, FailuresAreCounted, BlobIsForUs, Unwinding
<1>1. CASE Download
  BY <1>0, <1>1 DEF Download, Verified, Opens, Over, Locals
<1>2. CASE Intake
  <2>1. CASE Over("intake", 0)
    BY <1>0, <2>1 DEF Over, Locals
  <2>2. CASE job'.pc \in {"load", "network"} /\ job'.stage = job.stage /\ job'.reward = job.reward
    BY <1>0, <2>2
  <2>3. CASE Goto("load") \/ Goto("network")
    BY <1>0, <2>2, <2>3 DEF Goto, Locals
  <2> QED BY <1>2, <2>1, <2>3 DEF Intake
<1>3. CASE Load
  BY <1>0, <1>3 DEF Load, Over, Goto, Locals
<1>4. CASE NetworkCreate
  BY <1>0, <1>4 DEF NetworkCreate, Command, At, Locals
<1>5. CASE TargetRun
  BY <1>0, <1>5 DEF TargetRun, Command, At, Locals
<1>6. CASE ContainerIp
  BY <1>0, <1>6 DEF ContainerIp, Command, At, Locals
<1>7. CASE AgentCreate
  BY <1>0, <1>7 DEF AgentCreate, Command, At, Locals
<1>8. CASE AgentStart
  BY <1>0, <1>8 DEF AgentStart, Command, At, Locals
<1>9. CASE Wait
  BY <1>0, <1>9 DEF Wait, Goto, At, Locals
<1>10. CASE Kill
  BY <1>0, <1>10 DEF Kill, Command, At, Locals
<1>11. CASE Collect
  <2>1. job'.pc \in {"replay", "logs"} /\ job'.stage = job.stage /\ job'.reward = job.reward
    BY <1>0, <1>11 DEF Collect, Collected, Locals
  <2> QED BY <1>0, <2>1
<1>12. CASE ReplayRun
  BY <1>0, <1>12 DEF ReplayRun, Goto, Locals
<1>13. CASE ReplayProbe
  BY <1>0, <1>13 DEF ReplayProbe, At, Locals
<1>14. CASE ReplayRemove
  BY <1>0, <1>14 DEF ReplayRemove, Remove, At, Locals
<1>15. CASE ReadLogs
  <2>1. /\ job.doc \in Documents \cup {Unreadable} /\ job.log \in Deeds \cup {None}
        /\ job.replayed \in BOOLEAN
    BY <1>0, <1>15 DEF ReadLogs, Locals, EvidenceIsOurs
  <2>2. RewardForJob(AssembleResult(job.doc, job.log, job.replayed)) \in 0 .. 10
    BY <2>1, RewardBounds
  <2>3. /\ job'.reward = RewardForJob(AssembleResult(job.doc, job.log, job.replayed))
        /\ job'.pc = "rm_agent"
    BY <1>0, <1>15 DEF ReadLogs, At, Locals
  <2> QED BY <2>2, <2>3, NoneIsNoValue
<1>16. CASE RemoveAgent
  BY <1>0, <1>16 DEF RemoveAgent, Remove, At, Locals
<1>17. CASE RemoveTarget
  BY <1>0, <1>17 DEF RemoveTarget, Remove, At, Locals
<1>18. CASE RemoveNetwork
  BY <1>0, <1>18 DEF RemoveNetwork, At, Locals
<1>19. CASE RemoveImage
  BY <1>0, <1>19 DEF RemoveImage, Goto, Locals
<1> QED BY <1>1, <1>2, <1>3, <1>4, <1>5, <1>6, <1>7, <1>8, <1>9, <1>10, <1>11, <1>12, <1>13,
           <1>14, <1>15, <1>16, <1>17, <1>18, <1>19 DEF Evaluate

LEMMA FailureStep ==
  ASSUME EvaluationInv, Next
  PROVE  FailuresAreCounted'
<1>0. /\ TypeOK /\ FailuresAreCounted /\ EvidenceIsOurs /\ BlobIsForUs /\ BlobsOpen
      /\ job \in Locals /\ events \in Nat /\ job.since \in Nat /\ job.since <= events
  BY EvaluationBoundAssumption DEF EvaluationInv, TypeOK, Locals, FailuresAreCounted
<1>1. CASE Evaluate
  <2>1. job'.since = job.since /\ events' \in Nat /\ events <= events'
    BY <1>0, <1>1, EvaluateFrame
  <2>2. job'.pc # "download"
    BY <1>0, <1>1, EvaluateOpens
  <2>3. CASE events' > job.since
    BY <1>0, <2>1, <2>3 DEF FailuresAreCounted
  <2>4. CASE ~(events' > job.since)
    <3>1. events = job.since /\ events' = events
      BY <1>0, <2>1, <2>4
    <3>2. \A f : ~Fails(f)
      BY <1>0, <3>1 DEF Fails
    <3>3. /\ job'.pc = "target" => Mine("network") \in host'
          /\ job'.stage # "none" => job'.reward # None
      BY <1>0, <1>1, <3>1, <3>2, QuietStep
    <3>4. job'.run = job.run
      BY <1>0, <1>1, EvaluateFrame
    <3> QED BY <1>0, <2>1, <2>2, <3>1, <3>3, <3>4 DEF FailuresAreCounted, Mine
  <2> QED BY <2>3, <2>4
<1>2. CASE AgentExits
  <2>1. /\ job'.since = job.since /\ job'.stage = job.stage /\ job'.reward = job.reward
        /\ job'.pc = "wait"
    BY <1>0, <1>2 DEF AgentExits, Locals
  <2> QED BY <1>0, <1>2, <2>1 DEF AgentExits, FailuresAreCounted
<1>3. CASE Ask
  <2>1. /\ job'.since = events /\ job'.stage = "none" /\ events' = events
        /\ job'.pc \in {"download", "intake"}
    BY <1>3 DEF Ask, Begun
  <2>2. CASE miner.hosting
    <3>1. /\ miner' = AfterServing(miner, vault.key) /\ job'.blob = BlobFor(miner, vault.key)
          /\ miner \in Miners
      BY <1>0, <1>3, <2>2 DEF Ask, Begun, TypeOK
    <3>2. /\ miner'.hosting /\ miner'.tar = miner'.image /\ job'.blob \in miner'.blobs
      BY <2>2, <3>1 DEF AfterServing, Miners
    <3> QED BY <1>0, <2>1, <3>2 DEF FailuresAreCounted
  <2>3. CASE ~miner.hosting
    <3>1. job'.pc = "intake"
      BY <1>3, <2>3 DEF Ask, Begun
    <3> QED BY <1>0, <2>1, <3>1 DEF FailuresAreCounted
  <2> QED BY <2>2, <2>3
<1>4. ASSUME NEW readable, NEW writable, Restart(readable, writable)
      PROVE  FailuresAreCounted'
  <2>1. job'.pc = "idle" /\ job'.stage = "none" /\ job'.since = events /\ events' = events + 1
    BY <1>4 DEF Restart, Begun, Fails
  <2> QED BY <1>0, <2>1 DEF FailuresAreCounted
<1>5. CASE OtherAsks
  <2>1. UNCHANGED <<job, events, host>> /\ miner' = AfterServing(miner, OtherKey) /\ miner \in Miners
    BY <1>0, <1>5 DEF OtherAsks, TypeOK
  <2>2. /\ miner'.hosting = miner.hosting /\ miner'.tar = miner'.image
        /\ miner.tar = miner.image => miner.blobs \subseteq miner'.blobs
    BY <2>1 DEF AfterServing, Miners
  <2> QED BY <1>0, <2>1, <2>2 DEF FailuresAreCounted, Mine
<1>6. ASSUME NEW agent, NEW hosting, MinerRestarts(agent, hosting)
      PROVE  FailuresAreCounted'
  <2>1. UNCHANGED <<job, host>> /\ events' = events + 1
    BY <1>6 DEF MinerRestarts, Fails
  <2>2. events' > job'.since /\ job'.since <= events'
    BY <1>0, <2>1
  <2> QED BY <2>2 DEF FailuresAreCounted
<1> QED BY <1>1, <1>2, <1>3, <1>4, <1>5, <1>6 DEF Next

-----------------------------------------------------------------------------
(* The specification *)

LEMMA InvInit ==
  ASSUME Init
  PROVE  EvaluationInv
<1>1. TypeOK
  BY TypeInit
<1>2. /\ job.pc = "idle" /\ job.stage = "none" /\ job.reward = None /\ job.doc = None
      /\ job.log = None /\ job.replayed = FALSE /\ job.since = events /\ host = {}
      /\ events \in Nat
  BY DEF Init, Begun
<1>3. miner.blobs = {}
  BY DEF Init
<1>4. vault.file = vault.key \/ vault.failed
  <2>1. PICK written \in BOOLEAN :
          vault = [key |-> 1, file |-> IF written THEN 1 ELSE None, minted |-> 1,
                   failed |-> ~written]
    BY DEF Init
  <2> QED BY <2>1
<1> QED BY <1>1, <1>2, <1>3, <1>4
        DEF EvaluationInv, RunIsNumbered, BlobsOpen, RewardsAreProven, SealedBlobsOpen,
            EvidenceIsOurs, BlobIsForUs, HostIsAccountedFor, FailuresAreCounted

LEMMA InvNext ==
  ASSUME EvaluationInv, [Next]_vars
  PROVE  EvaluationInv'
<1>1. CASE Next
  <2>1. TypeOK /\ RunIsNumbered /\ EvidenceIsOurs
    BY DEF EvaluationInv
  <2> QED BY <1>1, <2>1, TypeStep, KeyStep, EvidenceStep, HostStep, FailureStep
          DEF EvaluationInv
<1>2. CASE UNCHANGED vars
  BY <1>2 DEF vars, EvaluationInv, TypeOK, RunIsNumbered, BlobsOpen, RewardsAreProven,
              SealedBlobsOpen, EvidenceIsOurs, BlobIsForUs, HostIsAccountedFor,
              FailuresAreCounted, Mine
<1> QED BY <1>1, <1>2

LEMMA SpecInv == Spec => []EvaluationInv
<1>1. Init => EvaluationInv
  BY InvInit
<1>2. EvaluationInv /\ [Next]_vars => EvaluationInv'
  BY InvNext
<1> QED BY <1>1, <1>2, PTL DEF Spec

\* Every variable of the miner, of the validator's job and of the host's record
\* of what is running keeps its domain through every failure and restart.
THEOREM TypeCorrectTheorem == Spec => []TypeOK
<1>1. EvaluationInv => TypeOK
  BY DEF EvaluationInv
<1> QED BY <1>1, SpecInv, PTL

\* Whatever fails, restarts or answers, and whoever else asks, the blob a miner
\* serves opens with the validator's key (TypeOK besides).
THEOREM BlobsOpenTheorem == Spec => [](TypeOK /\ BlobsOpen)
<1>1. EvaluationInv => TypeOK /\ BlobsOpen
  BY DEF EvaluationInv
<1> QED BY <1>1, SpecInv, PTL

\* Every blob a miner keeps for the validator opens with its key, as long as its
\* key file did not fail (_load_or_create_keypair).
THEOREM SealedBlobsOpenTheorem == Spec => []SealedBlobsOpen
<1>1. EvaluationInv => SealedBlobsOpen
  BY DEF EvaluationInv
<1> QED BY <1>1, SpecInv, PTL

\* No report, log or recipe earns a reward without this run's canary and a safe
\* log, or more than 5 without a replay (assemble_result, score_task).
THEOREM RewardsAreProvenTheorem == Spec => []RewardsAreProven
<1>1. EvaluationInv => RewardsAreProven
  BY DEF EvaluationInv
<1> QED BY <1>1, SpecInv, PTL

\* On every path through run_job and work() on which the removals succeed, nothing
\* of a run outlives it.
THEOREM NothingLeftBehindTheorem == Spec => []NothingLeftBehind
<1>1. EvaluationInv => NothingLeftBehind
  <2> SUFFICES ASSUME EvaluationInv, NEW r \in host
               PROVE  \/ r[1] = "pulled" \/ r[2] \in spoiled
                      \/ r[2] = job.run /\ job.pc # "idle"
    BY DEF NothingLeftBehind
  <2>1. r = <<r[1], r[2]>>
    BY DEF EvaluationInv, TypeOK, Resources
  <2>2. \/ r[1] = "pulled" \/ r[2] \in spoiled
        \/ r[2] = job.run /\ r[1] \in Holds(job.pc, job.via)
    BY <2>1 DEF EvaluationInv, HostIsAccountedFor
  <2> QED BY <2>2 DEF Holds, AtStage
<1> QED BY <1>1, SpecInv, PTL

\* An evaluation on which nothing failed has a reward, whatever the agent did.
THEOREM UnscoredIsOurFaultTheorem == Spec => []UnscoredIsOurFault
<1>1. EvaluationInv => UnscoredIsOurFault
  BY DEF EvaluationInv, FailuresAreCounted, UnscoredIsOurFault
<1> QED BY <1>1, SpecInv, PTL

=============================================================================
