---------------------- MODULE SubmissionOwnershipProofs ----------------------
(***************************************************************************)
(* Proofs about the verdicts of SubmissionService: who owns an agent, whom *)
(* a rejection blames, and what stays loaded in Docker.                    *)
(***************************************************************************)
EXTENDS SubmissionJobsProofs

-----------------------------------------------------------------------------
(* Verdicts and images *)

\* How the stage checker c is at may come to verdict v: it rejects, accepts an
\* agent nobody is known to own, or replays a row.
Rejecting(c, v) ==
  /\ v.status = "rejected" /\ ~v.cached
  /\ v.why = "image" =>
       \/ Flaw[chk[c].pkg] # "none"
       \/ Faults \cap {"digest", "call"} # {}
       \/ chk[c].pc \in {"inspect", "dry_run"} /\ chk[c].pkg \notin images

Accepting(c, v) ==
  /\ v.status = "accepted" /\ v.why = "none" /\ ~v.cached
  /\ v.agent = AgentOf[chk[c].pkg]
  /\ \/ chk[c].pc = "inspect" /\ Known(chk[c].pkg) = None
     \/ chk[c].pc = "dry_run"

Replaying(c, v) ==
  /\ v.cached
  /\ \E i \in DOMAIN submissions :
       /\ v.status = submissions[i].status /\ v.why = submissions[i].why
       /\ v.miner = submissions[i].miner
       /\ \/ /\ chk[c].pc = "file"
             /\ v.agent = submissions[i].agent /\ submissions[i].pkg = chk[c].pkg
          \/ /\ chk[c].pc = "inspect"
             /\ v.agent \in Agents /\ agents[v.agent] = i

\* The stages of check_and_record: what each one needs before the next, and what
\* it leaves loaded.
GoesOn(c) ==
  \/ chk'[c].pc = "load" /\ images' = images /\ chk[c].pc = "file"
  \/ /\ chk'[c].pc = "inspect" /\ chk[c].pc \in {"load", "pull"}
     /\ chk'[c].loaded /\ images' = images \cup {chk[c].pkg}
  \/ /\ chk'[c].pc = "dry_run" /\ chk[c].pc = "inspect" /\ images' = images
     /\ chk'[c].loaded = chk[c].loaded
     /\ chk[c].pkg \in images /\ Known(chk[c].pkg) = None

Concludes(c) ==
  /\ chk'[c].pc = IF chk[c].loaded THEN "cleanup" ELSE "record"
  /\ chk'[c].loaded = chk[c].loaded
  /\ \/ Rejecting(c, chk'[c].verdict)
     \/ Accepting(c, chk'[c].verdict)
     \/ Replaying(c, chk'[c].verdict)
  /\ AboutCheck(chk'[c].verdict, c)
  /\ \/ images' = images
     \/ /\ images' = images \cup {chk[c].pkg}
        /\ chk[c].pc = "dry_run" \/ "digest" \in Faults

\* The verdicts the stages make.
LEMMA Rejections ==
  ASSUME NEW c, NEW hash, NEW agent, NEW i,
         \/ Flaw[chk[c].pkg] # "none"
         \/ Faults \cap {"digest", "call"} # {}
         \/ chk[c].pc \in {"inspect", "dry_run"} /\ chk[c].pkg \notin images
  PROVE  \A why : Rejecting(c, Reject(c, hash, agent, why))
  BY DEF Rejecting, Reject, Verdict

LEMMA OtherRejections ==
  ASSUME NEW c, NEW hash, NEW agent, NEW i
  PROVE  Rejecting(c, Reject(c, hash, agent, "fault")) /\ Rejecting(c, Duplicate(c, agent, i))
  BY DEF Rejecting, Reject, Duplicate, Verdict

LEMMA Acceptances ==
  ASSUME NEW c, \/ chk[c].pc = "inspect" /\ Known(chk[c].pkg) = None
                \/ chk[c].pc = "dry_run"
  PROVE  Accepting(c, Accept(c))
  BY DEF Accepting, Accept, Verdict

LEMMA Replayed ==
  ASSUME NEW c, NEW agent, NEW i \in DOMAIN submissions, submissions[i].miner = chk[c].miner,
         \/ chk[c].pc = "file" /\ agent = None /\ submissions[i].pkg = chk[c].pkg
         \/ chk[c].pc = "inspect" /\ agent \in Agents /\ agents[agent] = i
  PROVE  Replaying(c, Replay(c, agent, i))
  <1>1. \A a \in Agents : a # None
    BY SubmissionNoneAssumption
  <1>2. /\ Replay(c, agent, i).cached /\ Replay(c, agent, i).miner = chk[c].miner
        /\ Replay(c, agent, i).status = submissions[i].status
        /\ Replay(c, agent, i).why = submissions[i].why
        /\ Replay(c, agent, i).agent = IF agent # None THEN agent ELSE submissions[i].agent
    BY DEF Replay, Verdict
  <1>3. QED
    BY <1>1, <1>2 DEF Replaying

LEMMA StageEffect ==
  ASSUME IntakeInv, NEW c \in Checkers, Check(c), chk[c].pc \in Stages
  PROVE  GoesOn(c) \/ Concludes(c)
  <1>0. TypeOK /\ chk[c].pkg \in Packages /\ chk[c].pc \in Busy
    BY DEF IntakeInv, LocalsOK, LocalOK, Stages, Busy
  <1>1. ASSUME NEW v, Return(c, v), AboutCheck(v, c),
               Rejecting(c, v) \/ Accepting(c, v) \/ Replaying(c, v),
               \/ images' = images
               \/ /\ images' = images \cup {chk[c].pkg}
                  /\ chk[c].pc = "dry_run" \/ "digest" \in Faults
        PROVE  Concludes(c)
    BY <1>0, <1>1, ReturnEffect DEF Concludes
  <1>2. CASE CheckFile(c)
    <2>1. chk[c].pc = "file" /\ images' = images
      BY <1>2 DEF CheckFile
    <2>2. CASE Flaw[chk[c].pkg] = "file" /\ Return(c, Reject(c, None, None, "image"))
      BY <1>1, <2>1, <2>2, Rejections, VerdictsAboutCheck
    <2>3. CASE Goto(c, "load")
      BY <1>0, <2>1, <2>3, GotoEffect DEF GoesOn
    <2>4. CASE Checked(chk[c].pkg) # {} /\ FileLookup(c, Latest(Checked(chk[c].pkg)))
      <3> DEFINE i == Latest(Checked(chk[c].pkg))
      <3>1. i \in DOMAIN submissions /\ submissions[i].pkg = chk[c].pkg
        BY <1>0, <2>4, CheckedRows, Table
      <3>2. FileLookup(c, i)
        BY <2>4
      <3> HIDE DEF i
      <3>3. CASE submissions[i].miner = chk[c].miner /\ Return(c, Replay(c, None, i))
        BY <1>1, <2>1, <3>1, <3>3, Replayed, VerdictsAboutCheck
      <3>4. CASE Return(c, Duplicate(c, None, i))
        BY <1>1, <2>1, <3>4, OtherRejections, VerdictsAboutCheck
      <3>5. QED
        BY <2>3, <3>2, <3>3, <3>4 DEF FileLookup
    <2>5. QED
      BY <1>2, <2>2, <2>3, <2>4 DEF CheckFile
  <1>3. CASE LoadImage(c)
    <2>1. chk[c].pc \in {"load", "pull"}
      BY <1>3 DEF LoadImage
    <2>2. CASE /\ Flaw[chk[c].pkg] = "structure" /\ UNCHANGED images
               /\ Return(c, Reject(c, MeasuredHash(c), None, "image"))
      BY <1>1, <2>2, Rejections, VerdictsAboutCheck
    <2>3. CASE /\ images' = images \cup {chk[c].pkg}
               /\ chk' = [chk EXCEPT ![c].pc = "inspect", ![c].loaded = TRUE]
      BY <1>0, <2>1, <2>3, LoadEffect DEF GoesOn
    <2>4. QED
      BY <1>3, <2>2, <2>3 DEF LoadImage
  <1>4. ASSUME NEW why \in {"image", "fault"}, LoadUnresolved(c, why)
        PROVE  Concludes(c)
    <2>1. /\ "digest" \in Faults /\ images' = images \cup {chk[c].pkg}
          /\ Return(c, Reject(c, MeasuredHash(c), None, why))
      BY <1>4 DEF LoadUnresolved
    <2>2. QED
      BY <1>1, <2>1, Rejections, VerdictsAboutCheck
  <1>5. CASE InspectImage(c)
    <2>1. chk[c].pc = "inspect" /\ images' = images
      BY <1>5 DEF InspectImage
    <2>2. CASE /\ chk[c].pkg \notin images \/ Flaw[chk[c].pkg] = "inspect"
               /\ Return(c, Reject(c, MeasuredHash(c), None, "image"))
      BY <1>1, <2>1, <2>2, Rejections, VerdictsAboutCheck
    <2>3. CASE chk[c].pkg \in images /\ AgentLookup(c)
      <3> DEFINE a == AgentOf[chk[c].pkg]
                 i == Known(chk[c].pkg)
      <3>1. CASE i = None /\ Return(c, Accept(c))
        BY <1>1, <2>1, <3>1, Acceptances, VerdictsAboutCheck
      <3>2. CASE i = None /\ Goto(c, "dry_run")
        BY <1>0, <2>1, <2>3, <3>2, GotoEffect DEF GoesOn
      <3>3. CASE i # None
        <4>1. a \in Agents /\ agents[a] = i
          BY <1>0, <3>3, SubmissionAssumption DEF Known
        <4>2. i \in DOMAIN submissions
          BY <1>0, <3>3, <4>1 DEF TypeOK
        <4>3. \/ submissions[i].miner = chk[c].miner /\ Return(c, Replay(c, a, i))
              \/ Return(c, Duplicate(c, a, i))
          BY <2>3, <3>3 DEF AgentLookup
        <4> HIDE DEF a, i
        <4>4. CASE submissions[i].miner = chk[c].miner /\ Return(c, Replay(c, a, i))
          BY <1>1, <2>1, <4>1, <4>2, <4>4, Replayed, VerdictsAboutCheck
        <4>5. CASE Return(c, Duplicate(c, a, i))
          BY <1>1, <2>1, <4>5, OtherRejections, VerdictsAboutCheck
        <4>6. QED
          BY <4>3, <4>4, <4>5
      <3>4. QED
        BY <2>3, <3>1, <3>2, <3>3 DEF AgentLookup
    <2>4. QED
      BY <1>5, <2>2, <2>3 DEF InspectImage
  <1>6. CASE DryRun(c)
    <2> DEFINE r == Reject(c, MeasuredHash(c), AgentOf[chk[c].pkg], "image")
               gone == chk[c].src = "file" /\ chk[c].pkg \notin images
    <2>1. /\ chk[c].pc = "dry_run"
          /\ images' = images \/ images' = images \cup {chk[c].pkg}
          /\ \/ (gone \/ Flaw[chk[c].pkg] = "run") /\ Return(c, r)
             \/ Return(c, Accept(c))
      BY <1>6 DEF DryRun
    <2>2. gone \/ Flaw[chk[c].pkg] = "run" => Rejecting(c, r)
      BY <2>1, Rejections
    <2>3. Accepting(c, Accept(c)) /\ AboutCheck(Accept(c), c) /\ AboutCheck(r, c)
      BY <2>1, Acceptances, VerdictsAboutCheck
    <2> HIDE DEF r, gone
    <2>4. QED
      BY <1>1, <2>1, <2>2, <2>3
  <1>7. CASE StageFault(c)
    <2>1. images' = images /\ \E h, a : Return(c, Reject(c, h, a, "fault"))
      BY <1>7 DEF StageFault, Failed
    <2>2. QED
      BY <1>1, <2>1, OtherRejections, VerdictsAboutCheck
  <1>8. CASE CallFails(c)
    <2>1. /\ "call" \in Faults /\ \E h, a : Return(c, Reject(c, h, a, "image"))
          /\ \/ images' = images
             \/ images' = images \cup {chk[c].pkg} /\ chk[c].pc = "dry_run"
      BY <1>8 DEF CallFails, Failed
    <2>2. QED
      BY <1>1, <2>1, Rejections, VerdictsAboutCheck
  <1>9. chk[c].pc \notin {"cleanup", "record", "register"}
    BY DEF Stages
  <1>10. QED
    BY <1>2, <1>3, <1>4, <1>5, <1>6, <1>7, <1>8, <1>9
    DEF Check, Cleanup, CleanupFails, RecordVerdict, RegisterAgent, RecordFails

\* The image and the rows under the steps that are not stages.
LEMMA ImagesKept ==
  ASSUME NEW w \in Workers, Work(w)
  PROVE  images' = images
  BY DEF Work, Boot, ClaimSelect, ClaimUpdate, FinishJob, FailJob, WorkerWriteFails

\* What a checker is left with by a step of the queue, a start or a crash.
AtRest == {"idle", "down", "dead", "claim", "update", "file", "pull", "fail"}

LEMMA WorkEffect ==
  ASSUME IntakeInv, NEW w \in Workers, Work(w)
  PROVE  /\ Others(w) /\ UNCHANGED <<submissions, agents, images>>
         /\ chk[w].pc \in AtRest \cup {"finish"} /\ chk'[w].pc \in AtRest
  <1>0. TypeOK
    BY DEF IntakeInv
  <1>1. images' = images
    BY ImagesKept
  <1>2. chk[w].pc \in AtRest \cup {"finish"}
    BY DEF Work, Boot, ClaimSelect, ClaimUpdate, FinishJob, FailJob, WorkerWriteFails, AtRest
  <1>3. CASE Boot(w)
    BY <1>0, <1>1, <1>2, <1>3, BootEffect DEF At, AtRest
  <1>4. CASE ClaimSelect(w)
    BY <1>0, <1>1, <1>2, <1>4, ClaimSelectEffect DEF AtRest
  <1>5. CASE ClaimUpdate(w)
    <2>1. Claims(w, chk[w].job) => chk'[w].pc = "pull"
      BY DEF Claims, Start, At
    <2>2. QED
      BY <1>0, <1>1, <1>2, <1>5, <2>1, ClaimUpdateEffect DEF At, AtRest
  <1>6. CASE FinishJob(w) \/ FailJob(w)
    BY <1>0, <1>1, <1>2, <1>6, SettleEffect DEF Settles, At, AtRest
  <1>7. CASE WorkerWriteFails(w)
    BY <1>0, <1>1, <1>2, <1>7, WriteFailsEffect DEF At, AtRest
  <1>8. QED
    BY <1>3, <1>4, <1>5, <1>6, <1>7 DEF Work

LEMMA StartEffect ==
  ASSUME IntakeInv, NEW c \in Direct, NEW m \in Miners, NEW p \in Packages, NEW src \in Sources,
         NEW skip \in Skips, Begin(c, m, p, src, skip)
  PROVE  /\ c \in Checkers /\ Others(c) /\ UNCHANGED <<submissions, agents, images>>
         /\ chk[c].pc \in AtRest /\ chk'[c].pc \in AtRest
  <1>0. TypeOK
    BY DEF IntakeInv
  <1>1. chk'[c].pc \in {"file", "pull"}
    <2>1. Start(None, m, p, src, skip).pc \in {"file", "pull"}
      BY DEF Start, At
    <2>2. QED
      BY <1>0, <2>1, BeginEffect
  <1>2. QED
    BY <1>0, <1>1, BeginEffect DEF Begin, AtRest

-----------------------------------------------------------------------------
(* Who owns an agent *)

\* check_and_record runs in one place at a time.
OneChecker == \A c, d \in Checkers : c = d

\* No process dies, and no write fails, between record_submission and
\* register_agent.
RegistersWhatItRecords == Faults \cap {"crash", "db"} = {}

\* The row has still to be registered.
Pending(i) == \E c \in Checkers : chk[c].pc = "register" /\ chk[c].row = i

OwnedBy(a, m) == agents[a] # None /\ submissions[agents[a]].miner = m

\* Every accepted row that register_agent has seen names an agent of its miner.
RowsAreOwned ==
  \A i \in DOMAIN submissions :
    Accepted(i) /\ submissions[i].agent # None /\ ~Pending(i) =>
      OwnedBy(submissions[i].agent, submissions[i].miner)

\* A checker that will accept an agent finds it free, or replays its owner.
Entitled(l) ==
  /\ l.pc = "dry_run" => Known(l.pkg) = None
  /\ l.pc \in {"cleanup", "record", "register"} /\ l.verdict.status = "accepted"
       /\ l.verdict.agent # None =>
       IF l.verdict.cached THEN OwnedBy(l.verdict.agent, l.verdict.miner)
       ELSE agents[l.verdict.agent] = None

CheckersAreEntitled == \A c \in Checkers : Entitled(chk[c])

OwnerInv == RowsAreOwned /\ CheckersAreEntitled

\* With one checker, nothing is pending unless that one registers.
LEMMA NothingPending ==
  ASSUME OneChecker, NEW c \in Checkers, chk[c].pc # "register"
  PROVE  \A i : ~Pending(i)
  BY DEF OneChecker, Pending

\* A step that keeps the rows and the agents, and leaves the checker before its
\* verdict or after its registration.
LEMMA OwnerKept ==
  ASSUME OneChecker, OwnerInv, NEW c \in Checkers, UNCHANGED <<submissions, agents>>,
         chk[c].pc # "register", chk'[c].pc # "register", Entitled(chk'[c])
  PROVE  OwnerInv'
  <1>1. \A i : ~Pending(i) /\ ~Pending(i)'
    BY DEF OneChecker, Pending
  <1>2. RowsAreOwned'
    BY <1>1 DEF OwnerInv, RowsAreOwned, OwnedBy, Accepted
  <1>3. CheckersAreEntitled'
    BY DEF OneChecker, CheckersAreEntitled, Entitled, OwnedBy, Known
  <1>4. QED
    BY <1>2, <1>3 DEF OwnerInv

LEMMA OwnerRests ==
  ASSUME OneChecker, OwnerInv, NEW c \in Checkers, UNCHANGED <<submissions, agents>>,
         chk[c].pc # "register", chk'[c].pc \in AtRest \cup {"load", "inspect", "finish"}
  PROVE  OwnerInv'
  BY OwnerKept DEF Entitled, AtRest

\* What a stage concludes, the agents table agrees with.
LEMMA OwnerStageStep ==
  ASSUME IntakeInv, OneChecker, OwnerInv, NEW c \in Checkers, Check(c), chk[c].pc \in Stages
  PROVE  OwnerInv'
  <1>0. TypeOK /\ Entitled(chk[c]) /\ chk[c].pkg \in Packages
    BY DEF IntakeInv, OwnerInv, CheckersAreEntitled, LocalsOK, LocalOK, Stages, Busy
  <1>1. /\ Others(c) /\ UNCHANGED <<submissions, agents>> /\ SameCheck(c)
    <2>1. chk[c].pc \notin {"cleanup", "record", "register"}
      BY DEF Stages
    <2>2. QED
      BY <2>1, CheckEffect
      DEF Proceeds, Returns, Cleans, RecordVerdict, Registers, FailsToRecord
  <1>2. chk[c].pc # "register"
    BY DEF Stages
  <1>3. CASE GoesOn(c)
    <2>1. CASE chk'[c].pc = "dry_run"
      <3>1. Known(chk'[c].pkg) = None
        BY <1>1, <1>3, <2>1 DEF GoesOn, SameCheck
      <3>2. Entitled(chk'[c])
        BY <2>1, <3>1 DEF Entitled
      <3>3. QED
        BY <1>1, <1>2, <2>1, <3>2, OwnerKept
    <2>2. CASE chk'[c].pc \in {"load", "inspect"}
      BY <1>1, <1>2, <2>2, OwnerRests
    <2>3. QED
      BY <1>3, <2>1, <2>2 DEF GoesOn
  <1>4. CASE Concludes(c)
    <2> DEFINE v == chk'[c].verdict
               Right == v.status = "accepted" /\ v.agent # None =>
                          IF v.cached THEN OwnedBy(v.agent, v.miner) ELSE agents[v.agent] = None
    <2>1. chk'[c].pc \in {"cleanup", "record"}
      BY <1>4 DEF Concludes
    <2>2. ASSUME Rejecting(c, v) PROVE Right
      BY <2>2 DEF Rejecting
    <2>3. ASSUME Accepting(c, v) PROVE Right
      <3>1. Known(chk[c].pkg) = None
        BY <1>0, <2>3 DEF Accepting, Entitled
      <3>2. QED
        BY <2>3, <3>1 DEF Accepting, Known
    <2>4. ASSUME Replaying(c, v), v.status = "accepted", v.agent # None
          PROVE  OwnedBy(v.agent, v.miner)
      <3>1. PICK i \in DOMAIN submissions :
              /\ submissions[i].status = "accepted" /\ v.miner = submissions[i].miner
              /\ \/ v.agent = submissions[i].agent
                 \/ v.agent \in Agents /\ agents[v.agent] = i
        BY <2>4 DEF Replaying
      <3>2. CASE v.agent = submissions[i].agent
        BY <1>2, <2>4, <3>1, <3>2, NothingPending DEF OwnerInv, RowsAreOwned, Accepted
      <3>3. CASE agents[v.agent] = i
        <4>1. i # None
          BY <1>0, <3>1, Table, SubmissionNoneAssumption
        <4>2. QED
          BY <3>1, <3>3, <4>1 DEF OwnedBy
      <3>4. QED
        BY <3>1, <3>2, <3>3
    <2>5. Right
      BY <1>4, <2>2, <2>3, <2>4 DEF Concludes, Replaying
    <2>6. Entitled(chk'[c])
      BY <2>1, <2>5 DEF Entitled
    <2>7. QED
      BY <1>1, <1>2, <2>1, <2>6, OwnerKept
  <1>5. QED
    BY <1>3, <1>4, StageEffect

\* The row that is recorded is the one that is pending.
LEMMA OwnerRecordStep ==
  ASSUME IntakeInv, OneChecker, OwnerInv, NEW c \in Checkers, RecordVerdict(c)
  PROVE  OwnerInv'
  <1> DEFINE n == Len(submissions)
  <1>0. TypeOK /\ chk[c].pc = "record" /\ Entitled(chk[c]) /\ agents' = agents
    BY DEF IntakeInv, RecordVerdict, OwnerInv, CheckersAreEntitled
  <1>1. /\ chk'[c].pc = "register" /\ chk'[c].row = n + 1 /\ chk'[c].verdict = chk[c].verdict
    BY <1>0, RecordEffect
  <1>2. /\ n \in Nat /\ DOMAIN submissions = 1 .. n /\ DOMAIN submissions' = 1 .. (n + 1)
        /\ \A i \in 1 .. n : submissions'[i] = submissions[i]
    BY TableAppended
  <1>3. \A i : ~Pending(i)
    BY <1>0, NothingPending
  <1>4. ASSUME NEW i, ~Pending(i)' PROVE i # n + 1
    <2>1. chk'[c].pc = "register" /\ chk'[c].row # i
      BY <1>1, <1>4 DEF Pending
    <2>2. QED
      BY <1>1, <2>1
  <1>5. \A a, m : OwnedBy(a, m) /\ a \in Agents => OwnedBy(a, m)'
    <2> SUFFICES ASSUME NEW a \in Agents, NEW m, OwnedBy(a, m) PROVE OwnedBy(a, m)'
      OBVIOUS
    <2>1. agents[a] \in 1 .. n
      BY <1>0, <1>2 DEF OwnedBy, TypeOK
    <2>2. QED
      BY <1>0, <1>2, <2>1 DEF OwnedBy
  <1> HIDE DEF n
  <1>6. RowsAreOwned'
    <2> SUFFICES ASSUME NEW i \in 1 .. (n + 1), submissions'[i].status = "accepted",
                        submissions'[i].agent # None, ~Pending(i)'
                 PROVE  OwnedBy(submissions[i].agent, submissions[i].miner)'
      BY <1>2 DEF RowsAreOwned, Accepted
    <2>1. i \in 1 .. n /\ submissions'[i] = submissions[i]
      BY <1>2, <1>4
    <2>2. OwnedBy(submissions[i].agent, submissions[i].miner)
      BY <1>2, <1>3, <2>1 DEF OwnerInv, RowsAreOwned, Accepted
    <2>3. submissions[i].agent \in Agents
      BY <1>0, <2>1, Table DEF Verdicts, n
    <2>4. QED
      BY <1>5, <2>1, <2>2, <2>3
  <1>7. CheckersAreEntitled'
    <2>1. chk[c].verdict \in Verdicts
      BY <1>0 DEF IntakeInv, LocalsOK, LocalOK, Holding
    <2>2. Entitled(chk[c])'
      BY <1>0, <1>1, <1>5, <2>1 DEF Entitled, Verdicts
    <2>3. QED
      BY <2>2 DEF OneChecker, CheckersAreEntitled
  <1>8. QED
    BY <1>6, <1>7 DEF OwnerInv

\* The agent that is registered had no owner, so no other row was accepted with it.
LEMMA OwnerRegisterStep ==
  ASSUME IntakeInv, OneChecker, OwnerInv, NEW c \in Checkers, RegisterAgent(c)
  PROVE  OwnerInv'
  <1> DEFINE v == chk[c].verdict
             i == chk[c].row
  <1>0. TypeOK /\ chk[c].pc = "register" /\ Entitled(chk[c])
    BY DEF IntakeInv, RegisterAgent, OwnerInv, CheckersAreEntitled
  <1>1. submissions' = submissions /\ agents' = Registered(v, i)
    BY DEF RegisterAgent
  <1>2. chk'[c].pc \in {"finish", "claim", "idle"}
    BY <1>0, GotoEffect, SetEffect DEF RegisterAgent, Rest, At
  <1>3. v \in Verdicts /\ i \in DOMAIN submissions /\ submissions[i] = v /\ i # None
    BY <1>0, Table, SubmissionNoneAssumption DEF IntakeInv, LocalsOK, LocalOK, Holding
  <1>4. \A k : Pending(k) => k = i
    BY <1>0 DEF OneChecker, Pending
  <1>5. CheckersAreEntitled'
    BY <1>2 DEF OneChecker, CheckersAreEntitled, Entitled
  <1> HIDE DEF v, i
  <1>6. ASSUME NEW k \in DOMAIN submissions, submissions[k].status = "accepted",
               submissions[k].agent # None
        PROVE  OwnedBy(submissions[k].agent, submissions[k].miner)'
    <2>1. submissions[k].agent \in Agents
      BY <1>0, <1>6, Table DEF Verdicts
    <2>2. CASE k # i
      <3>1. OwnedBy(submissions[k].agent, submissions[k].miner)
        BY <1>4, <1>6, <2>2 DEF OwnerInv, RowsAreOwned, Accepted
      <3>2. agents'[submissions[k].agent] = agents[submissions[k].agent]
        BY <1>0, <1>1, <1>3, <2>1, <3>1 DEF Registered, OwnedBy, TypeOK, Verdicts
      <3>3. QED
        BY <1>1, <3>1, <3>2 DEF OwnedBy
    <2>3. CASE k = i /\ v.cached
      <3>1. OwnedBy(v.agent, v.miner) /\ agents' = agents
        BY <1>0, <1>1, <1>3, <1>6, <2>3 DEF Entitled, Registered, v
      <3>2. QED
        BY <1>1, <1>3, <2>3, <3>1 DEF OwnedBy
    <2>4. CASE k = i /\ ~v.cached
      <3>1. agents[v.agent] = None
        BY <1>0, <1>3, <1>6, <2>4 DEF Entitled, v
      <3>2. agents' = [agents EXCEPT ![v.agent] = i]
        BY <1>1, <1>3, <1>6, <2>4, <3>1 DEF Registered
      <3>3. agents'[v.agent] = i
        BY <1>0, <1>3, <2>1, <2>4, <3>2 DEF TypeOK
      <3>4. QED
        BY <1>1, <1>3, <2>4, <3>3 DEF OwnedBy
    <2>5. QED
      BY <2>2, <2>3, <2>4
  <1>7. RowsAreOwned'
    BY <1>1, <1>6 DEF RowsAreOwned, Accepted
  <1>8. QED
    BY <1>5, <1>7 DEF OwnerInv

LEMMA OwnerInductive ==
  ASSUME OneChecker, RegistersWhatItRecords
  PROVE  Spec => []OwnerInv
  <1>1. Init => OwnerInv
    BY DEF Init, OwnerInv, RowsAreOwned, CheckersAreEntitled, Entitled, Rest, At
  <1>2. IntakeInv /\ OwnerInv /\ [Next]_vars => OwnerInv'
    <2> SUFFICES ASSUME IntakeInv, OwnerInv, [Next]_vars PROVE OwnerInv'
      OBVIOUS
    <2>0. TypeOK
      BY DEF IntakeInv
    <2>1. ASSUME UNCHANGED <<submissions, agents, chk>> PROVE OwnerInv'
      BY <2>1 DEF OwnerInv, RowsAreOwned, CheckersAreEntitled, Entitled, Pending, OwnedBy,
                  Known, Accepted
    <2>2. CASE UNCHANGED vars
      BY <2>1, <2>2 DEF vars
    <2>3. ASSUME NEW m \in Miners, NEW p \in Packages, CreateJob(m, p) PROVE OwnerInv'
      BY <2>1, <2>3 DEF CreateJob
    <2>4. ASSUME NEW c \in Direct, NEW m \in Miners, NEW p \in Packages, NEW src \in Sources,
                 NEW skip \in Skips, Begin(c, m, p, src, skip)
          PROVE  OwnerInv'
      BY <2>4, StartEffect, OwnerRests DEF AtRest
    <2>5. ASSUME NEW w \in Workers, Work(w) PROVE OwnerInv'
      BY <2>5, WorkEffect, OwnerRests DEF AtRest, Checkers
    <2>6. ASSUME NEW c \in Checkers, Check(c) PROVE OwnerInv'
      <3>1. CASE Proceeds(c) \/ Returns(c)
        BY <2>6, <3>1, OwnerStageStep DEF Proceeds, Returns
      <3>2. CASE Cleans(c)
        <4>1. Entitled(chk[c])
          BY DEF OwnerInv, CheckersAreEntitled
        <4>2. Entitled(chk'[c])
          BY <3>2, <4>1 DEF Cleans, Entitled
        <4>3. QED
          BY <3>2, <4>2, OwnerKept DEF Cleans
      <3>3. CASE RecordVerdict(c)
        BY <3>3, OwnerRecordStep
      <3>4. CASE Registers(c)
        <4>1. chk[c].pc = "register"
          BY <3>4 DEF Registers
        <4>2. RegisterAgent(c)
          BY <2>6, <4>1 DEF Check, CheckFile, LoadImage, LoadUnresolved, InspectImage, DryRun,
             StageFault, CallFails, Cleanup, CleanupFails, RecordVerdict, RecordFails,
             RegistersWhatItRecords
        <4>3. QED
          BY <4>2, OwnerRegisterStep
      <3>5. CASE FailsToRecord(c)
        <4>1. chk[c].pc \in {"record", "register"}
          BY <3>5 DEF FailsToRecord
        <4>2. RegisterAgent(c) \/ RecordVerdict(c)
          BY <2>6, <4>1 DEF Check, CheckFile, LoadImage, LoadUnresolved, InspectImage, DryRun,
             StageFault, CallFails, Cleanup, CleanupFails, RecordFails, RegistersWhatItRecords
        <4>3. QED
          BY <4>2, OwnerRegisterStep, OwnerRecordStep
      <3>6. QED
        BY <2>6, <3>1, <3>2, <3>3, <3>4, <3>5, CheckEffect
    <2>7. ASSUME NEW c \in Checkers, Crash(c) PROVE OwnerInv'
      BY <2>7 DEF Crash, RegistersWhatItRecords
    <2>8. QED
      BY <2>2, <2>3, <2>4, <2>5, <2>6, <2>7 DEF Next
  <1>3. QED
    BY <1>1, <1>2, Inductive, PTL DEF Spec

\* An agent is accepted from one miner only, as long as one checker runs, does not
\* die and can write: an agent with an accepted row has an owner, and the lookup
\* by agent digest turns everybody else away.  (Two checkers race from the lookup
\* to register_agent; a crash or a failed write in between loses the owner.)
THEOREM AgentsHaveOneMiner ==
  OneChecker /\ RegistersWhatItRecords => (Spec => []OneAcceptedOwner)
  <1> SUFFICES ASSUME OneChecker, RegistersWhatItRecords PROVE Spec => []OneAcceptedOwner
    OBVIOUS
  <1>1. IntakeInv /\ OwnerInv => OneAcceptedOwner
    <2> SUFFICES ASSUME IntakeInv, OwnerInv,
                        NEW i \in DOMAIN submissions, NEW j \in DOMAIN submissions,
                        Accepted(i), Accepted(j),
                        submissions[i].agent = submissions[j].agent, submissions[i].agent # None
                 PROVE  submissions[i].miner = submissions[j].miner
      BY DEF OneAcceptedOwner
    <2>1. CASE ~Pending(i) /\ ~Pending(j)
      BY <2>1 DEF OwnerInv, RowsAreOwned, OwnedBy
    <2>2. CASE Pending(i) \/ Pending(j)
      <3>1. PICK c \in Checkers : chk[c].pc = "register" /\ chk[c].row \in {i, j}
        BY <2>2 DEF Pending
      <3>2. submissions[chk[c].row] = chk[c].verdict /\ Entitled(chk[c])
        BY <3>1 DEF IntakeInv, LocalsOK, LocalOK, OwnerInv, CheckersAreEntitled
      <3>3. \A k : Pending(k) => k = chk[c].row
        BY <3>1 DEF OneChecker, Pending
      <3>4. CASE i = j
        BY <3>4
      <3>5. CASE i # j
        BY <3>1, <3>2, <3>3, <3>5 DEF OwnerInv, RowsAreOwned, Entitled, OwnedBy, Accepted
      <3>6. QED
        BY <3>4, <3>5
    <2>3. QED
      BY <2>1, <2>2
  <1>2. Spec => []OwnerInv
    BY OwnerInductive
  <1>3. QED
    BY <1>1, <1>2, Inductive, PTL

\* The owner of an agent is the miner of its first accepted row (db.py, agents:
\* the miner who submitted it first), under the same conditions.
THEOREM FirstAcceptedOwnsAgent ==
  OneChecker /\ RegistersWhatItRecords => (Spec => []FirstAcceptedOwns)
  <1> SUFFICES ASSUME OneChecker, RegistersWhatItRecords PROVE Spec => []FirstAcceptedOwns
    OBVIOUS
  <1>1. IntakeInv /\ OwnerInv => FirstAcceptedOwns
    <2> SUFFICES ASSUME IntakeInv, OwnerInv, NEW a \in Agents, NEW i \in DOMAIN submissions,
                        agents[a] # None, Accepted(i), submissions[i].agent = a
                 PROVE  submissions[agents[a]].miner = submissions[i].miner
      BY DEF FirstAcceptedOwns
    <2>1. a # None
      BY SubmissionNoneAssumption
    <2>2. CASE ~Pending(i)
      BY <2>1, <2>2 DEF OwnerInv, RowsAreOwned, OwnedBy
    <2>3. CASE Pending(i)
      <3>1. PICK c \in Checkers : chk[c].pc = "register" /\ chk[c].row = i
        BY <2>3 DEF Pending
      <3>2. submissions[i] = chk[c].verdict /\ Entitled(chk[c])
        BY <3>1 DEF IntakeInv, LocalsOK, LocalOK, OwnerInv, CheckersAreEntitled
      <3>3. QED
        BY <2>1, <3>1, <3>2 DEF Entitled, OwnedBy, Accepted
    <2>4. QED
      BY <2>2, <2>3
  <1>2. Spec => []OwnerInv
    BY OwnerInductive
  <1>3. QED
    BY <1>1, <1>2, Inductive, PTL

-----------------------------------------------------------------------------
(* Whom a rejection blames *)

\* The only failures are those the code tells from the image's: a daemon that is
\* down and says so, an exception of ours, a failed removal or write, a crash.
OutagesAreRecognised == Faults \cap {"digest", "call"} = {}

\* A verdict that blames the image is about a flawed one.
Deserved(v) == v.why = "image" => Flaw[v.pkg] # "none"

\* What locals l show of a checker that uses its image and judges fairly.
Fair(l) ==
  /\ l.pc \in {"inspect", "dry_run"} => l.pkg \in images
  /\ l.pc \in Holding => Deserved(l.verdict)

BlameInv ==
  /\ \A i \in DOMAIN submissions : Deserved(submissions[i])
  /\ \A c \in Checkers : Fair(chk[c])

\* A step that keeps the rows.
LEMMA BlameKept ==
  ASSUME OneChecker, BlameInv, NEW c \in Checkers, submissions' = submissions,
         chk'[c].pc \in {"inspect", "dry_run"} => chk'[c].pkg \in images',
         chk'[c].pc \in Holding => Deserved(chk'[c].verdict)
  PROVE  BlameInv'
  BY DEF OneChecker, BlameInv, Fair, Deserved

LEMMA BlameStageStep ==
  ASSUME IntakeInv, OneChecker, OutagesAreRecognised, BlameInv, NEW c \in Checkers, Check(c),
         chk[c].pc \in Stages
  PROVE  BlameInv'
  <1>0. TypeOK /\ Fair(chk[c])
    BY DEF IntakeInv, BlameInv
  <1>1. submissions' = submissions /\ SameCheck(c)
    <2>1. chk[c].pc \notin {"cleanup", "record", "register"}
      BY DEF Stages
    <2>2. QED
      BY <2>1, CheckEffect
      DEF Proceeds, Returns, Cleans, RecordVerdict, Registers, FailsToRecord
  <1>2. CASE GoesOn(c)
    <2>1. chk'[c].pc \in {"inspect", "dry_run"} => chk'[c].pkg \in images'
      BY <1>1, <1>2 DEF GoesOn, SameCheck
    <2>2. chk'[c].pc \notin Holding
      BY <1>2 DEF GoesOn, Holding
    <2>3. QED
      BY <1>1, <2>1, <2>2, BlameKept
  <1>3. CASE Concludes(c)
    <2> DEFINE v == chk'[c].verdict
    <2>1. v.pkg = chk[c].pkg
      BY <1>3 DEF Concludes, AboutCheck
    <2>2. ASSUME Rejecting(c, v) PROVE Deserved(v)
      BY <1>0, <2>1, <2>2 DEF Rejecting, Deserved, Fair, OutagesAreRecognised
    <2>3. ASSUME Accepting(c, v) PROVE Deserved(v)
      BY <2>3 DEF Accepting, Deserved
    <2>4. ASSUME Replaying(c, v) PROVE Deserved(v)
      <3>1. PICK i \in DOMAIN submissions :
              /\ v.why = submissions[i].why
              /\ \/ submissions[i].pkg = chk[c].pkg
                 \/ v.agent \in Agents /\ agents[v.agent] = i
        BY <2>4 DEF Replaying
      <3>2. CASE submissions[i].pkg = chk[c].pkg
        BY <2>1, <3>1, <3>2 DEF BlameInv, Deserved
      <3>3. CASE v.agent \in Agents /\ agents[v.agent] = i
        <4>1. i \in 1 .. Len(submissions) /\ i # None
          BY <1>0, Table, SubmissionNoneAssumption
        <4>2. submissions[i].status = "accepted"
          BY <3>3, <4>1 DEF IntakeInv, AgentsAreBacked, Accepted
        <4>3. submissions[i].why = "none"
          BY <4>1, <4>2 DEF IntakeInv, RowsOK, VerdictOK
        <4>4. QED
          BY <3>1, <4>3 DEF Deserved
      <3>4. QED
        BY <3>1, <3>2, <3>3
    <2>5. Deserved(v)
      BY <1>3, <2>2, <2>3, <2>4 DEF Concludes
    <2>6. chk'[c].pc \in {"cleanup", "record"}
      BY <1>3 DEF Concludes
    <2>7. QED
      BY <1>1, <2>5, <2>6, BlameKept
  <1>4. QED
    BY <1>2, <1>3, StageEffect

LEMMA BlameRecordStep ==
  ASSUME IntakeInv, OneChecker, BlameInv, NEW c \in Checkers, RecordVerdict(c)
  PROVE  BlameInv'
  <1> DEFINE n == Len(submissions)
  <1>1. /\ chk[c].pc = "record" /\ chk'[c].pc = "register" /\ chk'[c].verdict = chk[c].verdict
    BY RecordEffect DEF IntakeInv, RecordVerdict
  <1>2. /\ n \in Nat /\ DOMAIN submissions = 1 .. n /\ DOMAIN submissions' = 1 .. (n + 1)
        /\ \A i \in 1 .. n : submissions'[i] = submissions[i]
        /\ submissions'[n + 1] = chk[c].verdict
    BY TableAppended
  <1>3. Deserved(chk[c].verdict)
    BY <1>1 DEF BlameInv, Fair, Holding
  <1> HIDE DEF n
  <1>4. \A i \in 1 .. (n + 1) : Deserved(submissions'[i])
    <2> TAKE i \in 1 .. (n + 1)
    <2>1. CASE i \in 1 .. n
      BY <1>2, <2>1 DEF BlameInv
    <2>2. CASE i = n + 1
      BY <1>2, <1>3, <2>2
    <2>3. QED
      BY <1>2, <2>1, <2>2
  <1>5. \A d \in Checkers : chk'[d].pc = "register" /\ Deserved(chk'[d].verdict)
    BY <1>1, <1>3 DEF OneChecker
  <1>6. QED
    BY <1>2, <1>4, <1>5 DEF BlameInv, Fair, Deserved

LEMMA BlameInductive ==
  ASSUME OneChecker, OutagesAreRecognised
  PROVE  Spec => []BlameInv
  <1>1. Init => BlameInv
    BY DEF Init, BlameInv, Fair, Rest, At, Holding
  <1>2. IntakeInv /\ BlameInv /\ [Next]_vars => BlameInv'
    <2> SUFFICES ASSUME IntakeInv, BlameInv, [Next]_vars PROVE BlameInv'
      OBVIOUS
    <2>0. TypeOK
      BY DEF IntakeInv
    <2>1. ASSUME UNCHANGED <<submissions, images, chk>> PROVE BlameInv'
      BY <2>1 DEF BlameInv, Fair, Deserved
    <2>2. CASE UNCHANGED vars
      BY <2>1, <2>2 DEF vars
    <2>3. ASSUME NEW m \in Miners, NEW p \in Packages, CreateJob(m, p) PROVE BlameInv'
      BY <2>1, <2>3 DEF CreateJob
    <2>4. \A pc \in AtRest : pc \notin {"inspect", "dry_run"} \cup Holding
      BY DEF AtRest, Holding
    <2>5. ASSUME NEW c \in Direct, NEW m \in Miners, NEW p \in Packages, NEW src \in Sources,
                 NEW skip \in Skips, Begin(c, m, p, src, skip)
          PROVE  BlameInv'
      BY <2>4, <2>5, StartEffect, BlameKept
    <2>6. ASSUME NEW w \in Workers, Work(w) PROVE BlameInv'
      BY <2>4, <2>6, WorkEffect, BlameKept DEF Checkers
    <2>7. ASSUME NEW c \in Checkers, Crash(c) PROVE BlameInv'
      <3>1. chk'[c].pc \in {"down", "idle"} /\ submissions' = submissions
        BY <2>0, <2>7, CrashEffect DEF At
      <3>2. QED
        BY <3>1, BlameKept DEF Holding
    <2>8. ASSUME NEW c \in Checkers, Check(c) PROVE BlameInv'
      <3>0. Fair(chk[c])
        BY DEF BlameInv
      <3>1. CASE Proceeds(c) \/ Returns(c)
        BY <2>8, <3>1, BlameStageStep DEF Proceeds, Returns
      <3>2. CASE Cleans(c)
        <4>1. /\ submissions' = submissions /\ chk[c].pc \in Holding /\ chk'[c].pc = "record"
              /\ chk'[c].verdict = chk[c].verdict
          BY <3>2 DEF Cleans, Holding
        <4>2. QED
          BY <3>0, <4>1, BlameKept DEF Fair
      <3>3. CASE RecordVerdict(c)
        BY <3>3, BlameRecordStep
      <3>4. CASE Registers(c) \/ FailsToRecord(c)
        <4>1. submissions' = submissions
          BY <3>4 DEF Registers, FailsToRecord
        <4>2. \/ /\ chk[c].pc \in Holding /\ chk'[c].pc = "finish"
                 /\ chk'[c].verdict = chk[c].verdict
              \/ chk'[c].pc \in {"fail", "idle"}
          BY <3>4 DEF Registers, FailsToRecord, Holding, At
        <4>3. QED
          BY <3>0, <4>1, <4>2, BlameKept DEF Fair, Holding
      <3>5. QED
        BY <2>8, <3>1, <3>2, <3>3, <3>4, CheckEffect
    <2>9. QED
      BY <2>2, <2>3, <2>5, <2>6, <2>7, <2>8 DEF Next
  <1>3. QED
    BY <1>1, <1>2, Inductive, PTL DEF Spec

\* Of "our failures are never the miner's" (secqurityVali/README.md), what holds:
\* a verdict that blames the image, replayed or not, is about a flawed image, if
\* one check runs at a time and every outage shows as a daemon that is down or as
\* an exception (VALIDATOR_FAULT_REASONS).  Any other call that fails, and an
\* image that somebody else removes, blames a sound image.
THEOREM RejectionsDeserved ==
  OneChecker /\ OutagesAreRecognised => (Spec => []RejectionsAreDeserved)
  <1> SUFFICES ASSUME OneChecker, OutagesAreRecognised PROVE Spec => []RejectionsAreDeserved
    OBVIOUS
  <1>1. BlameInv => RejectionsAreDeserved
    BY DEF BlameInv, Deserved, RejectionsAreDeserved
  <1>2. Spec => []BlameInv
    BY BlameInductive
  <1>3. QED
    BY <1>1, <1>2, PTL

-----------------------------------------------------------------------------
(* What stays loaded *)

\* Docker answers what it has loaded, removes what it is asked to, and the
\* process lives to ask for it.
CleansUp == Faults \cap {"digest", "rm", "crash"} = {}

\* A checker with locals l uses image p.
Uses(l, p) == l.pkg = p /\ l.loaded /\ l.pc \in {"inspect", "dry_run", "cleanup"}

UseInv ==
  /\ \A p \in images : \E c \in Checkers : Uses(chk[c], p)
  /\ \A c \in Checkers : chk[c].pc \in {"inspect", "dry_run"} => chk[c].loaded

\* One checker moves: every image that is left is still in use.
LEMMA UseKept ==
  ASSUME UseInv, NEW c \in Checkers, Others(c),
         \A p \in images' : (p \in images /\ ~Uses(chk[c], p)) \/ Uses(chk'[c], p),
         chk'[c].pc \in {"inspect", "dry_run"} => chk'[c].loaded
  PROVE  UseInv'
  <1>1. \A d \in Checkers : d # c => chk'[d] = chk[d]
    BY DEF Others
  <1>2. ASSUME NEW p \in images' PROVE \E d \in Checkers : Uses(chk'[d], p)
    <2>1. CASE Uses(chk'[c], p)
      BY <2>1
    <2>2. CASE p \in images /\ ~Uses(chk[c], p)
      <3>1. PICK d \in Checkers : Uses(chk[d], p)
        BY <2>2 DEF UseInv
      <3>2. QED
        BY <1>1, <2>2, <3>1
    <2>3. QED
      BY <2>1, <2>2
  <1>3. QED
    BY <1>1, <1>2 DEF UseInv, Uses

\* A checker that used no image and uses none.
LEMMA UseRests ==
  ASSUME UseInv, NEW c \in Checkers, Others(c), images' = images,
         chk[c].pc \notin {"inspect", "dry_run", "cleanup"},
         chk'[c].pc \notin {"inspect", "dry_run"}
  PROVE  UseInv'
  BY UseKept DEF Uses

LEMMA UseStageStep ==
  ASSUME IntakeInv, CleansUp, UseInv, NEW c \in Checkers, Check(c), chk[c].pc \in Stages
  PROVE  UseInv'
  <1>1. Others(c) /\ chk'[c].pkg = chk[c].pkg
    <2>1. chk[c].pc \notin {"cleanup", "record", "register"}
      BY DEF Stages
    <2>2. QED
      BY <2>1, CheckEffect
      DEF Proceeds, Returns, Cleans, RecordVerdict, Registers, FailsToRecord, SameCheck
  <1>2. chk[c].pc \in {"inspect", "dry_run"} => chk[c].loaded
    BY DEF UseInv
  <1>4. CASE GoesOn(c)
    <2>1. \A p \in images' : (p \in images /\ ~Uses(chk[c], p)) \/ Uses(chk'[c], p)
      BY <1>1, <1>2, <1>4 DEF GoesOn, Uses
    <2>2. chk'[c].pc \in {"inspect", "dry_run"} => chk'[c].loaded
      BY <1>2, <1>4 DEF GoesOn
    <2>3. QED
      BY <1>1, <2>1, <2>2, UseKept
  <1>5. CASE Concludes(c)
    <2>1. \/ images' = images
          \/ images' = images \cup {chk[c].pkg} /\ chk[c].pc = "dry_run"
      BY <1>5 DEF Concludes, CleansUp
    <2>2. chk[c].loaded => chk'[c].loaded /\ chk'[c].pc = "cleanup"
      BY <1>5 DEF Concludes
    <2>3. \A p \in images' : (p \in images /\ ~Uses(chk[c], p)) \/ Uses(chk'[c], p)
      BY <1>1, <1>2, <2>1, <2>2 DEF Uses
    <2>4. chk'[c].pc \notin {"inspect", "dry_run"}
      BY <1>5 DEF Concludes
    <2>5. QED
      BY <1>1, <2>3, <2>4, UseKept
  <1>6. QED
    BY <1>4, <1>5, StageEffect

LEMMA UseInductive ==
  ASSUME CleansUp
  PROVE  Spec => []UseInv
  <1>1. Init => UseInv
    BY DEF Init, UseInv, Rest, At
  <1>2. IntakeInv /\ UseInv /\ [Next]_vars => UseInv'
    <2> SUFFICES ASSUME IntakeInv, UseInv, [Next]_vars PROVE UseInv'
      OBVIOUS
    <2>0. TypeOK
      BY DEF IntakeInv
    <2>1. ASSUME UNCHANGED <<images, chk>> PROVE UseInv'
      BY <2>1 DEF UseInv, Uses
    <2>2. CASE UNCHANGED vars
      BY <2>1, <2>2 DEF vars
    <2>3. ASSUME NEW m \in Miners, NEW p \in Packages, CreateJob(m, p) PROVE UseInv'
      BY <2>1, <2>3 DEF CreateJob
    <2>4. \A pc \in AtRest \cup {"finish"} : pc \notin {"inspect", "dry_run", "cleanup"}
      BY DEF AtRest
    <2>5. ASSUME NEW c \in Direct, NEW m \in Miners, NEW p \in Packages, NEW src \in Sources,
                 NEW skip \in Skips, Begin(c, m, p, src, skip)
          PROVE  UseInv'
      BY <2>4, <2>5, StartEffect, UseRests
    <2>6. ASSUME NEW w \in Workers, Work(w) PROVE UseInv'
      BY <2>4, <2>6, WorkEffect, UseRests DEF Checkers
    <2>7. ASSUME NEW c \in Checkers, Crash(c) PROVE UseInv'
      BY <2>7 DEF Crash, CleansUp
    <2>8. ASSUME NEW c \in Checkers, Check(c) PROVE UseInv'
      <3>1. CASE chk[c].pc \in Stages
        BY <2>8, <3>1, UseStageStep
      <3>2. CASE chk[c].pc = "cleanup"
        <4>1. images' = images \ {chk[c].pkg} /\ Goto(c, "record")
          BY <2>8, <3>2 DEF Check, CheckFile, LoadImage, LoadUnresolved, InspectImage, DryRun,
             StageFault, CallFails, Cleanup, CleanupFails, RecordVerdict, RegisterAgent,
             RecordFails, CleansUp
        <4>2. Others(c) /\ chk'[c].pc = "record"
          BY <2>0, <4>1, GotoEffect
        <4>3. \A p \in images' : p \in images /\ ~Uses(chk[c], p)
          BY <4>1 DEF Uses
        <4>4. QED
          BY <4>2, <4>3, UseKept
      <3>3. CASE chk[c].pc \in {"record", "register"}
        <4>1. images' = images
          BY <2>8, <3>3 DEF Check, CheckFile, LoadImage, LoadUnresolved, InspectImage, DryRun,
             StageFault, CallFails, Cleanup, CleanupFails, RecordVerdict, RegisterAgent, RecordFails
        <4>2. Others(c) /\ chk'[c].pc \in {"register", "finish", "fail", "idle"}
          BY <2>0, <2>8, <3>3, CheckEffect, RecordEffect
          DEF Proceeds, Returns, Cleans, Registers, FailsToRecord, Stages, At
        <4>3. QED
          BY <3>3, <4>1, <4>2, UseRests
      <3>4. QED
        BY <2>8, <3>1, <3>2, <3>3, CheckEffect
        DEF Proceeds, Returns, Cleans, RecordVerdict, Registers, FailsToRecord
    <2>9. QED
      BY <2>2, <2>3, <2>5, <2>6, <2>7, <2>8 DEF Next
  <1>3. QED
    BY <1>1, <1>2, Inductive, PTL DEF Spec

\* Nothing persists between submissions (pipeline.py): an image is loaded only
\* while a checker that loaded it is inspecting it, running it or removing it,
\* for any number of checkers at once, whatever outages and failed writes there
\* are, unless Docker cannot name or remove it or the process dies.
THEOREM NothingStaysLoaded == CleansUp => (Spec => []NothingPersists)
  <1> SUFFICES ASSUME CleansUp PROVE Spec => []NothingPersists
    OBVIOUS
  <1>1. UseInv => NothingPersists
    BY DEF UseInv, Uses, NothingPersists
  <1>2. Spec => []UseInv
    BY UseInductive
  <1>3. QED
    BY <1>1, <1>2, PTL

=============================================================================
