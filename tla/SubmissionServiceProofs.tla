---------------------- MODULE SubmissionServiceProofs ----------------------
(***************************************************************************)
(* Proofs about SubmissionService, for any number of miners, packages,     *)
(* agents, workers and direct checkers, and every fault.                   *)
(***************************************************************************)
EXTENDS SubmissionService, WellFoundedInduction, TLAPS

Holding == {"cleanup", "record", "register", "finish"}

\* What every verdict v is, given the first n rows of the table s: an accepted
\* one has no reason; the hash of a fresh one is that of its bytes; a replay and
\* a duplicate name a row that justifies them.
VerdictOK(v, s, n) ==
  /\ v.status = "accepted" => v.why = "none"
  /\ ~v.cached /\ v.hash # None => v.hash = v.pkg
  /\ v.cached =>
       /\ v.origin \in 1 .. n
       /\ ~s[v.origin].cached /\ s[v.origin].miner = v.miner
       /\ s[v.origin].status = v.status
       /\ s[v.origin].why = v.why /\ v.why # "fault"
       /\ s[v.origin].pkg = v.pkg \/ s[v.origin].agent = v.agent
  /\ v.why = "duplicate" /\ ~v.cached =>
       /\ v.origin \in 1 .. n
       /\ s[v.origin].status = "accepted"
       /\ s[v.origin].miner # v.miner
       /\ s[v.origin].pkg = v.pkg \/ s[v.origin].agent = v.agent

\* What the locals l of checker c are at each of its steps, given the table s.
LocalOK(c, l, s) ==
  /\ l.pc \in Busy => l.miner \in Miners /\ l.pkg \in Packages
  /\ l.pc \in Holding => l.verdict \in Verdicts /\ VerdictOK(l.verdict, s, Len(s))
  /\ l.pc \in {"register", "finish"} => l.row \in 1 .. Len(s) /\ s[l.row] = l.verdict
  /\ c \in Workers /\ l.pc \in Busy \cup {"update"} => l.job \in JobIds

RowsOK == \A i \in 1 .. Len(submissions) : VerdictOK(submissions[i], submissions, i - 1)

LocalsOK == \A c \in Checkers : LocalOK(c, chk[c], submissions)

JobsOK ==
  \A j \in JobIds : jobs[j].state # "absent" => jobs[j].miner \in Miners /\ jobs[j].pkg \in Packages

\* TypeOK and the pointers between the tables, strengthened to be inductive.
IntakeInv == TypeOK /\ RowsOK /\ LocalsOK /\ JobsOK /\ AgentsAreBacked

\* A worker holds only a job that was posted.
HeldJobs ==
  \A w \in Workers : chk[w].job # None =>
    chk[w].job \in JobIds /\ jobs[chk[w].job].state # "absent"

-----------------------------------------------------------------------------
(* Facts about the operators *)

\* A verdict stays justified when rows are appended.
LEMMA VerdictKept ==
  ASSUME NEW s, NEW t, NEW v, NEW n \in Nat, NEW m \in Nat, n <= m,
         \A i \in 1 .. n : t[i] = s[i], VerdictOK(v, s, n)
  PROVE  VerdictOK(v, t, m)
  BY DEF VerdictOK

\* The table after a verdict is appended.
LEMMA AppendRow ==
  ASSUME NEW s \in Seq(Verdicts), NEW v \in Verdicts
  PROVE  /\ Append(s, v) \in Seq(Verdicts)
         /\ Len(Append(s, v)) = Len(s) + 1
         /\ Len(s) \in Nat
         /\ \A i \in 1 .. Len(s) : Append(s, v)[i] = s[i]
         /\ Append(s, v)[Len(s) + 1] = v
  OBVIOUS

\* The rows of the table.
LEMMA Table ==
  ASSUME TypeOK
  PROVE  /\ Len(submissions) \in Nat /\ Len(submissions) <= MaxRows
         /\ DOMAIN submissions = 1 .. Len(submissions)
         /\ \A i \in 1 .. Len(submissions) : submissions[i] \in Verdicts /\ i \in RowIds
  BY SubmissionBoundAssumption DEF TypeOK, RowIds

\* A checker at rest, or dead, holds nothing.
LEMMA AtOK ==
  ASSUME NEW pc \in {"idle", "down", "dead", "claim"}, NEW c, NEW s
  PROVE  At(pc) \in Locals /\ LocalOK(c, At(pc), s)
  BY DEF At, Locals, LocalOK, Busy, Holding

\* A check that starts knows its miner and its package.
LEMMA StartOK ==
  ASSUME NEW c, NEW s, NEW j \in JobIds \cup {None}, NEW m \in Miners, NEW p \in Packages,
         NEW src \in {"file", "registry"}, NEW skip \in BOOLEAN,
         c \in Workers => j \in JobIds
  PROVE  /\ Start(j, m, p, src, skip) \in Locals
         /\ LocalOK(c, Start(j, m, p, src, skip), s)
  BY DEF Start, At, Locals, LocalOK, Busy, Holding

\* One checker moves, the table stays.
LEMMA CheckerMoves ==
  ASSUME TypeOK, LocalsOK, NEW c \in Checkers, NEW l \in Locals,
         LocalOK(c, l, submissions), submissions' = submissions,
         chk' = [chk EXCEPT ![c] = l]
  PROVE  chk' \in [Checkers -> Locals] /\ LocalsOK'
  <1>1. chk \in [Checkers -> Locals]
    BY DEF TypeOK
  <1>2. chk' \in [Checkers -> Locals]
    BY <1>1
  <1>3. \A d \in Checkers : chk'[d] = IF d = c THEN l ELSE chk[d]
    BY <1>1
  <1>4. ASSUME NEW d \in Checkers PROVE LocalOK(d, chk'[d], submissions)
    BY <1>3 DEF LocalsOK
  <1>5. QED
    BY <1>2, <1>4 DEF LocalsOK

\* A checker goes on to its next stage.
LEMMA GotoMoves ==
  ASSUME TypeOK, LocalsOK, NEW c \in Checkers, submissions' = submissions,
         NEW pc \in {"load", "dry_run", "record", "finish", "fail"}, Goto(c, pc),
         chk[c].pc \in Busy, pc \in Holding => chk[c].pc \in Holding,
         pc = "finish" => chk[c].pc = "register"
  PROVE  chk' \in [Checkers -> Locals] /\ LocalsOK'
  <1> DEFINE l == [chk[c] EXCEPT !.pc = pc]
  <1>1. chk[c] \in Locals /\ LocalOK(c, chk[c], submissions)
    BY DEF TypeOK, LocalsOK
  <1>2. l \in Locals
    BY <1>1 DEF Locals
  <1>3. /\ l.pc = pc /\ l.miner = chk[c].miner /\ l.pkg = chk[c].pkg /\ l.job = chk[c].job
        /\ l.verdict = chk[c].verdict /\ l.row = chk[c].row
    BY <1>1 DEF Locals
  <1>4. LocalOK(c, l, submissions)
    BY <1>1, <1>3 DEF LocalOK, Busy, Holding
  <1>5. chk' = [chk EXCEPT ![c] = l]
    BY DEF Goto, l
  <1> HIDE DEF l
  <1>6. QED
    BY <1>2, <1>4, <1>5, CheckerMoves

\* The pipeline returns a verdict that is justified.
LEMMA ReturnMoves ==
  ASSUME TypeOK, LocalsOK, NEW c \in Checkers, submissions' = submissions,
         NEW v \in Verdicts, VerdictOK(v, submissions, Len(submissions)),
         chk[c].pc \in Busy, Return(c, v)
  PROVE  chk' \in [Checkers -> Locals] /\ LocalsOK'
  <1> DEFINE pc == IF chk[c].loaded THEN "cleanup" ELSE "record"
  <1> DEFINE l == [chk[c] EXCEPT !.verdict = v, !.pc = pc]
  <1>1. chk[c] \in Locals /\ LocalOK(c, chk[c], submissions) /\ chk \in [Checkers -> Locals]
    BY DEF TypeOK, LocalsOK
  <1>0. pc \in {"cleanup", "record"}
    OBVIOUS
  <1>5. chk' = [chk EXCEPT ![c] = l]
    BY <1>1 DEF Return
  <1> HIDE DEF pc
  <1>2. l \in Locals
    BY <1>0, <1>1 DEF Locals
  <1>3. /\ l.pc = pc /\ l.miner = chk[c].miner /\ l.pkg = chk[c].pkg /\ l.job = chk[c].job
        /\ l.verdict = v
    BY <1>1 DEF Locals
  <1>4. LocalOK(c, l, submissions)
    BY <1>0, <1>1, <1>3 DEF LocalOK, Busy, Holding
  <1> HIDE DEF l
  <1>6. QED
    BY <1>2, <1>4, <1>5, CheckerMoves

\* Fresh verdicts: an acceptance, and a rejection of the image or by our fault.
LEMMA FreshOK ==
  ASSUME TypeOK, LocalsOK, NEW c \in Checkers, chk[c].pc \in Busy,
         NEW hash \in {MeasuredHash(c), None}, NEW agent \in Agents \cup {None},
         NEW why \in {"image", "fault"}
  PROVE  /\ Accept(c) \in Verdicts /\ VerdictOK(Accept(c), submissions, Len(submissions))
         /\ Reject(c, hash, agent, why) \in Verdicts
         /\ VerdictOK(Reject(c, hash, agent, why), submissions, Len(submissions))
  <1>1. chk[c] \in Locals /\ chk[c].miner \in Miners /\ chk[c].pkg \in Packages
    BY DEF TypeOK, LocalsOK, LocalOK
  <1>2. MeasuredHash(c) \in {chk[c].pkg, None}
    BY DEF MeasuredHash
  <1>3. AgentOf[chk[c].pkg] \in Agents \cup {None}
    BY <1>1, SubmissionAssumption
  <1>4. chk[c].job \in JobIds \cup {None} /\ chk[c].src \in {"file", "registry"}
    BY <1>1 DEF Locals
  <1>5. QED
    BY <1>1, <1>2, <1>3, <1>4 DEF Accept, Reject, Verdict, Verdicts, VerdictOK

\* A duplicate names an accepted row of another miner.
LEMMA DuplicateOK ==
  ASSUME TypeOK, LocalsOK, NEW c \in Checkers, chk[c].pc \in Busy,
         NEW agent \in Agents \cup {None}, NEW i \in 1 .. Len(submissions),
         submissions[i].status = "accepted", submissions[i].miner # chk[c].miner,
         submissions[i].pkg = chk[c].pkg \/ submissions[i].agent = agent
  PROVE  /\ Duplicate(c, agent, i) \in Verdicts
         /\ VerdictOK(Duplicate(c, agent, i), submissions, Len(submissions))
  <1>1. chk[c] \in Locals /\ chk[c].miner \in Miners /\ chk[c].pkg \in Packages
    BY DEF TypeOK, LocalsOK, LocalOK
  <1>2. MeasuredHash(c) \in {chk[c].pkg, None}
    BY DEF MeasuredHash
  <1>3. chk[c].job \in JobIds \cup {None} /\ chk[c].src \in {"file", "registry"}
    BY <1>1 DEF Locals
  <1>4. i \in RowIds
    BY Table
  <1>5. QED
    BY <1>1, <1>2, <1>3, <1>4 DEF Duplicate, Verdict, Verdicts, VerdictOK

\* A replay repeats a checked row of the same miner.
LEMMA ReplayOK ==
  ASSUME TypeOK, LocalsOK, RowsOK, NEW c \in Checkers, chk[c].pc \in Busy,
         NEW agent \in Agents \cup {None}, NEW i \in 1 .. Len(submissions),
         ~submissions[i].cached, submissions[i].miner = chk[c].miner,
         submissions[i].why # "fault",
         \/ submissions[i].pkg = chk[c].pkg
         \/ agent # None /\ submissions[i].agent = agent
  PROVE  /\ Replay(c, agent, i) \in Verdicts
         /\ VerdictOK(Replay(c, agent, i), submissions, Len(submissions))
  <1>1. chk[c] \in Locals /\ chk[c].miner \in Miners /\ chk[c].pkg \in Packages
    BY DEF TypeOK, LocalsOK, LocalOK
  <1>2. MeasuredHash(c) \in Packages \cup {None}
    BY <1>1 DEF MeasuredHash
  <1>3. chk[c].job \in JobIds \cup {None} /\ chk[c].src \in {"file", "registry"}
    BY <1>1 DEF Locals
  <1>4. i \in RowIds /\ submissions[i] \in Verdicts
    BY Table
  <1>5. submissions[i].status = "accepted" => submissions[i].why = "none"
    BY DEF RowsOK, VerdictOK
  <1> DEFINE h == IF MeasuredHash(c) # None THEN MeasuredHash(c) ELSE submissions[i].hash
             a == IF agent # None THEN agent ELSE submissions[i].agent
  <1>6. h \in Packages \cup {None} /\ a \in Agents \cup {None}
    BY <1>2, <1>4 DEF Verdicts
  <1>7. Replay(c, agent, i) =
          Verdict(c, h, a, submissions[i].status, submissions[i].why, i, TRUE)
    BY DEF Replay
  <1>8. submissions[i].pkg = chk[c].pkg \/ submissions[i].agent = a
    OBVIOUS
  <1> HIDE DEF h, a
  <1>9. /\ submissions[i].status \in {"accepted", "rejected"}
        /\ submissions[i].why \in {"none", "image", "duplicate", "fault"}
    BY <1>4 DEF Verdicts
  <1>10. Replay(c, agent, i) \in Verdicts
    BY <1>1, <1>3, <1>4, <1>6, <1>7, <1>9 DEF Verdict, Verdicts
  <1>11. VerdictOK(Replay(c, agent, i), submissions, Len(submissions))
    BY <1>5, <1>7, <1>8 DEF Verdict, VerdictOK
  <1>12. QED
    BY <1>10, <1>11

-----------------------------------------------------------------------------
(* Steps *)

\* A step of one checker that writes no table.
LEMMA TablesKept ==
  ASSUME IntakeInv, UNCHANGED <<submissions, agents, jobs>>, images' \subseteq Packages,
         chk' \in [Checkers -> Locals], LocalsOK'
  PROVE  IntakeInv'
  BY DEF IntakeInv, TypeOK, RowsOK, JobsOK, AgentsAreBacked, Accepted

\* A set of natural numbers that is not empty has a least element.
LEMMA LeastExists ==
  ASSUME NEW T, T \subseteq Nat, T # {}
  PROVE  \E x \in T : \A y \in T : x <= y
  <1> DEFINE R == OpToRel(<, Nat)
  <1>1. \A x, y \in Nat : x < y => <<x, y>> \in R
    BY DEF OpToRel
  <1>2. IsWellFoundedOn(R, Nat)
    BY NatLessThanWellFounded
  <1> HIDE DEF R
  <1>3. PICK x \in T : \A y \in T : ~(<<y, x>> \in R)
    BY <1>2, WFMin
  <1>4. ASSUME NEW y \in T PROVE x <= y
    <2>1. x \in Nat /\ y \in Nat
      OBVIOUS
    <2>2. ~(y < x)
      BY <1>1, <1>3, <2>1
    <2>3. QED
      BY <2>1, <2>2
  <1>5. QED
    BY <1>4

\* The oldest job of a set of jobs, and the newest row of a set of rows, are in it.
LEMMA OldestIn ==
  ASSUME NEW J \in SUBSET Nat, J # {}
  PROVE  Oldest(J) \in J
  BY LeastExists DEF Oldest

LEMMA LatestIn ==
  ASSUME NEW n \in Nat, NEW I \in SUBSET (1 .. n), I # {}
  PROVE  Latest(I) \in I
  <1> DEFINE T == {t \in Nat : n - t \in I}
  <1>1. \A i \in I : i \in 1 .. n /\ n - i \in T
    <2> TAKE i \in I
    <2>1. i \in 1 .. n
      OBVIOUS
    <2>2. n - i \in Nat /\ n - (n - i) = i
      BY <2>1
    <2>3. QED
      BY <2>1, <2>2
  <1>2. T \subseteq Nat /\ T # {}
    BY <1>1
  <1>3. PICK x \in T : \A y \in T : x <= y
    BY <1>2, LeastExists
  <1>4. ASSUME NEW j \in I PROVE j <= n - x
    <2>1. x <= n - j
      BY <1>1, <1>3
    <2>2. QED
      BY <1>1, <2>1
  <1>5. n - x \in I
    OBVIOUS
  <1>6. QED
    BY <1>4, <1>5 DEF Latest

\* The rows the lookup by file hash considers.
LEMMA CheckedRows ==
  ASSUME IntakeInv, NEW p \in Packages, Checked(p) # {}
  PROVE  LET i == Latest(Checked(p))
         IN /\ i \in 1 .. Len(submissions)
            /\ submissions[i].pkg = p /\ ~submissions[i].cached
            /\ submissions[i].why # "fault"
  <1>1. Len(submissions) \in Nat /\ DOMAIN submissions = 1 .. Len(submissions)
    BY Table DEF IntakeInv
  <1>2. Latest(Checked(p)) \in Checked(p)
    BY <1>1, LatestIn DEF Checked
  <1>3. p # None
    BY SubmissionNoneAssumption
  <1>4. \A i \in Checked(p) : /\ i \in 1 .. Len(submissions)
                              /\ submissions[i].pkg = p /\ ~submissions[i].cached
                              /\ submissions[i].why # "fault"
    BY <1>1, <1>3 DEF Checked, IntakeInv, RowsOK, VerdictOK
  <1>5. QED
    BY <1>2, <1>4

LEMMA CheckFileStep ==
  ASSUME IntakeInv, NEW c \in Checkers, CheckFile(c)
  PROVE  IntakeInv'
  <1>0. TypeOK /\ LocalsOK /\ RowsOK /\ images \subseteq Packages
    BY DEF IntakeInv, TypeOK
  <1>1. chk[c].pc = "file" /\ chk[c].pc \in Busy /\ chk[c].pkg \in Packages
    BY <1>0 DEF CheckFile, LocalsOK, LocalOK, Busy
  <1>2. UNCHANGED <<submissions, agents, jobs, images>>
    BY DEF CheckFile
  <1>3. chk' \in [Checkers -> Locals] /\ LocalsOK'
    <2>1. CASE Return(c, Reject(c, None, None, "image"))
      BY <1>0, <1>1, <1>2, <2>1, FreshOK, ReturnMoves
    <2>2. CASE Goto(c, "load")
      BY <1>0, <1>1, <1>2, <2>2, GotoMoves DEF Holding
    <2>3. CASE Checked(chk[c].pkg) # {} /\ FileLookup(c, Latest(Checked(chk[c].pkg)))
      <3> DEFINE i == Latest(Checked(chk[c].pkg))
      <3>1. /\ i \in 1 .. Len(submissions)
            /\ submissions[i].pkg = chk[c].pkg /\ ~submissions[i].cached
            /\ submissions[i].why # "fault"
        BY <1>1, <2>3, CheckedRows
      <3>2. FileLookup(c, i)
        BY <2>3
      <3> HIDE DEF i
      <3>3. CASE submissions[i].miner = chk[c].miner /\ Return(c, Replay(c, None, i))
        <4>1. /\ Replay(c, None, i) \in Verdicts
              /\ VerdictOK(Replay(c, None, i), submissions, Len(submissions))
          BY <1>0, <1>1, <3>1, <3>3, ReplayOK
        <4>2. QED
          BY <1>0, <1>1, <1>2, <3>3, <4>1, ReturnMoves
      <3>4. CASE /\ submissions[i].miner # chk[c].miner
                 /\ submissions[i].status = "accepted"
                 /\ Return(c, Duplicate(c, None, i))
        <4>1. /\ Duplicate(c, None, i) \in Verdicts
              /\ VerdictOK(Duplicate(c, None, i), submissions, Len(submissions))
          BY <1>0, <1>1, <3>1, <3>4, DuplicateOK
        <4>2. QED
          BY <1>0, <1>1, <1>2, <3>4, <4>1, ReturnMoves
      <3>5. QED
        BY <2>2, <3>2, <3>3, <3>4 DEF FileLookup
    <2>4. QED
      BY <2>1, <2>2, <2>3 DEF CheckFile
  <1>4. QED
    BY <1>0, <1>2, <1>3, TablesKept

LEMMA LoadImageStep ==
  ASSUME IntakeInv, NEW c \in Checkers, LoadImage(c)
  PROVE  IntakeInv'
  <1>0. TypeOK /\ LocalsOK /\ images \subseteq Packages
    BY DEF IntakeInv, TypeOK
  <1>1. chk[c].pc \in {"load", "pull"} /\ chk[c].pc \in Busy /\ chk[c].pkg \in Packages
    BY <1>0 DEF LoadImage, LocalsOK, LocalOK, Busy
  <1>2. UNCHANGED <<submissions, agents, jobs>>
    BY DEF LoadImage
  <1>3. CASE Return(c, Reject(c, MeasuredHash(c), None, "image")) /\ UNCHANGED images
    <2>1. chk' \in [Checkers -> Locals] /\ LocalsOK'
      BY <1>0, <1>1, <1>2, <1>3, FreshOK, ReturnMoves
    <2>2. QED
      BY <1>0, <1>2, <1>3, <2>1, TablesKept
  <1>4. CASE /\ images' = images \cup {chk[c].pkg}
             /\ chk' = [chk EXCEPT ![c].pc = "inspect", ![c].loaded = TRUE]
    <2> DEFINE l == [chk[c] EXCEPT !.pc = "inspect", !.loaded = TRUE]
    <2>1. chk[c] \in Locals /\ LocalOK(c, chk[c], submissions) /\ chk \in [Checkers -> Locals]
      BY <1>0 DEF TypeOK, LocalsOK
    <2>2. chk' = [chk EXCEPT ![c] = l]
      BY <1>4, <2>1
    <2>3. l \in Locals
      BY <2>1 DEF Locals
    <2>4. l.pc = "inspect" /\ l.miner = chk[c].miner /\ l.pkg = chk[c].pkg /\ l.job = chk[c].job
      BY <2>1 DEF Locals
    <2>5. LocalOK(c, l, submissions)
      BY <1>1, <2>1, <2>4 DEF LocalOK, Busy, Holding
    <2> HIDE DEF l
    <2>6. chk' \in [Checkers -> Locals] /\ LocalsOK'
      BY <1>0, <1>2, <2>2, <2>3, <2>5, CheckerMoves
    <2>7. images' \subseteq Packages
      BY <1>0, <1>1, <1>4
    <2>8. QED
      BY <1>2, <2>6, <2>7, TablesKept
  <1>5. QED
    BY <1>3, <1>4 DEF LoadImage

LEMMA LoadUnresolvedStep ==
  ASSUME IntakeInv, NEW c \in Checkers, NEW why \in {"image", "fault"}, LoadUnresolved(c, why)
  PROVE  IntakeInv'
  <1>0. TypeOK /\ LocalsOK /\ images \subseteq Packages
    BY DEF IntakeInv, TypeOK
  <1>1. chk[c].pc \in Busy /\ chk[c].pkg \in Packages
    BY <1>0 DEF LoadUnresolved, LocalsOK, LocalOK, Busy
  <1>2. UNCHANGED <<submissions, agents, jobs>> /\ images' \subseteq Packages
    BY <1>0, <1>1 DEF LoadUnresolved
  <1>3. Return(c, Reject(c, MeasuredHash(c), None, why))
    BY DEF LoadUnresolved
  <1>4. chk' \in [Checkers -> Locals] /\ LocalsOK'
    BY <1>0, <1>1, <1>2, <1>3, FreshOK, ReturnMoves
  <1>5. QED
    BY <1>2, <1>4, TablesKept

LEMMA InspectImageStep ==
  ASSUME IntakeInv, NEW c \in Checkers, InspectImage(c)
  PROVE  IntakeInv'
  <1>0. TypeOK /\ LocalsOK /\ RowsOK /\ AgentsAreBacked /\ images \subseteq Packages
    BY DEF IntakeInv, TypeOK
  <1>1. chk[c].pc \in Busy /\ chk[c].pkg \in Packages
    BY <1>0 DEF InspectImage, LocalsOK, LocalOK, Busy
  <1>2. UNCHANGED <<submissions, agents, jobs, images>>
    BY DEF InspectImage
  <1>3. chk' \in [Checkers -> Locals] /\ LocalsOK'
    <2>1. CASE Return(c, Reject(c, MeasuredHash(c), None, "image"))
      BY <1>0, <1>1, <1>2, <2>1, FreshOK, ReturnMoves
    <2>2. CASE Return(c, Accept(c))
      <3>1. Accept(c) \in Verdicts /\ VerdictOK(Accept(c), submissions, Len(submissions))
        BY <1>0, <1>1, FreshOK
      <3>2. QED
        BY <1>0, <1>1, <1>2, <2>2, <3>1, ReturnMoves
    <2>3. CASE Goto(c, "dry_run")
      BY <1>0, <1>1, <1>2, <2>3, GotoMoves DEF Holding
    <2>4. CASE AgentLookup(c)
      <3> DEFINE a == AgentOf[chk[c].pkg]
                 i == agents[a]
      <3>1. CASE Known(chk[c].pkg) = None
        BY <2>2, <2>3, <2>4, <3>1 DEF AgentLookup
      <3>2. CASE Known(chk[c].pkg) # None
        <4>1. a \in Agents /\ a # None /\ Known(chk[c].pkg) = i /\ i # None
          BY <1>1, <3>2, SubmissionAssumption DEF Known
        <4>2. /\ i \in 1 .. Len(submissions) /\ submissions[i].status = "accepted"
              /\ submissions[i].agent = a /\ ~submissions[i].cached
          BY <1>0, <4>1, Table DEF TypeOK, AgentsAreBacked, Accepted
        <4>3. submissions[i].why = "none"
          BY <1>0, <4>2 DEF RowsOK, VerdictOK
        <4>4. \/ submissions[i].miner = chk[c].miner /\ Return(c, Replay(c, a, i))
              \/ submissions[i].miner # chk[c].miner /\ Return(c, Duplicate(c, a, i))
          BY <2>4, <4>1 DEF AgentLookup
        <4> HIDE DEF a, i
        <4>5. CASE submissions[i].miner = chk[c].miner /\ Return(c, Replay(c, a, i))
          <5>1. /\ Replay(c, a, i) \in Verdicts
                /\ VerdictOK(Replay(c, a, i), submissions, Len(submissions))
            BY <1>0, <1>1, <4>1, <4>2, <4>3, <4>5, ReplayOK
          <5>2. QED
            BY <1>0, <1>1, <1>2, <4>5, <5>1, ReturnMoves
        <4>6. CASE submissions[i].miner # chk[c].miner /\ Return(c, Duplicate(c, a, i))
          <5>1. /\ Duplicate(c, a, i) \in Verdicts
                /\ VerdictOK(Duplicate(c, a, i), submissions, Len(submissions))
            BY <1>0, <1>1, <4>1, <4>2, <4>6, DuplicateOK
          <5>2. QED
            BY <1>0, <1>1, <1>2, <4>6, <5>1, ReturnMoves
        <4>7. QED
          BY <4>4, <4>5, <4>6
      <3>3. QED
        BY <3>1, <3>2
    <2>5. QED
      BY <2>1, <2>4 DEF InspectImage
  <1>4. QED
    BY <1>0, <1>2, <1>3, TablesKept

LEMMA DryRunStep ==
  ASSUME IntakeInv, NEW c \in Checkers, DryRun(c)
  PROVE  IntakeInv'
  <1>0. TypeOK /\ LocalsOK /\ images \subseteq Packages
    BY DEF IntakeInv, TypeOK
  <1>1. chk[c].pc \in Busy /\ chk[c].pkg \in Packages
    BY <1>0 DEF DryRun, LocalsOK, LocalOK, Busy
  <1>2. UNCHANGED <<submissions, agents, jobs>> /\ images' \subseteq Packages
    BY <1>0, <1>1 DEF DryRun
  <1>3. AgentOf[chk[c].pkg] \in Agents \cup {None}
    BY <1>1, SubmissionAssumption
  <1> DEFINE r == Reject(c, MeasuredHash(c), AgentOf[chk[c].pkg], "image")
  <1>4. Return(c, r) \/ Return(c, Accept(c))
    BY DEF DryRun
  <1>5. /\ r \in Verdicts /\ VerdictOK(r, submissions, Len(submissions))
        /\ Accept(c) \in Verdicts /\ VerdictOK(Accept(c), submissions, Len(submissions))
    BY <1>0, <1>1, <1>3, FreshOK
  <1> HIDE DEF r
  <1>6. chk' \in [Checkers -> Locals] /\ LocalsOK'
    BY <1>0, <1>1, <1>2, <1>4, <1>5, ReturnMoves
  <1>7. QED
    BY <1>2, <1>6, TablesKept

\* A stage fails for a reason that is not in the package.
LEMMA FailedMoves ==
  ASSUME TypeOK, LocalsOK, NEW c \in Checkers, NEW why \in {"image", "fault"},
         submissions' = submissions, chk[c].pc \in Busy, chk[c].pkg \in Packages, Failed(c, why)
  PROVE  chk' \in [Checkers -> Locals] /\ LocalsOK'
  <1> DEFINE h == IF chk[c].pc = "file" THEN None ELSE MeasuredHash(c)
             a == IF chk[c].pc = "dry_run" THEN AgentOf[chk[c].pkg] ELSE None
  <1>1. h \in {MeasuredHash(c), None} /\ a \in Agents \cup {None}
    BY SubmissionAssumption
  <1>2. Return(c, Reject(c, h, a, why))
    BY DEF Failed
  <1> HIDE DEF h, a
  <1>3. /\ Reject(c, h, a, why) \in Verdicts
        /\ VerdictOK(Reject(c, h, a, why), submissions, Len(submissions))
    BY <1>1, FreshOK
  <1>4. QED
    BY <1>2, <1>3, ReturnMoves

LEMMA StageFailureStep ==
  ASSUME IntakeInv, NEW c \in Checkers, StageFault(c) \/ CallFails(c)
  PROVE  IntakeInv'
  <1>0. TypeOK /\ LocalsOK /\ images \subseteq Packages
    BY DEF IntakeInv, TypeOK
  <1>1. chk[c].pc \in Busy /\ chk[c].pkg \in Packages
    BY <1>0 DEF StageFault, CallFails, LocalsOK, LocalOK, Busy
  <1>2. UNCHANGED <<submissions, agents, jobs>> /\ images' \subseteq Packages
    BY <1>0, <1>1 DEF StageFault, CallFails
  <1>3. Failed(c, "fault") \/ Failed(c, "image")
    BY DEF StageFault, CallFails
  <1>4. chk' \in [Checkers -> Locals] /\ LocalsOK'
    BY <1>0, <1>1, <1>2, <1>3, FailedMoves
  <1>5. QED
    BY <1>2, <1>4, TablesKept

LEMMA CleanupStep ==
  ASSUME IntakeInv, NEW c \in Checkers, Cleanup(c) \/ CleanupFails(c)
  PROVE  IntakeInv'
  <1>0. TypeOK /\ LocalsOK /\ images \subseteq Packages
    BY DEF IntakeInv, TypeOK
  <1>1. chk[c].pc = "cleanup" /\ Goto(c, "record") /\ images' \subseteq Packages
    BY <1>0 DEF Cleanup, CleanupFails
  <1>2. UNCHANGED <<submissions, agents, jobs>>
    BY DEF Cleanup, CleanupFails
  <1>3. chk' \in [Checkers -> Locals] /\ LocalsOK'
    BY <1>0, <1>1, <1>2, GotoMoves DEF Busy, Holding
  <1>4. QED
    BY <1>1, <1>2, <1>3, TablesKept

\* A checker's locals stay right when another one appends a row.
LEMMA LocalKept ==
  ASSUME NEW c, NEW l \in Locals, NEW s, NEW t, Len(s) \in Nat, Len(t) = Len(s) + 1,
         \A i \in 1 .. Len(s) : t[i] = s[i], LocalOK(c, l, s)
  PROVE  LocalOK(c, l, t)
  <1>1. l.pc \in Holding => VerdictOK(l.verdict, t, Len(t))
    BY VerdictKept DEF LocalOK
  <1>2. l.pc \in {"register", "finish"} => l.row \in 1 .. Len(t) /\ t[l.row] = l.verdict
    BY DEF LocalOK
  <1>3. QED
    BY <1>1, <1>2 DEF LocalOK

LEMMA RecordVerdictStep ==
  ASSUME IntakeInv, NEW c \in Checkers, RecordVerdict(c)
  PROVE  IntakeInv'
  <1> DEFINE n == Len(submissions)
             v == chk[c].verdict
             l == [chk[c] EXCEPT !.pc = "register", !.row = n + 1]
  <1>0. TypeOK /\ LocalsOK /\ RowsOK /\ JobsOK /\ AgentsAreBacked
    BY DEF IntakeInv
  <1>1. /\ chk[c] \in Locals /\ LocalOK(c, chk[c], submissions) /\ chk \in [Checkers -> Locals]
        /\ submissions \in Seq(Verdicts) /\ chk[c].pc = "record"
    BY <1>0 DEF TypeOK, LocalsOK, RecordVerdict
  <1>2. /\ v \in Verdicts /\ VerdictOK(v, submissions, n)
        /\ chk[c].miner \in Miners /\ chk[c].pkg \in Packages
    BY <1>1 DEF LocalOK, Busy, Holding
  <1>3. /\ submissions' \in Seq(Verdicts) /\ Len(submissions') = n + 1 /\ n \in Nat
        /\ \A i \in 1 .. n : submissions'[i] = submissions[i]
        /\ submissions'[n + 1] = v
    BY <1>1, <1>2, AppendRow DEF RecordVerdict
  <1>4. n + 1 \in RowIds /\ n + 1 <= MaxRows
    BY <1>3, SubmissionBoundAssumption DEF RecordVerdict, RowIds
  <1>5. UNCHANGED <<agents, jobs, images>>
    BY DEF RecordVerdict
  <1>6. /\ DOMAIN submissions = 1 .. n /\ DOMAIN submissions' = 1 .. (n + 1)
    BY <1>1, <1>3
  <1>7. chk' = [chk EXCEPT ![c] = l]
    BY <1>1 DEF RecordVerdict
  <1>8. l \in Locals
    BY <1>1, <1>4 DEF Locals
  <1>9. /\ l.pc = "register" /\ l.row = n + 1 /\ l.verdict = v /\ l.miner = chk[c].miner
        /\ l.pkg = chk[c].pkg /\ l.job = chk[c].job
    BY <1>1 DEF Locals
  <1>10. VerdictOK(v, submissions', n) /\ VerdictOK(v, submissions', n + 1)
    BY <1>2, <1>3, VerdictKept
  <1>11. LocalOK(c, l, submissions')
    BY <1>1, <1>2, <1>3, <1>9, <1>10 DEF LocalOK, Busy, Holding
  <1> HIDE DEF l, n, v
  <1>12. TypeOK'
    BY <1>0, <1>1, <1>3, <1>4, <1>5, <1>6, <1>7, <1>8 DEF TypeOK
  <1>13. RowsOK'
    <2> SUFFICES ASSUME NEW i \in 1 .. (n + 1) PROVE VerdictOK(submissions'[i], submissions', i - 1)
      BY <1>3 DEF RowsOK
    <2>1. CASE i \in 1 .. n
      <3>1. VerdictOK(submissions[i], submissions, i - 1)
        BY <1>0, <2>1 DEF RowsOK, n
      <3>2. i - 1 \in Nat /\ \A j \in 1 .. (i - 1) : submissions'[j] = submissions[j]
        BY <1>3, <2>1
      <3>3. QED
        BY <1>3, <2>1, <3>1, <3>2, VerdictKept
    <2>2. CASE i = n + 1
      BY <1>3, <1>10, <2>2
    <2>3. QED
      BY <1>3, <2>1, <2>2
  <1>14. LocalsOK'
    <2> SUFFICES ASSUME NEW d \in Checkers PROVE LocalOK(d, chk'[d], submissions')
      BY DEF LocalsOK
    <2>1. CASE d = c
      BY <1>1, <1>7, <1>11, <2>1
    <2>2. CASE d # c
      <3>1. chk'[d] = chk[d] /\ chk[d] \in Locals /\ LocalOK(d, chk[d], submissions)
        BY <1>0, <1>1, <1>7, <2>2 DEF LocalsOK
      <3>2. QED
        BY <1>3, <3>1, LocalKept DEF n
    <2>3. QED
      BY <2>1, <2>2
  <1>15. JobsOK'
    BY <1>0, <1>5 DEF JobsOK
  <1>16. AgentsAreBacked'
    <2> SUFFICES ASSUME NEW a \in Agents, agents[a] # None
                 PROVE  /\ submissions'[agents[a]].status = "accepted"
                        /\ submissions'[agents[a]].agent = a
                        /\ ~submissions'[agents[a]].cached
      BY <1>5 DEF AgentsAreBacked, Accepted
    <2>1. agents[a] \in 1 .. n
      BY <1>0, <1>6 DEF TypeOK
    <2>2. QED
      BY <1>0, <1>3, <2>1 DEF AgentsAreBacked, Accepted
  <1>17. QED
    BY <1>12, <1>13, <1>14, <1>15, <1>16 DEF IntakeInv

\* A checker is done with its submission.
LEMMA RestMoves ==
  ASSUME TypeOK, LocalsOK, NEW c \in Checkers, submissions' = submissions,
         NEW pc \in {"idle", "down", "dead", "claim"}, chk' = [chk EXCEPT ![c] = At(pc)]
  PROVE  chk' \in [Checkers -> Locals] /\ LocalsOK'
  BY AtOK, CheckerMoves

LEMMA RegisterAgentStep ==
  ASSUME IntakeInv, NEW c \in Checkers, RegisterAgent(c)
  PROVE  IntakeInv'
  <1> DEFINE v == chk[c].verdict
             i == chk[c].row
  <1>0. TypeOK /\ LocalsOK /\ RowsOK /\ JobsOK /\ AgentsAreBacked
    BY DEF IntakeInv
  <1>1. chk[c].pc = "register" /\ chk[c].pc \in Busy /\ LocalOK(c, chk[c], submissions)
    BY <1>0 DEF RegisterAgent, LocalsOK, Busy, Holding
  <1>2. v \in Verdicts /\ i \in 1 .. Len(submissions) /\ submissions[i] = v
    BY <1>1 DEF LocalOK, Holding
  <1>3. UNCHANGED <<submissions, jobs, images>> /\ agents' = Registered(v, i)
    BY DEF RegisterAgent
  <1>4. chk' \in [Checkers -> Locals] /\ LocalsOK'
    <2>1. CASE Goto(c, "finish")
      BY <1>0, <1>1, <1>3, <2>1, GotoMoves DEF Holding
    <2>2. CASE chk' = [chk EXCEPT ![c] = Rest(c)]
      BY <1>0, <1>3, <2>2, RestMoves DEF Rest
    <2>3. QED
      BY <2>1, <2>2 DEF RegisterAgent
  <1> HIDE DEF v, i
  <1>5. CASE agents' = agents
    BY <1>0, <1>3, <1>4, <1>5, TablesKept DEF IntakeInv, TypeOK
  <1>6. CASE /\ ~v.cached /\ v.status = "accepted" /\ v.agent # None
             /\ agents' = [agents EXCEPT ![v.agent] = i]
    <2>1. DOMAIN submissions = 1 .. Len(submissions)
      BY <1>0, Table
    <2>2. v.agent \in Agents
      BY <1>2, <1>6 DEF Verdicts
    <2>3. TypeOK'
      BY <1>0, <1>2, <1>3, <1>4, <1>6, <2>1, <2>2 DEF TypeOK
    <2>4. AgentsAreBacked'
      BY <1>0, <1>2, <1>3, <1>6, <2>2 DEF AgentsAreBacked, Accepted, TypeOK
    <2>5. RowsOK' /\ JobsOK'
      BY <1>0, <1>3 DEF RowsOK, JobsOK
    <2>6. QED
      BY <1>4, <2>3, <2>4, <2>5 DEF IntakeInv
  <1>7. QED
    BY <1>3, <1>5, <1>6 DEF Registered

LEMMA RecordFailsStep ==
  ASSUME IntakeInv, NEW c \in Checkers, RecordFails(c)
  PROVE  IntakeInv'
  <1>0. TypeOK /\ LocalsOK /\ images \subseteq Packages
    BY DEF IntakeInv, TypeOK
  <1>1. chk[c].pc \in Busy /\ UNCHANGED <<submissions, agents, jobs, images>>
    BY DEF RecordFails, Busy, Holding
  <1>2. chk' \in [Checkers -> Locals] /\ LocalsOK'
    <2>1. CASE Goto(c, "fail")
      BY <1>0, <1>1, <2>1, GotoMoves DEF Holding
    <2>2. CASE chk' = [chk EXCEPT ![c] = Rest(c)]
      BY <1>0, <1>1, <2>2, RestMoves DEF Rest
    <2>3. QED
      BY <2>1, <2>2 DEF RecordFails
  <1>3. QED
    BY <1>0, <1>1, <1>2, TablesKept

\* A step that writes the jobs table alone, besides its checker's locals.
LEMMA JobsWritten ==
  ASSUME IntakeInv, UNCHANGED <<submissions, agents, images>>,
         chk' \in [Checkers -> Locals], LocalsOK',
         jobs' \in [JobIds -> JobRecords],
         \A k \in JobIds : /\ jobs'[k].row \in (DOMAIN submissions) \cup {None}
                           /\ jobs'[k].state # "absent" =>
                                jobs'[k].miner \in Miners /\ jobs'[k].pkg \in Packages
  PROVE  IntakeInv'
  BY DEF IntakeInv, TypeOK, RowsOK, JobsOK, AgentsAreBacked, Accepted

\* One job changes state; its row stays, or becomes one of the table.
LEMMA JobMoves ==
  ASSUME IntakeInv, NEW j \in JobIds, UNCHANGED <<submissions, agents, images>>,
         chk' \in [Checkers -> Locals], LocalsOK',
         NEW r \in JobRecords, jobs' = [jobs EXCEPT ![j] = r],
         r.row \in (DOMAIN submissions) \cup {None}, r.miner \in Miners, r.pkg \in Packages
  PROVE  IntakeInv'
  <1>1. jobs \in [JobIds -> JobRecords] /\ JobsOK
    BY DEF IntakeInv, TypeOK
  <1>2. jobs' \in [JobIds -> JobRecords]
    BY <1>1
  <1>3. \A k \in JobIds : jobs'[k] = IF k = j THEN r ELSE jobs[k]
    BY <1>1
  <1>4. \A k \in JobIds : jobs[k].row \in (DOMAIN submissions) \cup {None}
    BY DEF IntakeInv, TypeOK
  <1>5. QED
    BY <1>1, <1>2, <1>3, <1>4, JobsWritten DEF JobsOK

LEMMA CreateJobStep ==
  ASSUME IntakeInv, NEW m \in Miners, NEW p \in Packages, CreateJob(m, p)
  PROVE  IntakeInv'
  <1> DEFINE j == Oldest(InState("absent"))
             r == [state |-> "queued", miner |-> m, pkg |-> p, row |-> None]
  <1>1. InState("absent") \subseteq JobIds /\ JobIds \subseteq Nat /\ InState("absent") # {}
    BY DEF InState, JobIds, CreateJob
  <1>2. j \in JobIds
    BY <1>1, OldestIn
  <1>3. r \in JobRecords /\ r.row = None /\ r.miner = m /\ r.pkg = p
    BY DEF JobRecords
  <1>4. jobs' = [jobs EXCEPT ![j] = r] /\ UNCHANGED <<submissions, agents, images, chk>>
    BY DEF CreateJob
  <1>5. chk' \in [Checkers -> Locals] /\ LocalsOK'
    BY <1>4 DEF IntakeInv, TypeOK, LocalsOK
  <1> HIDE DEF j, r
  <1>6. QED
    BY <1>2, <1>3, <1>4, <1>5, JobMoves

LEMMA BootStep ==
  ASSUME IntakeInv, NEW w \in Workers, Boot(w)
  PROVE  IntakeInv'
  <1>0. w \in Checkers /\ TypeOK /\ LocalsOK /\ JobsOK
    BY DEF IntakeInv, Checkers
  <1>1. UNCHANGED <<submissions, agents, images>> /\ jobs' = Requeued
    BY DEF Boot
  <1>2. chk' \in [Checkers -> Locals] /\ LocalsOK'
    BY <1>0, <1>1, RestMoves DEF Boot, Rest
  <1>3. ASSUME NEW k \in JobIds
        PROVE  /\ jobs'[k] \in JobRecords
               /\ jobs'[k].row = jobs[k].row /\ jobs'[k].miner = jobs[k].miner
               /\ jobs'[k].pkg = jobs[k].pkg
               /\ jobs'[k].state = "absent" <=> jobs[k].state = "absent"
    <2>1. jobs[k] \in JobRecords
      BY <1>0 DEF TypeOK
    <2>2. jobs'[k] = IF jobs[k].state = "running"
                     THEN [jobs[k] EXCEPT !.state = "queued"] ELSE jobs[k]
      BY <1>1 DEF Requeued
    <2>3. QED
      BY <2>1, <2>2 DEF JobRecords
  <1>4. jobs' \in [JobIds -> JobRecords]
    BY <1>1, <1>3 DEF Requeued
  <1>5. \A k \in JobIds : jobs[k].row \in (DOMAIN submissions) \cup {None}
    BY <1>0 DEF TypeOK
  <1>6. QED
    BY <1>0, <1>1, <1>2, <1>3, <1>4, <1>5, JobsWritten DEF JobsOK

LEMMA ClaimSelectStep ==
  ASSUME IntakeInv, NEW w \in Workers, ClaimSelect(w)
  PROVE  IntakeInv'
  <1> DEFINE j == Oldest(InState("queued"))
             l == [chk[w] EXCEPT !.pc = "update", !.job = j]
  <1>0. w \in Checkers /\ TypeOK /\ LocalsOK /\ images \subseteq Packages
    BY DEF IntakeInv, Checkers, TypeOK
  <1>1. InState("queued") \subseteq JobIds /\ JobIds \subseteq Nat /\ InState("queued") # {}
    BY DEF InState, JobIds, ClaimSelect
  <1>2. j \in JobIds
    BY <1>1, OldestIn
  <1>3. chk \in [Checkers -> Locals] /\ chk[w] \in Locals
    BY <1>0 DEF TypeOK
  <1>4. UNCHANGED <<submissions, agents, jobs, images>> /\ chk' = [chk EXCEPT ![w] = l]
    BY <1>3 DEF ClaimSelect
  <1> HIDE DEF j
  <1>5. l \in Locals /\ l.pc = "update" /\ l.job = j
    BY <1>2, <1>3 DEF Locals
  <1>6. LocalOK(w, l, submissions)
    BY <1>2, <1>5 DEF LocalOK, Busy, Holding
  <1> HIDE DEF l
  <1>7. chk' \in [Checkers -> Locals] /\ LocalsOK'
    BY <1>0, <1>4, <1>5, <1>6, CheckerMoves
  <1>8. QED
    BY <1>0, <1>4, <1>7, TablesKept

LEMMA ClaimUpdateStep ==
  ASSUME IntakeInv, NEW w \in Workers, ClaimUpdate(w)
  PROVE  IntakeInv'
  <1> DEFINE j == chk[w].job
  <1>0. w \in Checkers /\ TypeOK /\ LocalsOK /\ JobsOK /\ images \subseteq Packages
    BY DEF IntakeInv, Checkers, TypeOK
  <1>1. j \in JobIds
    BY <1>0 DEF ClaimUpdate, LocalsOK, LocalOK
  <1>2. UNCHANGED <<submissions, agents, images>>
    BY DEF ClaimUpdate
  <1>3. CASE /\ jobs[j].state = "queued"
             /\ jobs' = [jobs EXCEPT ![j].state = "running"]
             /\ chk' = [chk EXCEPT ![w] = Start(j, jobs[j].miner, jobs[j].pkg, "registry", FALSE)]
    <2> DEFINE r == [jobs[j] EXCEPT !.state = "running"]
    <2>1. /\ jobs \in [JobIds -> JobRecords] /\ jobs[j] \in JobRecords
          /\ jobs[j].row \in (DOMAIN submissions) \cup {None}
          /\ jobs[j].miner \in Miners /\ jobs[j].pkg \in Packages
      BY <1>0, <1>1, <1>3 DEF TypeOK, JobsOK
    <2>2. /\ r \in JobRecords /\ r.row = jobs[j].row /\ r.miner = jobs[j].miner
          /\ r.pkg = jobs[j].pkg
      BY <2>1 DEF JobRecords
    <2>3. jobs' = [jobs EXCEPT ![j] = r]
      BY <1>3, <2>1
    <2>4. chk' \in [Checkers -> Locals] /\ LocalsOK'
      BY <1>0, <1>1, <1>2, <1>3, <2>1, StartOK, CheckerMoves
    <2> HIDE DEF r, j
    <2>5. QED
      BY <1>1, <1>2, <2>1, <2>2, <2>3, <2>4, JobMoves
  <1>4. CASE chk' = [chk EXCEPT ![w] = Rest(w)] /\ UNCHANGED jobs
    <2>1. chk' \in [Checkers -> Locals] /\ LocalsOK'
      BY <1>0, <1>2, <1>4, RestMoves DEF Rest
    <2>2. QED
      BY <1>0, <1>2, <1>4, <2>1, TablesKept
  <1>5. QED
    BY <1>3, <1>4 DEF ClaimUpdate, Claimable

\* Both forms of finish_job.
LEMMA SettleStep ==
  ASSUME IntakeInv, HeldJobs, NEW w \in Workers, FinishJob(w) \/ FailJob(w)
  PROVE  IntakeInv'
  <1> DEFINE j == chk[w].job
  <1>0. w \in Checkers /\ TypeOK /\ LocalsOK /\ JobsOK
    BY DEF IntakeInv, Checkers
  <1>1. chk[w].pc \in {"finish", "fail"} /\ LocalOK(w, chk[w], submissions)
    BY <1>0 DEF FinishJob, FailJob, LocalsOK
  <1>2. j \in JobIds /\ j # None
    BY <1>1, SubmissionNoneAssumption DEF LocalOK, Busy, Holding, JobIds
  <1>3. /\ jobs \in [JobIds -> JobRecords] /\ jobs[j] \in JobRecords
        /\ jobs[j].miner \in Miners /\ jobs[j].pkg \in Packages
    BY <1>0, <1>2 DEF TypeOK, JobsOK, HeldJobs
  <1>4. chk' = [chk EXCEPT ![w] = Rest(w)] /\ UNCHANGED <<submissions, agents, images>>
    BY DEF FinishJob, FailJob
  <1>5. chk' \in [Checkers -> Locals] /\ LocalsOK'
    BY <1>0, <1>4, RestMoves DEF Rest
  <1>6. ASSUME NEW st \in {"done", "failed"}, NEW i \in RowIds \cup {None},
               i \in (DOMAIN submissions) \cup {None},
               jobs' = [jobs EXCEPT ![j].state = st, ![j].row = i]
        PROVE  IntakeInv'
    <2> DEFINE r == [jobs[j] EXCEPT !.state = st, !.row = i]
    <2>1. jobs' = [jobs EXCEPT ![j] = r]
      BY <1>2, <1>3, <1>6
    <2>2. r \in JobRecords /\ r.row = i /\ r.miner = jobs[j].miner /\ r.pkg = jobs[j].pkg
      BY <1>3 DEF JobRecords
    <2> HIDE DEF r, j
    <2>3. QED
      BY <1>2, <1>3, <1>4, <1>5, <1>6, <2>1, <2>2, JobMoves
  <1>7. CASE FinishJob(w)
    <2>1. chk[w].row \in RowIds /\ chk[w].row \in DOMAIN submissions
      BY <1>0, <1>1, <1>7, Table DEF FinishJob, LocalOK
    <2>2. QED
      BY <1>6, <1>7, <2>1 DEF FinishJob, RecordedRow
  <1>8. CASE FailJob(w)
    BY <1>6, <1>8 DEF FailJob
  <1>9. QED
    BY <1>7, <1>8

LEMMA WorkerWriteFailsStep ==
  ASSUME IntakeInv, NEW w \in Workers, WorkerWriteFails(w)
  PROVE  IntakeInv'
  <1>0. w \in Checkers /\ TypeOK /\ LocalsOK /\ images \subseteq Packages
    BY DEF IntakeInv, Checkers, TypeOK
  <1>1. UNCHANGED <<submissions, agents, jobs, images>>
    BY DEF WorkerWriteFails
  <1>2. chk' \in [Checkers -> Locals] /\ LocalsOK'
    <2>1. CASE chk[w].pc = "finish" /\ Goto(w, "fail")
      BY <1>0, <1>1, <2>1, GotoMoves DEF Busy, Holding
    <2>2. CASE chk' = [chk EXCEPT ![w] = At("dead")]
      BY <1>0, <1>1, <2>2, RestMoves
    <2>3. QED
      BY <2>1, <2>2 DEF WorkerWriteFails
  <1>3. QED
    BY <1>0, <1>1, <1>2, TablesKept

\* A direct checker starts a check, or a process dies.
LEMMA BeginStep ==
  ASSUME IntakeInv, NEW c \in Direct, NEW m \in Miners, NEW p \in Packages,
         NEW src \in Sources, NEW skip \in Skips, Begin(c, m, p, src, skip)
  PROVE  IntakeInv'
  <1>0. c \in Checkers /\ TypeOK /\ LocalsOK /\ images \subseteq Packages
    BY DEF IntakeInv, Checkers, TypeOK
  <1>1. c \notin Workers /\ src \in {"file", "registry"} /\ skip \in BOOLEAN
    BY SubmissionAssumption
  <1>2. /\ UNCHANGED <<submissions, agents, jobs, images>>
        /\ chk' = [chk EXCEPT ![c] = Start(None, m, p, src, skip)]
    BY DEF Begin
  <1>3. /\ Start(None, m, p, src, skip) \in Locals
        /\ LocalOK(c, Start(None, m, p, src, skip), submissions)
    BY <1>1, StartOK
  <1>4. chk' \in [Checkers -> Locals] /\ LocalsOK'
    BY <1>0, <1>2, <1>3, CheckerMoves
  <1>5. QED
    BY <1>0, <1>2, <1>4, TablesKept

LEMMA CrashStep ==
  ASSUME IntakeInv, NEW c \in Checkers, Crash(c)
  PROVE  IntakeInv'
  <1>0. TypeOK /\ LocalsOK /\ images \subseteq Packages
    BY DEF IntakeInv, TypeOK
  <1>1. UNCHANGED <<submissions, agents, jobs, images>>
    BY DEF Crash
  <1>2. chk' = [chk EXCEPT ![c] = At("down")] \/ chk' = [chk EXCEPT ![c] = At("idle")]
    BY DEF Crash
  <1>3. chk' \in [Checkers -> Locals] /\ LocalsOK'
    BY <1>0, <1>1, <1>2, RestMoves
  <1>4. QED
    BY <1>0, <1>1, <1>3, TablesKept

-----------------------------------------------------------------------------
(* The invariant *)

\* Every step of a check keeps the invariant.
LEMMA CheckStep ==
  ASSUME IntakeInv, NEW c \in Checkers, Check(c)
  PROVE  IntakeInv'
  BY CheckFileStep, LoadImageStep, LoadUnresolvedStep, InspectImageStep, DryRunStep,
     StageFailureStep, CleanupStep, RecordVerdictStep, RegisterAgentStep, RecordFailsStep
  DEF Check

\* A worker holds only a job that was posted: no step takes a job out of the
\* table, and a worker changes the job it holds only by selecting a queued one.
LEMMA HeldStep ==
  ASSUME TypeOK, HeldJobs, Next
  PROVE  HeldJobs'
  <1>0. chk \in [Checkers -> Locals] /\ jobs \in [JobIds -> JobRecords]
    BY DEF TypeOK
  <1>1. ASSUME NEW c \in Checkers, Check(c) \/ Crash(c)
        PROVE  /\ jobs' = jobs
               /\ \A w \in Workers : chk'[w].job \in {chk[w].job, None}
    <2>1. jobs' = jobs
      BY <1>1 DEF Check, Crash, CheckFile, LoadImage, LoadUnresolved, InspectImage, DryRun,
                  StageFault, CallFails, Cleanup, CleanupFails, RecordVerdict, RegisterAgent, RecordFails
    <2>2. \A w \in Workers : w \in Checkers
      BY DEF Checkers
    <2>3. ASSUME NEW v, Return(c, v)
          PROVE  \A w \in Workers : chk'[w].job = chk[w].job
      BY <1>0, <2>2, <2>3 DEF Return, Locals
    <2>4. ASSUME NEW pc, Goto(c, pc)
          PROVE  \A w \in Workers : chk'[w].job = chk[w].job
      BY <1>0, <2>2, <2>4 DEF Goto, Locals
    <2>5. ASSUME NEW pc, chk' = [chk EXCEPT ![c] = At(pc)]
          PROVE  \A w \in Workers : chk'[w].job \in {chk[w].job, None}
      BY <1>0, <2>2, <2>5 DEF At
    <2>6. CASE CheckFile(c)
      BY <2>1, <2>3, <2>4, <2>6 DEF CheckFile, FileLookup
    <2>7. CASE LoadImage(c)
      <3>1. ASSUME chk' = [chk EXCEPT ![c].pc = "inspect", ![c].loaded = TRUE]
            PROVE  \A w \in Workers : chk'[w].job = chk[w].job
        BY <1>0, <2>2, <3>1 DEF Locals
      <3>2. QED
        BY <2>1, <2>3, <2>7, <3>1 DEF LoadImage
    <2>8. CASE \E why \in {"image", "fault"} : LoadUnresolved(c, why)
      BY <2>1, <2>3, <2>8 DEF LoadUnresolved
    <2>9. CASE InspectImage(c)
      BY <2>1, <2>3, <2>4, <2>9 DEF InspectImage, AgentLookup
    <2>10. CASE DryRun(c)
      BY <2>1, <2>3, <2>10 DEF DryRun
    <2>11. CASE StageFault(c) \/ CallFails(c)
      BY <2>1, <2>3, <2>11 DEF StageFault, CallFails, Failed
    <2>12. CASE Cleanup(c) \/ CleanupFails(c)
      BY <2>1, <2>4, <2>12 DEF Cleanup, CleanupFails
    <2>13. CASE RecordVerdict(c)
      BY <1>0, <2>1, <2>2, <2>13 DEF RecordVerdict, Locals
    <2>14. CASE RegisterAgent(c) \/ RecordFails(c)
      BY <2>1, <2>4, <2>5, <2>14 DEF RegisterAgent, RecordFails, Rest
    <2>15. CASE Crash(c)
      BY <2>1, <2>5, <2>15 DEF Crash
    <2>16. QED
      BY <1>1, <2>6, <2>7, <2>8, <2>9, <2>10, <2>11, <2>12, <2>13, <2>14, <2>15 DEF Check
  <1>2. CASE \E c \in Checkers : Check(c) \/ Crash(c)
    BY <1>1, <1>2 DEF HeldJobs
  <1>3. CASE \E m \in Miners, p \in Packages : CreateJob(m, p)
    <2>1. chk' = chk /\ \A k \in JobIds : jobs[k].state # "absent" => jobs'[k].state # "absent"
      BY <1>0, <1>3 DEF CreateJob
    <2>2. QED
      BY <2>1 DEF HeldJobs
  <1>4. CASE \E c \in Direct, m \in Miners, p \in Packages, src \in Sources, skip \in Skips :
               Begin(c, m, p, src, skip)
    <2>1. jobs' = jobs /\ \A w \in Workers : chk'[w] = chk[w]
      BY <1>0, <1>4, SubmissionAssumption DEF Begin, Checkers
    <2>2. QED
      BY <2>1 DEF HeldJobs
  <1>5. ASSUME NEW w \in Workers, Work(w) PROVE HeldJobs'
    <2>1. w \in Checkers /\ \A v \in Workers : v \in Checkers
      BY DEF Checkers
    <2>2. ASSUME NEW pc, chk' = [chk EXCEPT ![w] = At(pc)],
                 \A k \in JobIds : jobs[k].state # "absent" => jobs'[k].state # "absent"
          PROVE  HeldJobs'
      BY <1>0, <2>1, <2>2 DEF At, HeldJobs
    <2>3. CASE Boot(w)
      <3>1. \A k \in JobIds : jobs[k].state # "absent" => jobs'[k].state # "absent"
        BY <1>0, <2>3 DEF Boot, Requeued, JobRecords
      <3>2. QED
        BY <2>2, <2>3, <3>1 DEF Boot, Rest
    <2>4. CASE ClaimSelect(w)
      <3> DEFINE j == Oldest(InState("queued"))
      <3>1. InState("queued") \in SUBSET Nat /\ InState("queued") # {}
        BY <2>4 DEF ClaimSelect, InState, JobIds
      <3>2. j \in JobIds /\ jobs[j].state = "queued"
        BY <3>1, OldestIn DEF InState
      <3>3. jobs' = jobs /\ \A v \in Workers : chk'[v].job = IF v = w THEN j ELSE chk[v].job
        BY <1>0, <2>1, <2>4 DEF ClaimSelect, Locals
      <3> HIDE DEF j
      <3>4. QED
        BY <3>2, <3>3 DEF HeldJobs
    <2>5. CASE ClaimUpdate(w)
      <3> DEFINE j == chk[w].job
      <3>1. CASE jobs' = jobs /\ chk' = [chk EXCEPT ![w] = Rest(w)]
        BY <2>2, <3>1 DEF Rest
      <3>2. CASE /\ jobs[j].state = "queued"
                 /\ jobs' = [jobs EXCEPT ![j].state = "running"]
                 /\ chk' = [chk EXCEPT ![w] =
                              Start(j, jobs[j].miner, jobs[j].pkg, "registry", FALSE)]
        <4>1. \A k \in JobIds : jobs[k].state # "absent" => jobs'[k].state # "absent"
          BY <1>0, <3>2 DEF JobRecords
        <4>2. \A v \in Workers : chk'[v].job = chk[v].job
          BY <1>0, <2>1, <3>2 DEF Start, At
        <4>3. QED
          BY <4>1, <4>2 DEF HeldJobs
      <3>3. QED
        BY <2>5, <3>1, <3>2 DEF ClaimUpdate, Claimable
    <2>6. CASE FinishJob(w) \/ FailJob(w)
      <3>1. \A k \in JobIds : jobs[k].state # "absent" => jobs'[k].state # "absent"
        BY <1>0, <2>6 DEF FinishJob, FailJob, JobRecords
      <3>2. QED
        BY <2>2, <2>6, <3>1 DEF FinishJob, FailJob, Rest
    <2>7. CASE WorkerWriteFails(w)
      <3>1. CASE Goto(w, "fail")
        <4>1. jobs' = jobs /\ \A v \in Workers : chk'[v].job = chk[v].job
          BY <1>0, <2>1, <2>7, <3>1 DEF Goto, WorkerWriteFails, Locals
        <4>2. QED
          BY <4>1 DEF HeldJobs
      <3>2. QED
        BY <2>2, <2>7, <3>1 DEF WorkerWriteFails
    <2>8. QED
      BY <1>5, <2>3, <2>4, <2>5, <2>6, <2>7 DEF Work
  <1>6. QED
    BY <1>2, <1>3, <1>4, <1>5 DEF Next

\* The invariant holds of every behaviour.
LEMMA Inductive == Spec => [](IntakeInv /\ HeldJobs)
  <1>1. Init => IntakeInv /\ HeldJobs
    <2> SUFFICES ASSUME Init PROVE IntakeInv /\ HeldJobs
      OBVIOUS
    <2>1. submissions = << >> /\ Len(submissions) = 0 /\ submissions \in Seq(Verdicts)
      BY DEF Init
    <2>2. /\ agents = [a \in Agents |-> None] /\ jobs = [j \in JobIds |-> NoJob]
          /\ images = {}
          /\ chk = [c \in Checkers |-> IF c \in Workers THEN At("down") ELSE At("idle")]
      BY DEF Init, Rest
    <2>3. \A c \in Checkers : chk[c] \in Locals /\ LocalOK(c, chk[c], submissions)
      BY <2>2, AtOK
    <2>4. NoJob \in JobRecords /\ NoJob.row = None /\ NoJob.state = "absent"
      BY DEF NoJob, JobRecords
    <2>5. TypeOK
      BY <2>1, <2>2, <2>3, <2>4, SubmissionBoundAssumption DEF TypeOK
    <2>6. RowsOK /\ LocalsOK /\ JobsOK /\ AgentsAreBacked
      BY <2>1, <2>2, <2>3, <2>4 DEF RowsOK, LocalsOK, JobsOK, AgentsAreBacked
    <2>7. HeldJobs
      BY <2>2 DEF HeldJobs, Checkers, At
    <2>8. QED
      BY <2>5, <2>6, <2>7 DEF IntakeInv
  <1>2. IntakeInv /\ HeldJobs /\ [Next]_vars => (IntakeInv /\ HeldJobs)'
    <2> SUFFICES ASSUME IntakeInv, HeldJobs, [Next]_vars PROVE (IntakeInv /\ HeldJobs)'
      OBVIOUS
    <2>1. CASE UNCHANGED vars
      BY <2>1 DEF vars, IntakeInv, TypeOK, RowsOK, LocalsOK, JobsOK, AgentsAreBacked, Accepted,
                  HeldJobs
    <2>2. CASE Next
      <3>1. HeldJobs'
        BY <2>2, HeldStep DEF IntakeInv
      <3>2. ASSUME NEW w \in Workers, Work(w) PROVE IntakeInv'
        BY <3>2, BootStep, ClaimSelectStep, ClaimUpdateStep, SettleStep, WorkerWriteFailsStep
        DEF Work
      <3>3. IntakeInv'
        BY <2>2, <3>2, CheckStep, CrashStep, CreateJobStep, BeginStep DEF Next
      <3>4. QED
        BY <3>1, <3>3
    <2>3. QED
      BY <2>1, <2>2
  <1>3. QED
    BY <1>1, <1>2, PTL DEF Spec

-----------------------------------------------------------------------------
(* Theorems *)

\* The tables, the daemon and every checker's locals stay in their domains, and
\* no row id dangles: not in agents.first_submission, not in jobs.submission_id.
THEOREM TypeCorrect == Spec => []TypeOK
  <1>1. IntakeInv => TypeOK
    BY DEF IntakeInv
  <1>2. QED
    BY <1>1, Inductive, PTL

\* register_agent stores an agent only under a row that accepted it after
\* running the checks, whatever the checkers' interleaving, crashes and faults.
THEOREM BackedAgents == Spec => []AgentsAreBacked
  <1>1. IntakeInv => AgentsAreBacked
    BY DEF IntakeInv
  <1>2. QED
    BY <1>1, Inductive, PTL

\* _cached_verdict repeats an earlier row of the same miner that did the work,
\* and never one of the validator's own failures.
THEOREM GroundedReplays == Spec => []ReplaysAreGrounded
  <1>1. IntakeInv => ReplaysAreGrounded
    <2> SUFFICES ASSUME IntakeInv PROVE ReplaysAreGrounded
      OBVIOUS
    <2>1. Len(submissions) \in Nat /\ DOMAIN submissions = 1 .. Len(submissions)
      BY Table DEF IntakeInv
    <2>2. QED
      BY <2>1 DEF IntakeInv, RowsOK, VerdictOK, ReplaysAreGrounded
  <1>2. QED
    BY <1>1, Inductive, PTL

\* _duplicate_verdict turns a submission away only against an earlier accepted
\* row of another miner, on the same bytes or the same agent.
THEOREM JustifiedDuplicates == Spec => []DuplicatesNameAnOwner
  <1>1. IntakeInv => DuplicatesNameAnOwner
    <2> SUFFICES ASSUME IntakeInv PROVE DuplicatesNameAnOwner
      OBVIOUS
    <2>1. Len(submissions) \in Nat /\ DOMAIN submissions = 1 .. Len(submissions)
      BY Table DEF IntakeInv
    <2>2. QED
      BY <2>1 DEF IntakeInv, RowsOK, VerdictOK, DuplicatesNameAnOwner, Accepted
  <1>2. QED
    BY <1>1, Inductive, PTL

=============================================================================
