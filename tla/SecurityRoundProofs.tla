------------------------ MODULE SecurityRoundProofs ------------------------
(***************************************************************************)
(* Proofs about SecurityRound, for any number of uids, hotkeys and         *)
(* categories, any rewards, windows and budgets, every fault, and any      *)
(* number of registrations and restarts.  What a weight submission emits   *)
(* is the business of WeightEmissionProofs.                                *)
(***************************************************************************)
EXTENDS SecurityRound, WeightEmissionProofs

\* TypeOK, without the bounds of the clocks, and with pending records of
\* qualified agents only.
RoundType(q) ==
  [pc : {"idle", "ask", "evaluate", "publish", "down"},
   answer : [UIDs -> Hotkeys \cup {None}],
   at : UIDs \cup {None}, hotkey : Hotkeys \cup {None},
   now : Nat, spent : Nat, folded : BOOLEAN, pending : SUBSET q]

StateOK ==
  /\ chain.hot \in [UIDs -> Hotkeys] /\ meta.hot \in [UIDs -> Hotkeys]
  /\ scores \in [UIDs -> 0 .. Perfect]
  /\ cells \in Matrix
  /\ disk \in [cells : Matrix, listed : SUBSET qualified]
  /\ round \in RoundType(qualified)

\* While the process is down there are no scores to back.
DownIsClear == round.pc = "down" => \A u \in UIDs : scores[u] = 0

RoundInv == StateOK /\ DownIsClear /\ ScoresAreBacked /\ MarketIsEarned

\* The positive evidence of hotkey h in m.
Positive(m, h) == {c \in Categories : m[h][c] # None /\ m[h][c].score > 0}

\* n loses no positive evidence of m for the hotkeys of the metagraph.
KeepsEvidence(m, n) ==
  \A u \in UIDs : Positive(m, meta.hot[u]) # {} => Positive(n, meta.hot[u]) # {}

-----------------------------------------------------------------------------
(* The matrix *)

LEMMA ConstantTypes ==
  /\ IsFiniteSet(Categories) /\ Full \in Nat /\ Full > 0 /\ Perfect \in Nat
  /\ MaxAge \in Nat /\ MaxAge > 0 /\ Freshness \in Nat
  /\ None \notin Cell
<1>1. /\ IsFiniteSet(Categories) /\ Full \in Nat /\ Full > 0 /\ Freshness \in Nat
      /\ MaxRoundTicks \in Nat
  BY RoundAssumption, RoundBoundAssumption
<1>2. Cardinality(Categories) \in Nat
  BY <1>1, FS_CardinalityType
<1>3. None \notin Cell
  BY <1>1, RoundNoneAssumption DEF Cell, MaxAge
<1> QED BY <1>1, <1>2, <1>3 DEF Perfect, MaxAge

LEMMA EmptyMatrixType == EmptyMatrix \in Matrix
BY DEF EmptyMatrix, Matrix

\* A score is blended within its bounds, and a positive one stays positive.
LEMMA UpdateType ==
  ASSUME NEW m \in Matrix, NEW h, NEW c \in Categories, NEW v \in 0 .. Full
  PROVE  Update(m, h, c, v) \in Matrix
<1> DEFINE ema(old) == (v + old + 1) \div 2
           new(cell) == [score |-> IF cell = None THEN v ELSE ema(cell.score), age |-> 0]
<1>1. \A old \in 0 .. Full : ema(old) \in 0 .. Full
  BY ConstantTypes
<1>2. \A cell \in Cell \cup {None} : new(cell) \in Cell
  BY <1>1, ConstantTypes DEF Cell
<1>3. Update(m, h, c, v) = [m EXCEPT ![h][c] = new(@)]
  BY DEF Update
<1> HIDE DEF new
<1>4. m \in [Hotkeys -> [Categories -> Cell \cup {None}]]
  BY DEF Matrix
<1>5. CASE h \in Hotkeys
  <2>1. m[h][c] \in Cell \cup {None} /\ m[h] \in [Categories -> Cell \cup {None}]
    BY <1>4, <1>5
  <2>2. [m[h] EXCEPT ![c] = new(@)] \in [Categories -> Cell \cup {None}]
    BY <1>2, <2>1
  <2>3. Update(m, h, c, v) = [m EXCEPT ![h] = [m[h] EXCEPT ![c] = new(@)]]
    BY <1>3
  <2> QED BY <1>4, <2>2, <2>3 DEF Matrix
<1>6. CASE h \notin Hotkeys
  <2>1. Update(m, h, c, v) = m
    BY <1>3, <1>4, <1>6
  <2> QED BY <2>1
<1> QED BY <1>5, <1>6

LEMMA UpdateKeeps ==
  ASSUME NEW m \in Matrix, NEW h, NEW c \in Categories, NEW v \in 0 .. Full, NEW g \in Hotkeys
  PROVE  Positive(m, g) \subseteq Positive(Update(m, h, c, v), g)
<1> DEFINE ema(old) == (v + old + 1) \div 2
           new(cell) == [score |-> IF cell = None THEN v ELSE ema(cell.score), age |-> 0]
<1>1. \A cell \in Cell : cell.score > 0 => new(cell).score > 0 /\ new(cell) # None
  <2> SUFFICES ASSUME NEW cell \in Cell, cell.score > 0
               PROVE  new(cell).score > 0 /\ new(cell) # None
    OBVIOUS
  <2>1. cell # None /\ cell.score \in 0 .. Full
    BY ConstantTypes DEF Cell
  <2>2. ema(cell.score) \in 0 .. Full /\ ema(cell.score) > 0
    BY <2>1, ConstantTypes
  <2>3. new(cell) \in Cell
    BY <2>1, <2>2, ConstantTypes DEF Cell
  <2> QED BY <2>1, <2>2, <2>3, ConstantTypes
<1>2. Update(m, h, c, v) = [m EXCEPT ![h][c] = new(@)]
  BY DEF Update
<1>3. \A d \in Categories : m[g][d] \in Cell \cup {None}
  BY DEF Matrix
<1> HIDE DEF new
<1>4. \A d \in Categories :
        Update(m, h, c, v)[g][d] = IF g = h /\ d = c THEN new(m[g][d]) ELSE m[g][d]
  BY <1>2 DEF Matrix
<1> QED BY <1>1, <1>3, <1>4 DEF Positive

LEMMA AgedType ==
  ASSUME NEW m \in Matrix
  PROVE  Aged(m) \in Matrix
<1> DEFINE older(cell) == IF cell = None \/ cell.age = MaxAge THEN cell
                          ELSE [cell EXCEPT !.age = @ + 1]
<1>1. \A cell \in Cell \cup {None} : older(cell) \in Cell \cup {None}
  BY ConstantTypes DEF Cell
<1>2. Aged(m) = [h \in Hotkeys |-> [c \in Categories |-> older(m[h][c])]]
  BY DEF Aged
<1> HIDE DEF older
<1> QED BY <1>1, <1>2 DEF Matrix

LEMMA AgedKeeps ==
  ASSUME NEW m \in Matrix, NEW g \in Hotkeys
  PROVE  Positive(m, g) \subseteq Positive(Aged(m), g)
<1> DEFINE older(cell) == IF cell = None \/ cell.age = MaxAge THEN cell
                          ELSE [cell EXCEPT !.age = @ + 1]
<1>1. \A cell \in Cell : older(cell) \in Cell /\ older(cell).score = cell.score
  BY ConstantTypes DEF Cell
<1>2. \A d \in Categories : Aged(m)[g][d] = older(m[g][d])
  BY DEF Aged
<1>3. \A d \in Categories : m[g][d] \in Cell \cup {None}
  BY DEF Matrix
<1> HIDE DEF older
<1> QED BY <1>1, <1>2, <1>3, ConstantTypes DEF Positive

LEMMA PruneType ==
  ASSUME NEW m \in Matrix
  PROVE  Prune(m) \in Matrix
BY EmptyMatrixType DEF Prune, Matrix

\* Pruning spares the hotkeys of the metagraph.
LEMMA PruneKeeps ==
  ASSUME NEW m \in Matrix, meta.hot \in [UIDs -> Hotkeys], NEW u \in UIDs
  PROVE  Prune(m)[meta.hot[u]] = m[meta.hot[u]]
BY DEF Prune, Range

\* An aggregate is at most perfect, and a positive one rests on a fresh score.
LEMMA AggregateType ==
  ASSUME NEW m, NEW h, NEW now
  PROVE  Aggregate(m, h, now) \in 0 .. Perfect
<1> DEFINE P == Categories \X (1 .. Full)
           S == {p \in P : Fresh(m[h][p[1]], now) /\ p[2] <= m[h][p[1]].score}
<1>1. IsFiniteSet(1 .. Full) /\ Cardinality(1 .. Full) = Full
  BY FS_Interval, ConstantTypes
<1>2. IsFiniteSet(P) /\ Cardinality(P) = Cardinality(Categories) * Full
  BY <1>1, FS_Product, ConstantTypes
<1>3. Cardinality(P) = Perfect
  BY <1>2, ConstantTypes, FS_CardinalityType DEF Perfect
<1>4. S \in SUBSET P
  OBVIOUS
<1>5. IsFiniteSet(S) /\ Cardinality(S) <= Cardinality(P)
  BY <1>2, <1>4, FS_Subset
<1>6. Cardinality(S) \in Nat
  BY <1>5, FS_CardinalityType
<1>7. Aggregate(m, h, now) = Cardinality(S)
  BY DEF Aggregate
<1> QED BY <1>3, <1>5, <1>6, <1>7, ConstantTypes

LEMMA AggregatePositive ==
  ASSUME NEW m \in Matrix, NEW h \in Hotkeys, NEW now \in Nat, Aggregate(m, h, now) > 0
  PROVE  FreshEvidence(m, h, now) /\ Positive(m, h) # {}
<1> DEFINE S == {p \in Categories \X (1 .. Full) :
                   Fresh(m[h][p[1]], now) /\ p[2] <= m[h][p[1]].score}
<1>1. S # {}
  BY FS_EmptySet DEF Aggregate
<1>2. PICK c \in Categories, n \in 1 .. Full : Fresh(m[h][c], now) /\ n <= m[h][c].score
  BY <1>1
<1>3. m[h][c] \in Cell
  BY <1>2 DEF Fresh, Matrix
<1>4. m[h][c].score > 0
  BY <1>2, <1>3 DEF Cell
<1> QED BY <1>2, <1>4 DEF FreshEvidence, Positive, Fresh

-----------------------------------------------------------------------------
(* The pieces of the round *)

\* The recomputed scores are backed, freshly, if the old ones were backed.
LEMMA RecomputeBacked ==
  ASSUME StateOK, NEW m \in Matrix, NEW now \in Nat,
         \A u \in UIDs : scores[u] > 0 => Positive(m, meta.hot[u]) # {}
  PROVE  /\ RecomputeAllScores(m, now) \in [UIDs -> 0 .. Perfect]
         /\ \A u \in UIDs : RecomputeAllScores(m, now)[u] > 0 =>
              FreshEvidence(m, meta.hot[u], now) /\ Positive(m, meta.hot[u]) # {}
<1>1. RecomputeAllScores(m, now) \in [UIDs -> 0 .. Perfect]
  BY AggregateType DEF RecomputeAllScores, StateOK
<1>2. ASSUME NEW u \in UIDs, RecomputeAllScores(m, now)[u] > 0
      PROVE  FreshEvidence(m, meta.hot[u], now) /\ Positive(m, meta.hot[u]) # {}
  <2>1. meta.hot[u] \in Hotkeys
    BY DEF StateOK
  <2>2. HasRow(m, meta.hot[u])
    BY <1>2 DEF RecomputeAllScores, HasRow, Positive
  <2>3. Aggregate(m, meta.hot[u], now) > 0
    BY <1>2, <2>2 DEF RecomputeAllScores
  <2> QED BY <2>1, <2>3, AggregatePositive
<1> QED BY <1>1, <1>2

\* Min picks a member.
LEMMA MinIn ==
  ASSUME NEW S \in SUBSET UIDs, S # {}
  PROVE  Min(S) \in S
<1>1. S \subseteq Nat
  BY RoundAssumption
<1>2. PICK x \in S : \A y \in S : ~(<<y, x>> \in OpToRel(<, Nat))
  BY <1>1, NatLessThanWellFounded, WFMin
<1>3. ASSUME NEW y \in S
      PROVE  x =< y
  <2>1. x \in Nat /\ y \in Nat
    BY <1>1
  <2>2. ~(y < x)
    BY <1>2, <2>1 DEF OpToRel
  <2> QED BY <2>1, <2>2
<1> QED BY <1>3 DEF Min

LEMMA EvidenceIsPositive == \A h : Evidence(h) = Positive(cells, h)
BY DEF Evidence, Positive

\* A fresh round, and the end of one.
LEMMA AtType ==
  ASSUME NEW pc \in {"idle", "ask", "evaluate", "publish", "down"}, NEW q
  PROVE  At(pc) \in RoundType(q) /\ At(pc).pc = pc /\ At(pc).pending = {}
BY DEF At, RoundType

\* The end of a round with matrix m, whose evidence backs the scores.
LEMMA FinishStep ==
  ASSUME StateOK, NEW m \in Matrix, UNCHANGED meta, cells' = m, Finish(m), NEW q,
         \A u \in UIDs : scores[u] > 0 => Positive(m, meta.hot[u]) # {}
  PROVE  /\ scores' \in [UIDs -> 0 .. Perfect] /\ round' = At("idle")
         /\ ScoresAreBacked'
         /\ \A u \in UIDs : scores'[u] > 0 => FreshEvidence(cells', meta.hot[u], round.now)
<1>1. round.now \in Nat
  BY DEF StateOK, RoundType
<1>2. scores' = RecomputeAllScores(m, round.now) /\ round' = At("idle")
  BY DEF Finish
<1>3. ScoresAreBacked'
  BY <1>1, <1>2, RecomputeBacked DEF ScoresAreBacked, Evidence, Positive
<1> QED BY <1>1, <1>2, <1>3, RecomputeBacked

\* What the head of the loop leaves, when it goes on with matrix m, which keeps
\* the evidence, and with pending records of agents in q.
LEMMA NextUidStep ==
  ASSUME RoundInv, UNCHANGED meta, NEW q, qualified \subseteq q,
         NEW todo \in SUBSET UIDs, NEW folded \in BOOLEAN, NEW pending \in SUBSET q,
         NEW m \in Matrix, KeepsEvidence(cells, m), NEW saved,
         NextUid(todo, folded, pending, m, saved)
  PROVE  /\ scores' \in [UIDs -> 0 .. Perfect] /\ cells' \in Matrix
         /\ disk' \in [cells : Matrix, listed : SUBSET q]
         /\ round' \in RoundType(q) /\ round'.pc # "down"
         /\ ScoresAreBacked'
         /\ round'.pc = "idle" => \A u \in UIDs : scores'[u] > 0 =>
              FreshEvidence(cells', meta.hot[u], round.now)
<1> USE DEF RoundInv
<1>1. \A u \in UIDs : scores[u] > 0 => Positive(m, meta.hot[u]) # {}
  BY EvidenceIsPositive DEF ScoresAreBacked, KeepsEvidence
<1>2. /\ meta.hot \in [UIDs -> Hotkeys] /\ scores \in [UIDs -> 0 .. Perfect]
      /\ disk \in [cells : Matrix, listed : SUBSET q] /\ round \in RoundType(qualified)
  BY DEF StateOK
<1>3. CASE /\ todo # {}
           /\ round' = [round EXCEPT
                !.pc = "evaluate", !.at = Min(todo), !.hotkey = meta.hot[Min(todo)],
                !.answer = [u \in UIDs |-> IF u \in todo THEN @[u] ELSE None],
                !.folded = folded, !.pending = pending]
           /\ cells' = m
           /\ UNCHANGED <<scores, disk, since>>
  <2>1. Min(todo) \in UIDs /\ meta.hot[Min(todo)] \in Hotkeys
    BY <1>2, <1>3, MinIn
  <2>2. round' \in RoundType(q) /\ round'.pc = "evaluate"
    BY <1>2, <1>3, <2>1 DEF RoundType
  <2>3. ScoresAreBacked'
    BY <1>1, <1>3 DEF ScoresAreBacked, Evidence, Positive
  <2> QED BY <1>2, <1>3, <2>2, <2>3
<1>4. CASE EndLoop(folded, pending, m, saved)
  <2> DEFINE kept == IF folded THEN Prune(m) ELSE m
  <2>1. kept \in Matrix
    BY PruneType
  <2>2. \A u \in UIDs : kept[meta.hot[u]] = m[meta.hot[u]]
    BY <1>2, PruneKeeps
  <2>3. \A u \in UIDs : scores[u] > 0 => Positive(kept, meta.hot[u]) # {}
    BY <1>1, <2>2 DEF Positive
  <2>4. cells' = kept /\ disk' = [disk EXCEPT !.cells = IF folded /\ saved THEN kept ELSE @]
    BY <1>4 DEF EndLoop
  <2>5. cells' \in Matrix /\ disk' \in [cells : Matrix, listed : SUBSET q]
    BY <1>2, <2>1, <2>4
  <2>6. CASE Finish(kept)
    <3>1. /\ scores' \in [UIDs -> 0 .. Perfect] /\ round' = At("idle") /\ ScoresAreBacked'
          /\ \A u \in UIDs : scores'[u] > 0 => FreshEvidence(cells', meta.hot[u], round.now)
      <4> HIDE DEF kept
      <4> QED BY <2>1, <2>3, <2>4, <2>6, FinishStep
    <3> QED BY <2>5, <3>1, AtType
  <2>7. CASE /\ round' = [At("publish") EXCEPT !.now = round.now, !.pending = pending]
             /\ UNCHANGED <<scores, since>>
    <3>1. round' \in RoundType(q) /\ round'.pc = "publish"
      BY <1>2, <2>7 DEF At, RoundType
    <3>2. ScoresAreBacked'
      <4> HIDE DEF kept
      <4> QED BY <2>3, <2>4, <2>7 DEF ScoresAreBacked, Evidence, Positive
    <3> QED BY <1>2, <2>5, <2>7, <3>1, <3>2
  <2> QED BY <1>4, <2>6, <2>7 DEF EndLoop
<1> QED BY <1>3, <1>4 DEF NextUid

\* A step of the loop that leaves the matrix alone.
LEMMA LoopStep ==
  ASSUME RoundInv, NEW todo \in SUBSET UIDs, NEW folded \in BOOLEAN,
         NEW pending \in SUBSET qualified, NEW saved,
         NextUid(todo, folded, pending, cells, saved),
         UNCHANGED <<environment, meta, weights, listed, published>>
  PROVE  /\ RoundInv'
         /\ round'.pc = "idle" => \A u \in UIDs : scores'[u] > 0 =>
              FreshEvidence(cells', meta.hot[u], round.now)
<1>1. cells \in Matrix /\ KeepsEvidence(cells, cells)
  BY DEF RoundInv, StateOK, KeepsEvidence
<1>2. /\ scores' \in [UIDs -> 0 .. Perfect] /\ cells' \in Matrix
      /\ disk' \in [cells : Matrix, listed : SUBSET qualified]
      /\ round' \in RoundType(qualified) /\ round'.pc # "down"
      /\ ScoresAreBacked'
      /\ round'.pc = "idle" => \A u \in UIDs : scores'[u] > 0 =>
           FreshEvidence(cells', meta.hot[u], round.now)
  BY <1>1, NextUidStep
<1>3. StateOK'
  BY <1>2 DEF RoundInv, StateOK, environment, published
<1>4. MarketIsEarned'
  BY <1>2 DEF RoundInv, MarketIsEarned, published, RoundType
<1> QED BY <1>2, <1>3, <1>4 DEF RoundInv, DownIsClear

LEMMA WaitingType == Waiting \in SUBSET UIDs /\ Later \in SUBSET UIDs
BY DEF Waiting, Later

LEMMA JobScoredStep ==
  ASSUME RoundInv, NEW c \in Categories, NEW v \in Rewards, NEW built, NEW saved,
         JobScored(c, v, built, saved)
  PROVE  /\ RoundInv'
         /\ round'.pc = "idle" => \A u \in UIDs : scores'[u] > 0 =>
              FreshEvidence(cells', meta.hot[u], round.now)
<1> DEFINE agent == round.answer[round.at]
           m == Update(cells, round.hotkey, c, v)
           sum == Aggregate(m, round.hotkey, round.now)
           publish == ShouldPublish(agent, sum)
           queued == IF publish /\ built THEN round.pending \cup {agent} ELSE round.pending
<1>1. /\ listed' = IF publish THEN listed \cup {agent} ELSE listed
      /\ NextUid(Later, TRUE, queued, m, saved)
      /\ qualified' = IF sum = Perfect THEN qualified \cup {agent} ELSE qualified
      /\ UNCHANGED <<environment, meta, weights, market>>
  BY DEF JobScored
<1>2. v \in 0 .. Full /\ cells \in Matrix /\ meta.hot \in [UIDs -> Hotkeys]
  BY RoundAssumption DEF RoundInv, StateOK
<1>3. m \in Matrix /\ KeepsEvidence(cells, m)
  <2>1. m \in Matrix
    BY <1>2, UpdateType
  <2>2. \A u \in UIDs : Positive(cells, meta.hot[u]) \subseteq Positive(m, meta.hot[u])
    BY <1>2, UpdateKeeps
  <2> QED BY <2>1, <2>2 DEF KeepsEvidence
<1> HIDE DEF m
<1>4. publish => agent \in qualified'
  BY <1>1 DEF ShouldPublish, RoundInv, MarketIsEarned
<1>5. qualified \subseteq qualified'
  BY <1>1
<1>6. queued \in SUBSET qualified'
  BY <1>4, <1>5 DEF RoundInv, MarketIsEarned
<1> HIDE DEF queued, publish, sum
<1>7. /\ scores' \in [UIDs -> 0 .. Perfect] /\ cells' \in Matrix
      /\ disk' \in [cells : Matrix, listed : SUBSET qualified']
      /\ round' \in RoundType(qualified') /\ round'.pc # "down"
      /\ ScoresAreBacked'
      /\ round'.pc = "idle" => \A u \in UIDs : scores'[u] > 0 =>
           FreshEvidence(cells', meta.hot[u], round.now)
  BY <1>1, <1>3, <1>5, <1>6, WaitingType, NextUidStep
<1>8. StateOK'
  BY <1>1, <1>7 DEF RoundInv, StateOK, environment
<1>9. MarketIsEarned'
  <2>1. listed' \subseteq qualified'
    BY <1>1, <1>4, <1>5 DEF RoundInv, MarketIsEarned
  <2>2. market' \subseteq qualified'
    BY <1>1, <1>5 DEF RoundInv, MarketIsEarned
  <2> QED BY <2>1, <2>2, <1>7 DEF MarketIsEarned, RoundType
<1> QED BY <1>7, <1>8, <1>9 DEF RoundInv, DownIsClear

-----------------------------------------------------------------------------
(* The invariant *)

LEMMA InitInv == Init => RoundInv
<1> SUFFICES ASSUME Init PROVE RoundInv
  OBVIOUS
<1>1. Holders \in [UIDs -> Hotkeys]
  BY RoundAssumption DEF Injection, IsInjective
<1>2. StateOK
  BY <1>1, EmptyMatrixType, ConstantTypes, AtType DEF Init, StateOK
<1>3. ScoresAreBacked
  BY DEF Init, ScoresAreBacked
<1>4. MarketIsEarned
  BY AtType DEF Init, MarketIsEarned
<1> QED BY <1>2, <1>3, <1>4 DEF RoundInv, DownIsClear, Init

\* The steps that leave the scores, the metagraph, the matrix and the
\* marketplace alone.
LEMMA FrameStep ==
  ASSUME RoundInv, chain'.hot \in [UIDs -> Hotkeys],
         round' \in RoundType(qualified), round'.pc # "down",
         round'.pending \subseteq round.pending,
         UNCHANGED <<meta, scores, weights, cells, listed, disk, published>>
  PROVE  RoundInv'
<1>1. StateOK'
  BY DEF RoundInv, StateOK, published
<1>2. ScoresAreBacked' /\ MarketIsEarned'
  BY DEF RoundInv, ScoresAreBacked, Evidence, MarketIsEarned, published
<1> QED BY <1>1, <1>2 DEF RoundInv, DownIsClear

\* Every step preserves the invariant, and a round that ends leaves fresh scores.
LEMMA StepInv ==
  ASSUME RoundInv, Next
  PROVE  /\ RoundInv'
         /\ Running /\ round'.pc = "idle" /\ ~AskFails =>
              \A u \in UIDs : scores'[u] > 0 => FreshEvidence(cells', meta.hot[u], round.now)
<1> DEFINE Ends == Running /\ round'.pc = "idle" /\ ~AskFails =>
              \A u \in UIDs : scores'[u] > 0 => FreshEvidence(cells', meta.hot[u], round.now)
<1>0. /\ round \in RoundType(qualified) /\ chain.hot \in [UIDs -> Hotkeys]
      /\ meta.hot \in [UIDs -> Hotkeys] /\ scores \in [UIDs -> 0 .. Perfect]
      /\ cells \in Matrix /\ disk \in [cells : Matrix, listed : SUBSET qualified]
      /\ round.pending \subseteq qualified
  BY DEF RoundInv, StateOK, MarketIsEarned
<1>1. ASSUME NEW u \in UIDs, NEW h \in Hotkeys, NEW serving \in BOOLEAN,
             Reregister(u, h, serving)
      PROVE  RoundInv' /\ (Running => round'.pc # "idle")
  <2>1. chain'.hot \in [UIDs -> Hotkeys]
    BY <1>0, <1>1 DEF Reregister
  <2>2. round' = round /\ UNCHANGED <<meta, scores, weights, cells, listed, disk, published>>
    BY <1>1 DEF Reregister
  <2>3. ScoresAreBacked' /\ MarketIsEarned' /\ StateOK' /\ DownIsClear'
    BY <2>1, <2>2 DEF RoundInv, ScoresAreBacked, Evidence, MarketIsEarned, StateOK,
                      DownIsClear, published
  <2> QED BY <2>2, <2>3 DEF RoundInv, Running
<1>2. ASSUME NEW h \in Hotkeys, ToggleAxon(h)
      PROVE  RoundInv' /\ (Running => round'.pc # "idle")
  <2>1. /\ chain'.hot = chain.hot /\ round' = round
        /\ UNCHANGED <<meta, scores, weights, cells, listed, disk, published>>
    BY <1>2 DEF ToggleAxon
  <2>2. ScoresAreBacked' /\ MarketIsEarned' /\ StateOK' /\ DownIsClear'
    BY <2>1 DEF RoundInv, ScoresAreBacked, Evidence, MarketIsEarned, StateOK,
                DownIsClear, published
  <2> QED BY <2>1, <2>2 DEF RoundInv, Running
<1>3. ASSUME Tick PROVE RoundInv' /\ (Running => round'.pc # "idle")
  <2>1. round' \in RoundType(qualified) /\ round'.pc = round.pc /\ round'.pending = round.pending
    <3> DEFINE now == IF Running THEN round.now + 1 ELSE round.now
               spent == IF round.pc = "evaluate" THEN round.spent + 1 ELSE round.spent
    <3>1. now \in Nat /\ spent \in Nat
      BY <1>0 DEF RoundType
    <3>2. round' = [round EXCEPT !.now = now, !.spent = spent]
      BY <1>0, <1>3 DEF Tick, RoundType
    <3> HIDE DEF now, spent
    <3> QED BY <1>0, <3>1, <3>2 DEF RoundType
  <2>2. cells' \in Matrix /\ disk' \in [cells : Matrix, listed : SUBSET qualified]
        /\ disk'.listed = disk.listed
    BY <1>0, <1>3, AgedType DEF Tick
  <2>3. UNCHANGED <<environment, meta, scores, listed, published>> /\ cells' = Aged(cells)
    BY <1>3 DEF Tick
  <2>4. ScoresAreBacked'
    <3> SUFFICES ASSUME NEW u \in UIDs, scores[u] > 0
                 PROVE  Positive(Aged(cells), meta.hot[u]) # {}
      BY <2>3 DEF ScoresAreBacked, Evidence, Positive
    <3>1. Positive(cells, meta.hot[u]) # {} /\ meta.hot[u] \in Hotkeys
      BY <1>0, EvidenceIsPositive DEF RoundInv, ScoresAreBacked
    <3> QED BY <1>0, <3>1, AgedKeeps
  <2>5. StateOK' /\ MarketIsEarned' /\ DownIsClear'
    BY <2>1, <2>2, <2>3 DEF RoundInv, StateOK, MarketIsEarned, DownIsClear, environment, published
  <2> QED BY <2>1, <2>4, <2>5 DEF RoundInv, Running
<1>4. ASSUME StartRound PROVE RoundInv' /\ ~Running
  <2>1. round' \in RoundType(qualified) /\ round'.pc = "ask" /\ round'.pending = {}
    BY <1>0, <1>4 DEF StartRound, At, RoundType
  <2>2. RoundInv'
    BY <1>0, <1>4, <2>1, FrameStep DEF StartRound, environment
  <2> QED BY <1>4, <2>2 DEF StartRound, Running
<1>5. ASSUME NoMiners PROVE RoundInv' /\ ~Running
  <2>1. RoundInv'
    BY <1>0, <1>5, FrameStep DEF NoMiners, environment
  <2> QED BY <1>5, <2>1 DEF NoMiners, Running
<1>6. ASSUME NEW usable \in SUBSET Waiting, NEW saved, Answered(usable, saved)
      PROVE  RoundInv' /\ Ends
  BY <1>6, LoopStep, WaitingType DEF Answered
<1>7. ASSUME AskFails PROVE RoundInv' /\ Ends
  BY <1>0, <1>7, AtType, FrameStep DEF AskFails
<1>8. ASSUME NEW saved, EvaluationRaises(saved) \/ NoJobRan(saved)
      PROVE  RoundInv' /\ Ends
  <2>1. round.folded \in BOOLEAN /\ round.pending \in SUBSET qualified
    BY <1>0 DEF RoundType
  <2>2. CASE EvaluationRaises(saved)
    BY <2>1, <2>2, LoopStep, WaitingType DEF EvaluationRaises
  <2>3. CASE NoJobRan(saved)
    BY <2>1, <2>3, LoopStep, WaitingType DEF NoJobRan
  <2> QED BY <1>8, <2>2, <2>3
<1>9. ASSUME NEW c \in Categories, NEW v \in Rewards, NEW built, NEW saved,
             JobScored(c, v, built, saved)
      PROVE  RoundInv' /\ Ends
  BY <1>9, JobScoredStep
<1>10. ASSUME NEW saved, Published(saved) PROVE RoundInv' /\ Ends
  <2>1. /\ disk' = [disk EXCEPT !.listed = IF saved THEN listed ELSE @] /\ Finish(cells)
        /\ UNCHANGED <<environment, meta, weights, cells, listed, published>>
    BY <1>10 DEF Published
  <2>2. disk' \in [cells : Matrix, listed : SUBSET qualified]
    BY <1>0, <2>1 DEF RoundInv, MarketIsEarned
  <2>3. \A u \in UIDs : scores[u] > 0 => Positive(cells, meta.hot[u]) # {}
    BY EvidenceIsPositive DEF RoundInv, ScoresAreBacked
  <2>4. /\ scores' \in [UIDs -> 0 .. Perfect] /\ round' = At("idle") /\ ScoresAreBacked'
        /\ \A u \in UIDs : scores'[u] > 0 => FreshEvidence(cells', meta.hot[u], round.now)
    BY <1>0, <2>1, <2>3, FinishStep DEF RoundInv
  <2>5. round' \in RoundType(qualified) /\ round'.pc = "idle" /\ round'.pending = {}
    BY <2>4, AtType
  <2>6. StateOK' /\ MarketIsEarned' /\ DownIsClear'
    BY <1>0, <2>1, <2>2, <2>4, <2>5
       DEF RoundInv, StateOK, MarketIsEarned, DownIsClear, environment, published
  <2> QED BY <2>4, <2>6 DEF RoundInv
<1>11. ASSUME NEW agent \in round.pending, Push(agent)
       PROVE  RoundInv' /\ (Running => round'.pc # "idle")
  <2>1. /\ market' = market \cup {agent} /\ agent \in qualified
        /\ UNCHANGED <<environment, meta, scores, cells, listed, disk, round, qualified>>
    BY <1>0, <1>11 DEF Push
  <2>2. StateOK' /\ ScoresAreBacked' /\ MarketIsEarned' /\ DownIsClear'
    BY <2>1 DEF RoundInv, StateOK, ScoresAreBacked, Evidence, MarketIsEarned, DownIsClear,
                environment
  <2> QED BY <2>1, <2>2 DEF RoundInv, Running
<1>12. ASSUME NEW resync \in BOOLEAN, NEW accepted \in BOOLEAN, Sync(resync, accepted)
       PROVE  RoundInv' /\ (Running => round'.pc # "idle")
  <2>1. /\ round.pc # "down"
        /\ meta' = IF resync THEN chain ELSE meta
        /\ scores' = IF resync THEN Resynced(scores) ELSE scores
        /\ UNCHANGED <<environment, cells, listed, disk, round, published>>
    BY <1>12 DEF Sync
  <2>2. meta'.hot \in [UIDs -> Hotkeys] /\ scores' \in [UIDs -> 0 .. Perfect]
    BY <1>0, <2>1, ConstantTypes DEF Resynced
  <2>3. \A u \in UIDs : scores'[u] > 0 => meta'.hot[u] = meta.hot[u] /\ scores[u] > 0
    BY <1>0, <2>1 DEF Resynced
  <2>4. ScoresAreBacked'
    BY <2>1, <2>3 DEF RoundInv, ScoresAreBacked, Evidence
  <2>5. StateOK' /\ MarketIsEarned' /\ DownIsClear'
    BY <2>1, <2>2 DEF RoundInv, StateOK, MarketIsEarned, DownIsClear, environment, published
  <2> QED BY <2>1, <2>4, <2>5 DEF RoundInv, Running
<1>13. ASSUME Crash PROVE RoundInv' /\ round'.pc = "down"
  <2>1. /\ round' = At("down") /\ scores' = [u \in UIDs |-> 0] /\ cells' = EmptyMatrix
        /\ listed' = {} /\ UNCHANGED <<chain, meta, disk, published>>
    BY <1>13 DEF Crash
  <2>2. /\ round' \in RoundType(qualified) /\ round'.pc = "down" /\ round'.pending = {}
        /\ scores' \in [UIDs -> 0 .. Perfect]
    BY <2>1, AtType, ConstantTypes
  <2>3. StateOK' /\ MarketIsEarned' /\ DownIsClear' /\ ScoresAreBacked'
    BY <2>1, <2>2, EmptyMatrixType
       DEF RoundInv, StateOK, MarketIsEarned, DownIsClear, ScoresAreBacked, published
  <2> QED BY <2>2, <2>3 DEF RoundInv
<1>14. ASSUME NEW readable, Boot(readable) PROVE RoundInv' /\ ~Running
  <2>1. /\ round.pc = "down" /\ meta' = chain /\ round' = At("idle")
        /\ cells' = IF readable THEN disk.cells ELSE EmptyMatrix
        /\ listed' = IF readable THEN disk.listed ELSE {}
        /\ UNCHANGED <<environment, scores, disk, published>>
    BY <1>14 DEF Boot
  <2>2. /\ round' \in RoundType(qualified) /\ round'.pc = "idle" /\ round'.pending = {}
        /\ cells' \in Matrix /\ listed' \subseteq qualified
    BY <1>0, <2>1, AtType, EmptyMatrixType
  <2>3. StateOK' /\ MarketIsEarned' /\ DownIsClear' /\ ScoresAreBacked'
    BY <1>0, <2>1, <2>2
       DEF RoundInv, StateOK, MarketIsEarned, DownIsClear, ScoresAreBacked, environment, published
  <2> QED BY <2>1, <2>3 DEF RoundInv, Running
<1> QED
  BY <1>1, <1>2, <1>3, <1>4, <1>5, <1>6, <1>7, <1>8, <1>9, <1>10, <1>11, <1>12, <1>13, <1>14
     DEF Next, Chain, Round

LEMMA StutterInv ==
  ASSUME RoundInv, UNCHANGED vars
  PROVE  RoundInv'
BY DEF RoundInv, StateOK, DownIsClear, ScoresAreBacked, Evidence, MarketIsEarned, vars

LEMMA Invariance == Spec => []RoundInv
<1>1. RoundInv /\ [Next]_vars => RoundInv'
  BY StepInv, StutterInv
<1> QED BY <1>1, InitInv, PTL DEF Spec

-----------------------------------------------------------------------------
(* The theorems *)

\* A uid only has a score while the hotkey the metagraph shows for it has
\* positive evidence in the matrix.  Inductive only with the matrix's type: the
\* EMA never brings a positive score to zero, and pruning spares the metagraph.
THEOREM ScoresAreBackedTheorem == Spec => []ScoresAreBacked
<1>1. RoundInv => ScoresAreBacked
  BY DEF RoundInv
<1> QED BY <1>1, Invariance, PTL

\* Listed, queued, saved and published agents have all been evaluated at an
\* aggregate that qualifies, whatever pushes, saves and processes fail.
THEOREM MarketIsEarnedTheorem == Spec => []MarketIsEarned
<1>1. RoundInv => MarketIsEarned
  BY DEF RoundInv
<1> QED BY <1>1, Invariance, PTL

\* A round that ends leaves no positive score without evidence from its window:
\* every score that is not recomputed belongs to a uid without a row, and is
\* zero because scores are backed.
THEOREM RoundEndsFreshTheorem == Spec => RoundEndsFresh
<1>1. RoundInv /\ [Next]_vars =>
        [Running /\ round'.pc = "idle" /\ ~AskFails =>
           \A u \in UIDs : scores'[u] > 0 =>
             FreshEvidence(cells', meta.hot[u], round.now)]_vars
  BY StepInv
<1> QED BY <1>1, Invariance, PTL DEF Spec, RoundEndsFresh

-----------------------------------------------------------------------------
(* What a restart brings back *)

\* Both files can be written and read, and every record that passes the gate can
\* be built.  Each part is needed: an agent is listed before its record is built,
\* and with no record to publish the listed agents are not saved.
FilesWork == Faults \cap {"save", "read", "record"} = {}

\* The matrix runs ahead of its file only while a loop has folded something, and
\* the listed agents only while some agent's record is queued.
DiskFollows ==
  /\ round.pc \in {"idle", "ask"} => cells = disk.cells /\ listed = disk.listed
  /\ round.pc = "evaluate" =>
       /\ ~round.folded => cells = disk.cells
       /\ round.pending = {} => listed = disk.listed
  /\ round.pc = "publish" => cells = disk.cells

LEMMA OutcomesWork ==
  ASSUME FilesWork
  PROVE  SaveOutcomes = {TRUE} /\ BuildOutcomes = {TRUE} /\ ReadOutcomes = {TRUE}
BY DEF FilesWork, SaveOutcomes, BuildOutcomes, ReadOutcomes, Outcomes

\* The head of the loop, with a file that can be written.
LEMMA NextUidFollows ==
  ASSUME RoundInv,
         NEW todo \in SUBSET UIDs, NEW folded \in BOOLEAN, NEW pending, NEW m,
         NextUid(todo, folded, pending, m, TRUE),
         ~folded => m = disk.cells,
         pending = {} => listed' = disk.listed
  PROVE  DiskFollows'
<1>1. /\ round \in RoundType(qualified)
      /\ disk = [cells |-> disk.cells, listed |-> disk.listed]
  BY DEF RoundInv, StateOK
<1>2. CASE /\ round' = [round EXCEPT
                !.pc = "evaluate", !.at = Min(todo), !.hotkey = meta.hot[Min(todo)],
                !.answer = [u \in UIDs |-> IF u \in todo THEN @[u] ELSE None],
                !.folded = folded, !.pending = pending]
           /\ cells' = m
           /\ UNCHANGED <<scores, disk, since>>
  <2>1. round'.pc = "evaluate" /\ round'.folded = folded /\ round'.pending = pending
    BY <1>1, <1>2 DEF RoundType
  <2> QED BY <1>2, <2>1 DEF DiskFollows
<1>3. CASE EndLoop(folded, pending, m, TRUE)
  <2> DEFINE kept == IF folded THEN Prune(m) ELSE m
  <2>1. cells' = kept /\ disk' = [disk EXCEPT !.cells = IF folded THEN kept ELSE @]
    BY <1>3 DEF EndLoop
  <2>2. cells' = disk'.cells /\ disk'.listed = disk.listed
    BY <1>1, <2>1
  <2>3. CASE pending = {} /\ Finish(kept)
    <3>1. round'.pc = "idle"
      BY <2>3, AtType DEF Finish
    <3> QED BY <2>2, <2>3, <3>1 DEF DiskFollows
  <2>4. CASE round' = [At("publish") EXCEPT !.now = round.now, !.pending = pending]
    <3>1. round'.pc = "publish"
      BY <2>4 DEF At
    <3> QED BY <2>2, <3>1 DEF DiskFollows
  <2> QED BY <1>3, <2>3, <2>4 DEF EndLoop
<1> QED BY <1>2, <1>3 DEF NextUid

\* The steps that leave the two files and what they hold alone.
LEMMA IdleFollows ==
  ASSUME DiskFollows, UNCHANGED <<cells, listed, disk>>,
         \/ round'.pc = "down"
         \/ round.pc \in {"idle", "ask"} /\ round'.pc \in {"idle", "ask"}
         \/ UNCHANGED round
  PROVE  DiskFollows'
BY DEF DiskFollows

LEMMA StepFollows ==
  ASSUME FilesWork, RoundInv, DiskFollows, Next
  PROVE  DiskFollows'
<1>0. /\ round \in RoundType(qualified)
      /\ disk = [cells |-> disk.cells, listed |-> disk.listed]
  BY DEF RoundInv, StateOK
<1>1. CASE Chain
  <2>1. ASSUME NEW u \in UIDs, NEW h \in Hotkeys, NEW serving \in BOOLEAN,
               Reregister(u, h, serving)
        PROVE  DiskFollows'
    BY <2>1, IdleFollows DEF Reregister
  <2>2. ASSUME NEW h \in Hotkeys, ToggleAxon(h) PROVE DiskFollows'
    BY <2>2, IdleFollows DEF ToggleAxon
  <2>3. ASSUME Tick PROVE DiskFollows'
    <3>1. /\ cells' = Aged(cells) /\ disk' = [disk EXCEPT !.cells = Aged(@)]
          /\ UNCHANGED listed
          /\ round' = [round EXCEPT !.now = IF Running THEN @ + 1 ELSE @,
                                    !.spent = IF round.pc = "evaluate" THEN @ + 1 ELSE @]
      BY <2>3 DEF Tick
    <3>2. /\ round'.pc = round.pc /\ round'.folded = round.folded
          /\ round'.pending = round.pending
      BY <1>0, <3>1 DEF RoundType
    <3>3. disk'.cells = Aged(disk.cells) /\ disk'.listed = disk.listed
      BY <1>0, <3>1
    <3> QED BY <3>1, <3>2, <3>3 DEF DiskFollows
  <2> QED BY <1>1, <2>1, <2>2, <2>3 DEF Chain
<1>2. CASE Round
  <2>1. ASSUME StartRound PROVE DiskFollows'
    <3>1. round.pc = "idle" /\ round'.pc = "ask"
      BY <2>1 DEF StartRound, At
    <3> QED BY <2>1, <3>1, IdleFollows DEF StartRound
  <2>2. ASSUME NoMiners PROVE DiskFollows'
    BY <2>2, IdleFollows DEF NoMiners
  <2>3. ASSUME NEW usable \in SUBSET Waiting, NEW saved \in SaveOutcomes,
               Answered(usable, saved)
        PROVE  DiskFollows'
    <3>1. /\ round.pc = "ask" /\ NextUid(usable, FALSE, {}, cells, TRUE)
          /\ UNCHANGED listed /\ usable \in SUBSET UIDs
      BY <2>3, OutcomesWork, WaitingType DEF Answered
    <3> QED BY <3>1, NextUidFollows DEF DiskFollows
  <2>4. ASSUME AskFails PROVE DiskFollows'
    <3>1. round.pc = "ask" /\ round'.pc = "idle"
      BY <2>4, AtType DEF AskFails
    <3> QED BY <2>4, <3>1, IdleFollows DEF AskFails
  <2>5. ASSUME NEW saved \in SaveOutcomes, EvaluationRaises(saved) PROVE DiskFollows'
    <3>1. /\ round.pc = "evaluate" /\ UNCHANGED listed
          /\ NextUid(Later, round.folded, round.pending, cells, TRUE)
      BY <2>5, OutcomesWork DEF EvaluationRaises
    <3>2. round.folded \in BOOLEAN
      BY <1>0 DEF RoundType
    <3> QED BY <3>1, <3>2, NextUidFollows, WaitingType DEF DiskFollows
  <2>6. ASSUME NEW saved \in SaveOutcomes, NoJobRan(saved) PROVE DiskFollows'
    <3>1. /\ round.pc = "evaluate" /\ UNCHANGED listed
          /\ NextUid(Later, TRUE, round.pending, cells, TRUE)
      BY <2>6, OutcomesWork DEF NoJobRan
    <3> QED BY <3>1, NextUidFollows, WaitingType DEF DiskFollows
  <2>7. ASSUME NEW c \in Categories, NEW v \in Rewards, NEW built \in BuildOutcomes,
               NEW saved \in SaveOutcomes, JobScored(c, v, built, saved)
        PROVE  DiskFollows'
    <3> DEFINE agent == round.answer[round.at]
               m == Update(cells, round.hotkey, c, v)
               publish == ShouldPublish(agent, Aggregate(m, round.hotkey, round.now))
               queued == IF publish THEN round.pending \cup {agent} ELSE round.pending
    <3>1. built = TRUE /\ saved = TRUE
      BY OutcomesWork
    <3>2. /\ round.pc = "evaluate"
          /\ listed' = IF publish THEN listed \cup {agent} ELSE listed
          /\ NextUid(Later, TRUE, queued, m, TRUE)
      BY <2>7, <3>1 DEF JobScored
    <3>3. queued = {} => listed' = disk.listed
      BY <3>2 DEF DiskFollows
    <3> HIDE DEF m, queued
    <3> QED BY <3>2, <3>3, NextUidFollows, WaitingType
  <2>8. ASSUME NEW saved \in SaveOutcomes, Published(saved) PROVE DiskFollows'
    <3>0. saved = TRUE
      BY OutcomesWork
    <3>1. /\ round.pc = "publish" /\ round'.pc = "idle" /\ UNCHANGED <<cells, listed>>
          /\ disk' = [disk EXCEPT !.listed = listed]
      BY <2>8, <3>0, AtType DEF Published, Finish
    <3>2. disk'.cells = disk.cells /\ disk'.listed = listed
      BY <1>0, <3>1
    <3> QED BY <3>1, <3>2 DEF DiskFollows
  <2> QED BY <1>2, <2>1, <2>2, <2>3, <2>4, <2>5, <2>6, <2>7, <2>8 DEF Round
<1>3. ASSUME NEW agent \in round.pending, Push(agent) PROVE DiskFollows'
  BY <1>3, IdleFollows DEF Push
<1>4. ASSUME NEW resync \in BOOLEAN, NEW accepted \in BOOLEAN, Sync(resync, accepted)
      PROVE  DiskFollows'
  BY <1>4, IdleFollows DEF Sync
<1>5. ASSUME Crash PROVE DiskFollows'
  <2>1. round'.pc = "down"
    BY <1>5, AtType DEF Crash
  <2> QED BY <2>1 DEF DiskFollows
<1>6. ASSUME NEW readable \in ReadOutcomes, Boot(readable) PROVE DiskFollows'
  <2>1. readable = TRUE
    BY OutcomesWork
  <2>2. /\ cells' = disk.cells /\ listed' = disk.listed /\ UNCHANGED disk
        /\ round'.pc = "idle"
    BY <1>6, <2>1, AtType DEF Boot
  <2> QED BY <2>2 DEF DiskFollows
<1> QED BY <1>1, <1>2, <1>3, <1>4, <1>5, <1>6 DEF Next

\* Between rounds the matrix, pruned rows included, and the listed agents are on
\* disk, through failed queries and crashes at any await, as long as the files
\* can be written and read and every record that passes the gate can be built
\* (security_round, _save_listed_agents, CategoryScores.save).
THEOREM IdleStateIsSavedTheorem == FilesWork => (Spec => []IdleStateIsSaved)
<1> SUFFICES ASSUME FilesWork PROVE Spec => []IdleStateIsSaved
  OBVIOUS
<1>1. Init => DiskFollows
  BY AtType DEF Init, DiskFollows
<1>2. RoundInv /\ DiskFollows /\ [Next]_vars => DiskFollows'
  <2>1. ASSUME DiskFollows, UNCHANGED vars PROVE DiskFollows'
    BY <2>1 DEF DiskFollows, vars
  <2> QED BY <2>1, StepFollows
<1>3. RoundInv /\ DiskFollows => IdleStateIsSaved
  <2> SUFFICES ASSUME RoundInv, DiskFollows, round.pc = "idle"
               PROVE  disk = [cells |-> cells, listed |-> listed]
    BY DEF IdleStateIsSaved
  <2>1. disk = [cells |-> disk.cells, listed |-> disk.listed]
    BY DEF RoundInv, StateOK
  <2> QED BY <2>1 DEF DiskFollows
<1> QED BY <1>1, <1>2, <1>3, Invariance, PTL DEF Spec

-----------------------------------------------------------------------------
(* Types, and what is submitted *)

\* What TypeOK adds to StateOK, and what makes it inductive: the clocks of the
\* round are within the bound, the loop's no ahead of the round's; and the uid
\* whose evaluation is awaited answered, so that its agent has a name.
Locally ==
  /\ round.now <= MaxRoundTicks /\ round.spent <= round.now
  /\ round.pc = "evaluate" => round.at \in UIDs /\ round.answer[round.at] # None

Bounds ==
  /\ chain \in [hot : [UIDs -> Hotkeys], up : SUBSET Hotkeys]
  /\ meta \in [hot : [UIDs -> Hotkeys], up : SUBSET Hotkeys]
  /\ events \in 0 .. MaxEvents
  /\ weights \in [UIDs -> 0 .. U16Max]
  /\ since \in 0 .. Interval
  /\ qualified \subseteq Hotkeys

TypeInv == RoundInv /\ Locally /\ Bounds

LEMMA AtLocal ==
  ASSUME NEW pc, pc # "evaluate", round' = At(pc)
  PROVE  Locally'
BY RoundBoundAssumption DEF Locally, At

LEMMA NextUidLocal ==
  ASSUME RoundInv, Locally, since \in 0 .. Interval,
         NEW todo \in SUBSET Waiting, NEW folded, NEW pending, NEW m, NEW saved,
         NextUid(todo, folded, pending, m, saved)
  PROVE  Locally' /\ since' \in 0 .. Interval
<1>1. /\ round \in RoundType(qualified) /\ round.now \in Nat /\ round.spent \in Nat
      /\ round.answer \in [UIDs -> Hotkeys \cup {None}]
      /\ MaxRoundTicks \in Nat /\ Interval \in Nat
  BY RoundBoundAssumption, RoundAssumption DEF RoundInv, StateOK, RoundType
<1>2. CASE /\ todo # {}
           /\ round' = [round EXCEPT
                !.pc = "evaluate", !.at = Min(todo), !.hotkey = meta.hot[Min(todo)],
                !.answer = [u \in UIDs |-> IF u \in todo THEN @[u] ELSE None],
                !.folded = folded, !.pending = pending]
           /\ UNCHANGED since
  <2>1. Min(todo) \in todo /\ todo \in SUBSET UIDs
    BY <1>2, WaitingType, MinIn
  <2>2. /\ round'.at = Min(todo) /\ round'.now = round.now /\ round'.spent = round.spent
        /\ round'.answer = [u \in UIDs |-> IF u \in todo THEN round.answer[u] ELSE None]
    BY <1>1, <1>2 DEF RoundType
  <2>3. round.answer[Min(todo)] # None
    BY <2>1 DEF Waiting
  <2> QED BY <1>2, <2>1, <2>2, <2>3 DEF Locally
<1>3. CASE EndLoop(folded, pending, m, saved)
  <2> DEFINE kept == IF folded THEN Prune(m) ELSE m
  <2>1. CASE Finish(kept)
    <3>1. round' = At("idle") /\ since' = IF round.now < Interval THEN round.now ELSE Interval
      BY <2>1 DEF Finish
    <3> QED BY <1>1, <3>1, AtLocal
  <2>2. CASE /\ round' = [At("publish") EXCEPT !.now = round.now, !.pending = pending]
             /\ UNCHANGED <<scores, since>>
    <3>1. round'.pc = "publish" /\ round'.now = round.now /\ round'.spent = 0
      BY <2>2 DEF At
    <3> QED BY <1>1, <2>2, <3>1 DEF Locally
  <2> QED BY <1>3, <2>1, <2>2 DEF EndLoop
<1> QED BY <1>2, <1>3 DEF NextUid

LEMMA SubmissionIs ==
  ASSUME NEW sub \in Submissions
  PROVE  /\ sub.scores \in [UIDs -> Nat]
         /\ sub.weights = Stored(EmittedWeights(sub.scores))
<1>1. PICK s \in [UIDs -> 0 .. Perfect] :
        sub = [scores |-> s, weights |-> Stored(EmittedWeights(s))]
  BY DEF Submissions, Stored
<1> QED BY <1>1, ConstantTypes

LEMMA StepTyped ==
  ASSUME TypeInv, Next
  PROVE  Locally' /\ Bounds'
<1>0. /\ RoundInv /\ Locally /\ Bounds /\ round \in RoundType(qualified)
      /\ MaxRoundTicks \in Nat /\ MaxEvents \in Nat /\ Interval \in Nat
  BY RoundBoundAssumption, RoundAssumption DEF TypeInv, RoundInv, StateOK
<1>1. CASE Chain
  <2>1. ASSUME NEW u \in UIDs, NEW h \in Hotkeys, NEW serving \in BOOLEAN,
               Reregister(u, h, serving)
        PROVE  Locally' /\ Bounds'
    <3>1. /\ events < MaxEvents /\ events' = events + 1
          /\ chain' = [hot |-> [chain.hot EXCEPT ![u] = h],
                       up |-> (chain.up \ {chain.hot[u]}) \cup (IF serving THEN {h} ELSE {})]
          /\ UNCHANGED <<meta, weights, round, since, qualified>>
      BY <2>1 DEF Reregister, published
    <3>2. chain' \in [hot : [UIDs -> Hotkeys], up : SUBSET Hotkeys]
      BY <1>0, <3>1 DEF Bounds
    <3> QED BY <1>0, <3>1, <3>2 DEF Bounds, Locally
  <2>2. ASSUME NEW h \in Hotkeys, ToggleAxon(h) PROVE Locally' /\ Bounds'
    <3>1. /\ events < MaxEvents /\ events' = events + 1
          /\ chain' = [chain EXCEPT !.up = SymDiff(@, {h})]
          /\ UNCHANGED <<meta, weights, round, since, qualified>>
      BY <2>2 DEF ToggleAxon, published
    <3>2. chain' \in [hot : [UIDs -> Hotkeys], up : SUBSET Hotkeys]
      BY <1>0, <3>1 DEF Bounds, SymDiff
    <3> QED BY <1>0, <3>1, <3>2 DEF Bounds, Locally
  <2>3. ASSUME Tick PROVE Locally' /\ Bounds'
    <3>1. /\ round.now < MaxRoundTicks
          /\ since' = IF since < Interval THEN since + 1 ELSE since
          /\ round' = [round EXCEPT !.now = IF Running THEN @ + 1 ELSE @,
                                    !.spent = IF round.pc = "evaluate" THEN @ + 1 ELSE @]
          /\ UNCHANGED <<chain, events, meta, weights, qualified>>
      BY <2>3 DEF Tick, environment, published
    <3>2. /\ round'.pc = round.pc /\ round'.at = round.at /\ round'.answer = round.answer
          /\ round'.now = (IF Running THEN round.now + 1 ELSE round.now)
          /\ round'.spent = (IF round.pc = "evaluate" THEN round.spent + 1 ELSE round.spent)
          /\ round.now \in Nat /\ round.spent \in Nat
      BY <1>0, <3>1 DEF RoundType
    <3>3. Locally'
      BY <1>0, <3>1, <3>2 DEF Locally, Running
    <3> QED BY <1>0, <3>1, <3>3 DEF Bounds
  <2> QED BY <1>1, <2>1, <2>2, <2>3 DEF Chain
<1>2. CASE Round
  <2>1. ASSUME StartRound PROVE Locally' /\ Bounds'
    <3>1. round'.pc = "ask" /\ round'.now = 0 /\ round'.spent = 0
      BY <2>1 DEF StartRound, At
    <3> QED BY <1>0, <2>1, <3>1 DEF StartRound, Locally, Bounds, environment, published
  <2>2. ASSUME NoMiners PROVE Locally' /\ Bounds'
    BY <1>0, <2>2 DEF NoMiners, Locally, Bounds, environment, published
  <2>3. ASSUME NEW usable \in SUBSET Waiting, NEW saved, Answered(usable, saved)
        PROVE  Locally' /\ Bounds'
    <3>1. Locally' /\ since' \in 0 .. Interval
      BY <1>0, <2>3, NextUidLocal DEF Answered, Bounds
    <3> QED BY <1>0, <2>3, <3>1 DEF Answered, Bounds, environment, published
  <2>4. ASSUME AskFails PROVE Locally' /\ Bounds'
    <3>1. Locally'
      BY <2>4, AtLocal DEF AskFails
    <3> QED BY <1>0, <2>4, <3>1 DEF AskFails, Bounds, published
  <2>5. Later \in SUBSET Waiting
    BY DEF Later
  <2>6. ASSUME NEW saved, EvaluationRaises(saved) PROVE Locally' /\ Bounds'
    <3>1. Locally' /\ since' \in 0 .. Interval
      BY <1>0, <2>5, <2>6, NextUidLocal DEF EvaluationRaises, Bounds
    <3> QED BY <1>0, <2>6, <3>1 DEF EvaluationRaises, Bounds, environment, published
  <2>7. ASSUME NEW saved, NoJobRan(saved) PROVE Locally' /\ Bounds'
    <3>1. Locally' /\ since' \in 0 .. Interval
      BY <1>0, <2>5, <2>7, NextUidLocal DEF NoJobRan, Bounds
    <3> QED BY <1>0, <2>7, <3>1 DEF NoJobRan, Bounds, environment, published
  <2>8. ASSUME NEW c, NEW v, NEW built, NEW saved, JobScored(c, v, built, saved)
        PROVE  Locally' /\ Bounds'
    <3> DEFINE agent == round.answer[round.at]
    <3>1. /\ round.pc = "evaluate"
          /\ qualified' = qualified \/ qualified' = qualified \cup {agent}
          /\ UNCHANGED <<chain, events, meta, weights>>
      BY <2>8 DEF JobScored, environment
    <3>2. PICK queued, m : NextUid(Later, TRUE, queued, m, saved)
      BY <2>8 DEF JobScored
    <3>3. Locally' /\ since' \in 0 .. Interval
      BY <1>0, <2>5, <3>2, NextUidLocal DEF Bounds
    <3>4. agent \in Hotkeys
      BY <1>0, <3>1 DEF Locally, RoundType
    <3> HIDE DEF agent
    <3> QED BY <1>0, <3>1, <3>3, <3>4 DEF Bounds
  <2>9. ASSUME NEW saved, Published(saved) PROVE Locally' /\ Bounds'
    <3>1. /\ round' = At("idle")
          /\ since' = IF round.now < Interval THEN round.now ELSE Interval
          /\ UNCHANGED <<chain, events, meta, weights, qualified>>
      BY <2>9 DEF Published, Finish, environment, published
    <3>2. round.now \in Nat /\ Locally'
      BY <1>0, <3>1, AtLocal DEF RoundType
    <3> QED BY <1>0, <3>1, <3>2 DEF Bounds
  <2> QED BY <1>2, <2>1, <2>2, <2>3, <2>4, <2>6, <2>7, <2>8, <2>9 DEF Round
<1>3. ASSUME NEW agent, Push(agent) PROVE Locally' /\ Bounds'
  BY <1>0, <1>3 DEF Push, Locally, Bounds, environment
<1>4. ASSUME NEW resync \in BOOLEAN, NEW accepted \in BOOLEAN, Sync(resync, accepted)
      PROVE  Locally' /\ Bounds'
  <2>1. weights' \in [UIDs -> 0 .. U16Max]
    <3>1. CASE accepted /\ BurnUid \in UIDs
      <4>1. PICK sub \in Submissions : weights' = sub.weights
        BY <1>4, <3>1 DEF Sync
      <4> QED BY <3>1, <4>1, SubmissionIs, StoredType
    <3>2. CASE ~(accepted /\ BurnUid \in UIDs)
      BY <1>0, <1>4, <3>2 DEF Sync, Bounds
    <3> QED BY <3>1, <3>2
  <2>2. /\ meta' = IF resync THEN chain ELSE meta
        /\ UNCHANGED <<chain, events, round, since, qualified>>
    BY <1>4 DEF Sync, environment, published
  <2> QED BY <1>0, <2>1, <2>2 DEF Locally, Bounds
<1>5. ASSUME Crash PROVE Locally' /\ Bounds'
  <2>1. Locally'
    BY <1>5, AtLocal DEF Crash
  <2> QED BY <1>0, <1>5, <2>1 DEF Crash, Bounds, published
<1>6. ASSUME NEW readable, Boot(readable) PROVE Locally' /\ Bounds'
  <2>1. Locally'
    BY <1>6, AtLocal DEF Boot
  <2> QED BY <1>0, <1>6, <2>1 DEF Boot, Bounds, environment, published
<1> QED BY <1>1, <1>2, <1>3, <1>4, <1>5, <1>6 DEF Next

LEMMA Typed == Spec => []TypeInv
<1>1. Init => Locally /\ Bounds
  <2> SUFFICES ASSUME Init PROVE Locally /\ Bounds
    OBVIOUS
  <2>1. /\ MaxRoundTicks \in Nat /\ MaxEvents \in Nat /\ Interval \in Nat /\ U16Max \in Nat
        /\ Holders \in [UIDs -> Hotkeys]
    BY RoundAssumption, RoundBoundAssumption, EmissionAssumption DEF Injection
  <2>2. /\ round.pc = "idle" /\ round.now = 0 /\ round.spent = 0
    BY DEF Init, At
  <2>3. Range(Holders) \ Validators \subseteq Hotkeys
    BY <2>1 DEF Range
  <2> QED BY <2>1, <2>2, <2>3 DEF Init, Locally, Bounds
<1>2. TypeInv /\ [Next]_vars => Locally' /\ Bounds'
  <2>1. ASSUME TypeInv, UNCHANGED vars PROVE Locally' /\ Bounds'
    BY <2>1 DEF TypeInv, Locally, Bounds, vars
  <2> QED BY <2>1, StepTyped
<1> QED BY <1>1, <1>2, Invariance, PTL DEF Spec, TypeInv

\* Every variable stays in its domain, what the chain stores included: a vector
\* of the chain's width, whatever the scores.
THEOREM RoundTypeCorrect == Spec => []TypeOK
<1>1. TypeInv => TypeOK
  <2> SUFFICES ASSUME TypeInv PROVE TypeOK
    OBVIOUS
  <2>1. RoundInv /\ Locally /\ Bounds /\ MaxRoundTicks \in Nat
    BY RoundBoundAssumption DEF TypeInv
  <2>2. listed \cup disk.listed \cup round.pending \cup market \subseteq Hotkeys
    BY <2>1 DEF RoundInv, MarketIsEarned, Bounds
  <2>3. round \in Locals
    <3>1. round \in RoundType(qualified) /\ round.now \in Nat /\ round.spent \in Nat
      BY <2>1 DEF RoundInv, StateOK, RoundType
    <3>2. round.now \in 0 .. MaxRoundTicks /\ round.spent \in 0 .. MaxRoundTicks
      BY <2>1, <3>1 DEF Locally
    <3> QED BY <2>2, <3>1, <3>2 DEF RoundType, Locals
  <2>4. disk \in [cells : Matrix, listed : SUBSET Hotkeys]
    BY <2>1, <2>2 DEF RoundInv, StateOK
  <2> QED BY <2>1, <2>2, <2>3, <2>4 DEF TypeOK, RoundInv, StateOK, Bounds
<1> QED BY <1>1, Typed, PTL

\* Whenever the weights stored on the chain change they are what the scores of
\* that moment earn: only scored miners, in the order of their scores, within
\* the limit of the miners' share, and BURN_UID's percentage, or a full burn.
THEOREM WeightsAreEarnedTheorem == Spec => WeightsAreEarned
<1>1. TypeInv /\ [Next]_vars =>
        [weights' # weights /\ EnoughEarners(scores') =>
           SplitByScore(scores', weights')]_vars
  <2> SUFFICES ASSUME Next, weights' # weights, EnoughEarners(scores')
               PROVE  SplitByScore(scores', weights')
    OBVIOUS
  <2>1. PICK resync \in BOOLEAN, accepted \in BOOLEAN : Sync(resync, accepted)
    BY DEF Next, Chain, Round, Reregister, ToggleAxon, Tick, StartRound, NoMiners, Answered,
           AskFails, EvaluationRaises, NoJobRan, JobScored, Published, Push, Crash, Boot
  <2>2. BurnUid \in UIDs /\ \E sub \in Submissions : sub.scores = scores' /\ weights' = sub.weights
    BY <2>1 DEF Sync
  <2> QED BY <2>2, SubmissionIs, ScoresAreSplit
<1> QED BY <1>1, Typed, PTL DEF Spec, WeightsAreEarned

=============================================================================
