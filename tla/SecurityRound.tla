--------------------------- MODULE SecurityRound ---------------------------
(***************************************************************************)
(* The security validator of mechanism 1 (neurons/security_validator.py):  *)
(* the evaluation round, which runs as a background task, the matrix of    *)
(* per-category scores it feeds (secqurityVali/category_scores.py), the    *)
(* marketplace records it publishes (masxai/marketplace_client.py), and    *)
(* the base loop that resyncs the metagraph and submits weights            *)
(* (template/base).                                                        *)
(*                                                                         *)
(* One thread runs the event loop and sync(): the round advances only      *)
(* while forward() sleeps, so sync() comes between two of its steps        *)
(* exactly where it awaits: the query, each evaluation, the publishing.    *)
(* One step of the model is the code between two awaits.                   *)
(*                                                                         *)
(* Data abstraction.  Times are ages in ticks, counted up to the last one  *)
(* a comparison can tell apart.  A score is in points, Full for 1.0; the   *)
(* EMA (alpha 0.5) is rounded up to a point: positive stays positive, and  *)
(* a run of perfect evaluations reaches Full, as the tolerance of the      *)
(* marketplace gate has it.  An aggregate is the sum over the categories.  *)
(* An agent is named by the hotkey that serves it.                         *)
(***************************************************************************)
EXTENDS WeightEmission

CONSTANTS
  Hotkeys,      \* hotkeys that may hold a uid
  Self,         \* our own hotkey
  Validators,   \* hotkeys get_miner_uids never asks: ours, and permit holders
  Holders,      \* [UIDs -> Hotkeys]: who holds the uids at first
  Categories,   \* SECURITY_ACTIVE_CATEGORIES
  Full,         \* points of a perfect score
  Rewards,      \* points an isolated job may earn
  Interval,     \* SECURITY_SUBMISSION_INTERVAL_SECONDS, in ticks
  Freshness,    \* SECURITY_CATEGORY_FRESHNESS_SECONDS, in ticks
  Budget,       \* SECURITY_ROUND_BUDGET_SECONDS, in ticks
  Faults,       \* failures the environment may inject
  None,         \* Python's None
  MaxRoundTicks,\* bound: ticks one round takes
  MaxEvents     \* bound: chain changes, crashes and failed queries

\* "ask": the query raises; "raise": an evaluation raises; "record": a record
\* cannot be built; "save", "read": a file cannot be written, read.
FaultKinds == {"ask", "raise", "record", "save", "read", "crash"}

ASSUME RoundAssumption ==
  /\ UIDs \subseteq Nat
  /\ Holders \in Injection(UIDs, Hotkeys) /\ Self \in Validators
  /\ Full \in Nat \ {0} /\ Rewards \subseteq 0 .. Full
  /\ Interval \in Nat /\ Freshness \in Nat /\ Budget \in Nat
  /\ Faults \subseteq FaultKinds
  /\ IsFiniteSet(Categories)

ASSUME RoundNoneAssumption ==
  None \notin Nat \cup Hotkeys /\ None \notin [score : Nat, age : Nat]

ASSUME RoundBoundAssumption == MaxRoundTicks \in Nat /\ MaxEvents \in Nat

VARIABLES
  chain,    \* the chain's uid -> hotkey, and the hotkeys with a serving axon
  events,   \* how many chain changes, crashes and failed queries there were
  meta,     \* self.metagraph: the chain as last synced
  scores,   \* self.scores
  weights,  \* the weights the chain last accepted from us
  cells,    \* self._cat_scores.cells
  listed,   \* self._listed_agents
  disk,     \* the two files behind them
  round,    \* the background task and its locals
  since,    \* ticks since last_security_round_at
  market,   \* the marketplace backend: the agents it has a record of
  qualified \* history: agents evaluated at an aggregate that qualifies

vars == <<chain, events, meta, scores, weights, cells, listed, disk, round, since,
          market, qualified>>

environment == <<chain, events>>
published == <<market, qualified>>

-----------------------------------------------------------------------------
(* The category matrix *)

MaxAge == Freshness + MaxRoundTicks + 1

Cell == [score : 0 .. Full, age : 0 .. MaxAge]

Matrix == [Hotkeys -> [Categories -> Cell \cup {None}]]

EmptyMatrix == [h \in Hotkeys |-> [c \in Categories |-> None]]

\* The hotkey has a row in the matrix; a row is created with its first cell.
HasRow(m, h) == \E c \in Categories : m[h][c] # None

\* Mutant: the new score is added to the average, not blended with it.
UpdateSum(m, h, c, v) ==
  [m EXCEPT ![h][c] = [score |-> IF @ = None THEN v ELSE v + @.score, age |-> 0]]

\* CategoryScores.update
Update(m, h, c, v) ==
  LET ema(old) == (v + old + 1) \div 2
  IN [m EXCEPT ![h][c] = [score |-> IF @ = None THEN v ELSE ema(@.score), age |-> 0]]

\* Was the cell refreshed within the window, as of a round begun `now' ago?
Fresh(cell, now) == cell # None /\ cell.age <= Freshness + now

\* CategoryScores.aggregate, as the number of points of the fresh cells.
Aggregate(m, h, now) ==
  Cardinality({p \in Categories \X (1 .. Full) :
                 Fresh(m[h][p[1]], now) /\ p[2] <= m[h][p[1]].score})

\* CategoryScores.prune(set(self.metagraph.hotkeys))
Prune(m) == [h \in Hotkeys |-> IF h \in Range(meta.hot) THEN m[h] ELSE EmptyMatrix[h]]

Aged(m) ==
  LET older(cell) == IF cell = None \/ cell.age = MaxAge THEN cell
                     ELSE [cell EXCEPT !.age = @ + 1]
  IN [h \in Hotkeys |-> [c \in Categories |-> older(m[h][c])]]

\* Mutant: a miner without fresh evidence is left alone.
RecomputeFreshScores(m, now) ==
  [u \in UIDs |-> LET sum == Aggregate(m, meta.hot[u], now)
                  IN IF sum > 0 THEN sum ELSE scores[u]]

\* _recompute_all_scores and _update_from_rewards: every miner with a row.
RecomputeAllScores(m, now) ==
  [u \in UIDs |-> IF HasRow(m, meta.hot[u])
                  THEN Aggregate(m, meta.hot[u], now) ELSE scores[u]]

-----------------------------------------------------------------------------
(* The round's locals *)

Perfect == Full * Cardinality(Categories)

\* answer: the hotkey a uid had when it was asked, so whose agent it answers
\* with; None if it was not asked, gave nothing usable, or is done; at, hotkey:
\* the evaluation being awaited; now, spent: ticks since the round, its loop,
\* began; folded: rewards or skipped is not empty; pending: the agents whose
\* records are to be published.
Locals ==
  [pc : {"idle", "ask", "evaluate", "publish", "down"},
   answer : [UIDs -> Hotkeys \cup {None}],
   at : UIDs \cup {None}, hotkey : Hotkeys \cup {None},
   now : 0 .. MaxRoundTicks, spent : 0 .. MaxRoundTicks, folded : BOOLEAN,
   pending : SUBSET Hotkeys]

At(pc) ==
  [pc |-> pc, answer |-> [u \in UIDs |-> None], at |-> None,
   hotkey |-> None, now |-> 0, spent |-> 0, folded |-> FALSE, pending |-> {}]

Running == round.pc \in {"ask", "evaluate", "publish"}

\* get_miner_uids
MinerUids == {u \in UIDs : meta.hot[u] \in meta.up \ Validators}

\* Mutant: any positive aggregate qualifies.
ShouldPublishPositive(agent, aggregate) == agent \in listed \/ aggregate > 0

\* should_publish: once listed, or when the aggregate is perfect.
ShouldPublish(agent, aggregate) == agent \in listed \/ aggregate = Perfect

-----------------------------------------------------------------------------
(* The chain *)

\* A miner takes the uid of another neuron; its axon may be serving by the time
\* anybody looks.  (When the uid is ours the process exits.)
Reregister(u, h, serving) ==
  /\ events < MaxEvents
  /\ h \notin Range(chain.hot) \cup Validators /\ chain.hot[u] # Self
  /\ chain' = [hot |-> [chain.hot EXCEPT ![u] = h],
               up |-> (chain.up \ {chain.hot[u]}) \cup (IF serving THEN {h} ELSE {})]
  /\ events' = events + 1
  /\ UNCHANGED <<meta, scores, weights, cells, listed, disk, round, since, published>>

\* A registered miner serves its axon, or stops being one (a reset axon, a
\* validator permit).
ToggleAxon(h) ==
  /\ events < MaxEvents
  /\ h \in Range(chain.hot) \ Validators
  /\ chain' = [chain EXCEPT !.up = SymDiff(@, {h})]
  /\ events' = events + 1
  /\ UNCHANGED <<meta, scores, weights, cells, listed, disk, round, since, published>>

Tick ==
  /\ round.now < MaxRoundTicks
  /\ cells' = Aged(cells)
  /\ disk' = [disk EXCEPT !.cells = Aged(@)]
  /\ since' = IF since < Interval THEN since + 1 ELSE since
  /\ round' = [round EXCEPT !.now = IF Running THEN @ + 1 ELSE @,
                            !.spent = IF round.pc = "evaluate" THEN @ + 1 ELSE @]
  /\ UNCHANGED <<environment, meta, scores, weights, listed, published>>

-----------------------------------------------------------------------------
(* The round *)

\* security_round up to the query; it is due, and some miner is serving.
StartRound ==
  /\ round.pc = "idle" /\ since = Interval
  /\ MinerUids # {}
  /\ round' = [At("ask") EXCEPT
                 !.answer = [u \in UIDs |-> IF u \in MinerUids THEN meta.hot[u] ELSE None]]
  /\ UNCHANGED <<environment, meta, scores, weights, cells, listed, disk, since, published>>

\* The early return when nobody is: the round counts as made.
NoMiners ==
  /\ round.pc = "idle" /\ since = Interval
  /\ MinerUids = {}
  /\ since' = 0
  /\ UNCHANGED <<environment, meta, scores, weights, cells, listed, disk, round, published>>

\* The end of security_round, and of the task.
Finish(m) ==
  /\ scores' = RecomputeAllScores(m, round.now)
  /\ since' = IF round.now < Interval THEN round.now ELSE Interval
  /\ round' = At("idle")

\* Mutant: the matrix is saved before it is pruned.
EndLoopSaveFirst(folded, pending, m, saved) ==
  LET kept == IF folded THEN Prune(m) ELSE m
  IN /\ cells' = kept
     /\ disk' = [disk EXCEPT !.cells = IF folded /\ saved THEN m ELSE @]
     /\ \/ /\ pending = {}
           /\ Finish(kept)
        \/ /\ pending # {}
           /\ round' = [At("publish") EXCEPT !.now = round.now, !.pending = pending]
           /\ UNCHANGED <<scores, since>>

\* The loop is over: prune and save the matrix, then publish; with nothing to
\* publish there is no await before the end.
EndLoop(folded, pending, m, saved) ==
  LET kept == IF folded THEN Prune(m) ELSE m
  IN /\ cells' = kept
     /\ disk' = [disk EXCEPT !.cells = IF folded /\ saved THEN kept ELSE @]
     /\ \/ /\ pending = {}
           /\ Finish(kept)
        \/ /\ pending # {}
           /\ round' = [At("publish") EXCEPT !.now = round.now, !.pending = pending]
           /\ UNCHANGED <<scores, since>>

\* The head of the loop: the next of the uids `todo' that answered, unless the
\* budget is spent.  The hotkey is read here, before its evaluation is awaited.
NextUid(todo, folded, pending, m, saved) ==
  \/ /\ todo # {} /\ round.spent <= Budget
     /\ round' = [round EXCEPT
                    !.pc = "evaluate", !.at = Min(todo), !.hotkey = meta.hot[Min(todo)],
                    !.answer = [u \in UIDs |-> IF u \in todo THEN @[u] ELSE None],
                    !.folded = folded, !.pending = pending]
     /\ cells' = m
     /\ UNCHANGED <<scores, disk, since>>
  \/ /\ todo = {} \/ round.spent > Budget
     /\ EndLoop(folded, pending, m, saved)

\* What a save, the building of a record, the load of a file may come to.
Outcomes(fault) == {TRUE} \cup (IF fault \in Faults THEN {FALSE} ELSE {})
SaveOutcomes == Outcomes("save")
BuildOutcomes == Outcomes("record")
ReadOutcomes == Outcomes("read")

Waiting == {u \in UIDs : round.answer[u] # None}
Later == Waiting \ {round.at}

\* The query returns; the uids in `usable' offer an agent, the others did not
\* answer, declined, or sent nothing usable.
Answered(usable, saved) ==
  /\ round.pc = "ask"
  /\ NextUid(usable, FALSE, {}, cells, saved)
  /\ UNCHANGED <<environment, meta, weights, listed, published>>

\* The query itself raises: the task ends, and last_security_round_at is as before.
AskFails ==
  /\ round.pc = "ask"
  /\ "ask" \in Faults /\ events < MaxEvents
  /\ events' = events + 1
  /\ round' = At("idle")
  /\ UNCHANGED <<chain, meta, scores, weights, cells, listed, disk, since, published>>

\* The evaluation raised: logged, and the loop goes on.
EvaluationRaises(saved) ==
  /\ round.pc = "evaluate"
  /\ "raise" \in Faults
  /\ NextUid(Later, round.folded, round.pending, cells, saved)
  /\ UNCHANGED <<environment, meta, weights, listed, published>>

\* A reward of None (a fault of ours: skipped), or one without a category (the
\* submission was rejected): the matrix is left alone, and no job ran that
\* could be published.
NoJobRan(saved) ==
  /\ round.pc = "evaluate"
  /\ NextUid(Later, TRUE, round.pending, cells, saved)
  /\ UNCHANGED <<environment, meta, weights, listed, published>>

\* The isolated job earned v points in category c: fold it into the row of the
\* hotkey, and queue its record if the aggregate passes the gate.  An agent that
\* passes is listed before its record is built, which may fail.
JobScored(c, v, built, saved) ==
  LET agent == round.answer[round.at]
      m == Update(cells, round.hotkey, c, v)
      sum == Aggregate(m, round.hotkey, round.now)
      publish == ShouldPublish(agent, sum)
      queued == IF publish /\ built THEN round.pending \cup {agent} ELSE round.pending
  IN /\ round.pc = "evaluate"
     /\ listed' = IF publish THEN listed \cup {agent} ELSE listed
     /\ NextUid(Later, TRUE, queued, m, saved)
     /\ qualified' = IF sum = Perfect THEN qualified \cup {agent} ELSE qualified
     /\ UNCHANGED <<environment, meta, weights, market>>

\* One of the concurrent push_agent calls reaches the backend, which upserts by
\* agent, whether or not the answer gets back within the retries.
Push(agent) ==
  /\ round.pc = "publish"
  /\ agent \in round.pending
  /\ market' = market \cup {agent}
  /\ UNCHANGED <<environment, meta, scores, weights, cells, listed, disk, round, since,
                 qualified>>

\* Mutant: a push is tried until it is accepted.
PublishedOnceAccepted(saved) ==
  /\ round.pc = "publish" /\ round.pending \subseteq market
  /\ disk' = [disk EXCEPT !.listed = IF saved THEN listed ELSE @]
  /\ Finish(cells)
  /\ UNCHANGED <<environment, meta, weights, cells, listed, published>>

\* The gather returns, with every push accepted or given up: the listed agents
\* are saved and the round ends.
Published(saved) ==
  /\ round.pc = "publish"
  /\ disk' = [disk EXCEPT !.listed = IF saved THEN listed ELSE @]
  /\ Finish(cells)
  /\ UNCHANGED <<environment, meta, weights, cells, listed, published>>

-----------------------------------------------------------------------------
(* The base loop *)

\* Mutant: a score stays with the uid when the hotkey changes.
ResyncedKept(s) == s

\* resync_metagraph: zero the scores of replaced hotkeys.
Resynced(s) == [u \in UIDs |-> IF meta.hot[u] = chain.hot[u] THEN s[u] ELSE 0]

\* What the chain stores for each vector of scores: zero where nothing was
\* submitted.  A table, so that TLC works out each entry once.
Submissions ==
  {LET w == EmittedWeights(s)
   IN [scores |-> s, weights |-> [u \in UIDs |-> IF u \in DOMAIN w THEN w[u] ELSE 0]] :
     s \in [UIDs -> 0 .. Perfect]}

\* sync(): resync if it is due, then set_weights if they are; set_weights gives
\* up when BURN_UID is not in the metagraph, and may be refused by the chain.
Sync(resync, accepted) ==
  /\ round.pc # "down"
  /\ meta' = IF resync THEN chain ELSE meta
  /\ scores' = IF resync THEN Resynced(scores) ELSE scores
  /\ IF accepted /\ BurnUid \in UIDs
     THEN \E sub \in Submissions : sub.scores = scores' /\ weights' = sub.weights
     ELSE UNCHANGED weights
  /\ UNCHANGED <<environment, cells, listed, disk, round, since, published>>

Crash ==
  /\ "crash" \in Faults
  /\ round.pc # "down"
  /\ round' = At("down")
  /\ scores' = [u \in UIDs |-> 0]
  /\ cells' = EmptyMatrix
  /\ listed' = {}
  /\ since' = Interval
  /\ events < MaxEvents /\ events' = events + 1
  /\ UNCHANGED <<chain, meta, weights, disk, published>>

\* __init__: a new metagraph, zero scores, the two files (nothing, if one
\* cannot be read), and a round that is due at once.
Boot(readable) ==
  /\ round.pc = "down"
  /\ meta' = chain
  /\ cells' = IF readable THEN disk.cells ELSE EmptyMatrix
  /\ listed' = IF readable THEN disk.listed ELSE {}
  /\ round' = At("idle")
  /\ UNCHANGED <<environment, scores, weights, disk, since, published>>

-----------------------------------------------------------------------------
Init ==
  /\ chain = [hot |-> Holders, up |-> Range(Holders) \ Validators]
  /\ events = 0
  /\ meta = chain
  /\ scores = [u \in UIDs |-> 0]
  /\ weights = [u \in UIDs |-> 0]
  /\ cells = EmptyMatrix
  /\ listed = {}
  /\ disk = [cells |-> EmptyMatrix, listed |-> {}]
  /\ round = At("idle")
  /\ since = Interval
  /\ market = {}
  /\ qualified = {}

Chain ==
  \/ \E u \in UIDs, h \in Hotkeys, serving \in BOOLEAN : Reregister(u, h, serving)
  \/ \E h \in Hotkeys : ToggleAxon(h)
  \/ Tick

Round ==
  \/ StartRound
  \/ NoMiners
  \/ \E usable \in SUBSET Waiting, saved \in SaveOutcomes : Answered(usable, saved)
  \/ AskFails
  \/ \E saved \in SaveOutcomes : EvaluationRaises(saved) \/ NoJobRan(saved)
  \/ \E c \in Categories, v \in Rewards, built \in BuildOutcomes, saved \in SaveOutcomes :
       JobScored(c, v, built, saved)
  \/ \E saved \in SaveOutcomes : Published(saved)

Next ==
  \/ Chain
  \/ Round
  \/ \E agent \in round.pending : Push(agent)
  \/ \E resync, accepted \in BOOLEAN : Sync(resync, accepted)
  \/ Crash
  \/ \E readable \in ReadOutcomes : Boot(readable)

Spec == Init /\ [][Next]_vars

\* The loop runs on and the process is restarted; time passes; every await of
\* the round returns (the query and the evaluations have their own timeouts);
\* syncs become due, and are accepted, again and again.  Crashes and failed
\* queries are bounded by MaxEvents.
Fairness ==
  /\ WF_vars(\E readable \in ReadOutcomes : Boot(readable))
  /\ WF_vars(Tick)
  /\ WF_vars(Round)
  /\ WF_vars(Sync(TRUE, TRUE))

FairSpec == Spec /\ Fairness

-----------------------------------------------------------------------------
(* Properties *)

\* Every variable stays in its domain.
TypeOK ==
  /\ chain \in [hot : [UIDs -> Hotkeys], up : SUBSET Hotkeys]
  /\ meta \in [hot : [UIDs -> Hotkeys], up : SUBSET Hotkeys]
  /\ events \in 0 .. MaxEvents
  /\ scores \in [UIDs -> 0 .. Perfect]
  /\ weights \in [UIDs -> 0 .. U16Max]
  /\ cells \in Matrix
  /\ listed \subseteq Hotkeys
  /\ disk \in [cells : Matrix, listed : SUBSET Hotkeys]
  /\ round \in Locals
  /\ since \in 0 .. Interval
  /\ market \subseteq Hotkeys
  /\ qualified \subseteq Hotkeys

Evidence(h) == {c \in Categories : cells[h][c] # None /\ cells[h][c].score > 0}

\* A uid only has a score while the hotkey the metagraph shows for it has
\* positive evidence in the matrix, through replaced hotkeys, prunes, failed
\* rounds and restarts, although the round, the base loop and __init__ all write
\* self.scores (_recompute_all_scores, resync_metagraph).
ScoresAreBacked ==
  \A u \in UIDs : scores[u] > 0 => Evidence(meta.hot[u]) # {}

FreshEvidence(m, h, now) == \E c \in Categories : Fresh(m[h][c], now) /\ m[h][c].score > 0

\* When a round ends every positive score, also of a miner that was not asked,
\* did not answer or came after the budget, rests on evidence refreshed within
\* the window before the round began ("Score EVERY miner from the
\* freshness-filtered matrix", security_round).
RoundEndsFresh ==
  [][Running /\ round'.pc = "idle" /\ ~AskFails =>
       \A u \in UIDs : scores'[u] > 0 => FreshEvidence(cells', meta.hot[u], round.now)]_vars

\* An agent is listed, queued or on the marketplace only if an evaluation of it
\* once reached the entry score, also after failed pushes, crashes between a
\* push and the save of the listed set, and restarts (_queue_marketplace_push,
\* _publish_pending).
MarketIsEarned ==
  listed \cup disk.listed \cup round.pending \cup market \subseteq qualified

\* Between rounds a restart loses nothing: the matrix, pruned rows included, and
\* the listed agents are on disk ("a restart never loses the matrix",
\* category_scores.py), as long as the files can be written and every record
\* that passes the gate can be built.
IdleStateIsSaved ==
  round.pc = "idle" => disk = [cells |-> cells, listed |-> listed]

\* The weights the chain stores follow the scores of the moment: no scored miner,
\* and everything burns; otherwise a miner gets weight only for a score, no less
\* than one with a lower score, never above the limit within the miners' share,
\* and BURN_UID gets its percentage, up to rounding (set_weights,
\* _apply_burn_allocation).  Fewer earners than min_allowed_weights are excepted.
WeightsAreEarned ==
  [][weights' # weights /\ EnoughEarners(scores') => SplitByScore(scores', weights')]_vars

\* A round that was started ends, so that the next one can be: only one runs at
\* a time (_round_task, forward).
RoundsFinish == Running ~> round.pc \in {"idle", "down"}

Unearned(u) == weights[u] > 0 /\ ~FreshEvidence(cells, meta.hot[u], 0)

\* A miner whose evidence has gone stale is eventually paid nothing on chain,
\* provided some miner is there to be asked: with nobody to ask the round
\* returns before the scores are recomputed.
IdleMinersStopEarning ==
  \A u \in UIDs \ {BurnUid} : Unearned(u) ~> ~Unearned(u) \/ MinerUids = {}

\* A run is folded only into the row of the miner whose agent was run (the
\* matrix holds "an EMA of that miner's task scores", category_scores.py).
RowsAreOwn ==
  [][\A h \in Hotkeys, c \in Categories :
       round.pc = "evaluate" /\ cells'[h][c] # cells[h][c] /\ cells'[h][c] # None
         /\ cells'[h][c].age = 0 => h = round.answer[round.at]]_vars

=============================================================================
