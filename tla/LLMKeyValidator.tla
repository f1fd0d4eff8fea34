-------------------------- MODULE LLMKeyValidator --------------------------
(***************************************************************************)
(* The LLM-key validator of mechanism 0 (neurons/validator.py): one        *)
(* process that relays miners' keys, polls the protocol backend for usage  *)
(* rows, closes one accounting window per chain epoch, kills bad keys,     *)
(* submits weights, saves everything to one file, and may crash between    *)
(* any two steps.                                                          *)
(*                                                                         *)
(* Around it: the chain (epochs, uid -> hotkey) and the backend (an        *)
(* append-only log of usage rows, and a roster of dead keys).              *)
(*                                                                         *)
(* Data abstraction.  A usage row is its position in the backend's log; a  *)
(* window (llm_key_pending_calls, llm_key_last_epoch_calls) is the set of  *)
(* rows folded into it, from which the code's counters are read back.  A   *)
(* score is the set of rows it was computed from, {} standing for 0.0.  A  *)
(* key is a pair (hotkey, sub_key); Owner gives its hotkey.                *)
(***************************************************************************)
EXTENDS Naturals, FiniteSets, Sequences

CONSTANTS
  UIDs,                 \* slots of the metagraph
  Hotkeys,              \* hotkeys that may hold a slot
  Keys,                 \* contributed keys
  Owner,                \* [Keys -> Hotkeys]
  Kinds,                \* kinds of usage row the backend emits
  None,                 \* Python's None
  EpochLength,          \* tempo + 1, in blocks
  Gaps,                 \* lengths, in blocks, of the epochs the chain runs
  MinCalls,             \* LLM_KEY_MIN_CALLS_FOR_SCORING
  MinGraded,            \* LLM_KEY_QUALITY_FLOOR_MIN_GRADED
  ReliabilityFloorPct,  \* LLM_KEY_RELIABILITY_HARD_FLOOR, in percent
  QualityFloorPct,      \* LLM_KEY_QUALITY_HARD_FLOOR, in percent
  Faults,               \* failures the environment may inject
  MaxRows,              \* bound: rows the backend ever logs
  MaxBlock              \* bound: last block an epoch may start at

RowKinds == {"ok", "lowq", "fail", "inactive", "fatal", "malformed"}

FaultKinds == {"epoch", "tempo", "relay", "reports", "roster", "save", "weights", "death",
               "crash"}

ASSUME OwnerAssumption == Owner \in [Keys -> Hotkeys]

ASSUME NoneAssumption == None \notin Nat /\ None \notin UIDs

ASSUME EnvAssumption == Kinds \subseteq RowKinds /\ Faults \subseteq FaultKinds

ASSUME EpochAssumption ==
  /\ EpochLength \in Nat \ {0}
  /\ Gaps \subseteq Nat \ {0}

ASSUME FloorAssumption ==
  /\ MinCalls \in Nat
  /\ MinGraded \in Nat \ {0}
  /\ ReliabilityFloorPct \in 1 .. 100
  /\ QualityFloorPct \in 0 .. 100

ASSUME BoundAssumption == MaxRows \in Nat /\ MaxBlock \in Nat

VARIABLES
  log,           \* backend: usage rows, oldest first
  rosterDead,    \* backend: keys the roster lists as DEAD or REVOKED
  starts,        \* chain: start blocks of every epoch so far
  chainStart,    \* chain: start block of the current epoch
  chainHotkeys,  \* chain: uid -> hotkey
  pc,            \* where the validator's loop is
  hotkeys,       \* validator: metagraph.hotkeys as last synced
  mem,           \* validator: the state save_masxai_state() persists
  fetched,       \* validator: next_since of the report page being processed
  disk,          \* the state file
  weights,       \* validator: the array being submitted, all {} otherwise
  foldedIn,      \* history: recorded epoch a row was folded in
  paidIn         \* history: recorded epochs whose weights a row contributed to

vars == <<log, rosterDead, starts, chainStart, chainHotkeys, pc, hotkeys,
          mem, fetched, disk, weights, foldedIn, paidIn>>

backend == <<log, rosterDead>>
chain == <<starts, chainStart, chainHotkeys>>
history == <<foldedIn, paidIn>>

-----------------------------------------------------------------------------
(* State of the validator *)

Rows == 1 .. MaxRows

\* A score inherited from the state file of the pre-LLM-key subnet.
Legacy == 0

\* tracked: the hotkey has an entry in llm_key_hotkey_status; uid: the uid it
\* was last seen at; reported: last_report_at is set; missing: _missing_since
\* is set.
HotkeyStatus == [tracked : BOOLEAN, uid : UIDs \cup {None},
                 reported : BOOLEAN, missing : BOOLEAN]

\* "unknown": no entry in the hotkey's "keys" map; "dead": alive is False.
KeyState == {"unknown", "alive", "dead"}

ValidatorState ==
  [pending    : SUBSET Rows,              \* llm_key_pending_calls
   paid       : SUBSET Rows,              \* llm_key_last_epoch_calls
   epochStart : Nat \cup {None},          \* llm_key_epoch_start_block
   cursor     : 0 .. MaxRows,             \* last_llm_key_report_cursor
   status     : [Hotkeys -> HotkeyStatus],
   keys       : [Keys -> KeyState],
   scores     : [UIDs -> SUBSET (Rows \cup {Legacy})]]

Untracked == [tracked |-> FALSE, uid |-> None, reported |-> FALSE, missing |-> FALSE]

NewState ==
  [pending |-> {}, paid |-> {}, epochStart |-> None, cursor |-> 0,
   status |-> [h \in Hotkeys |-> Untracked],
   keys |-> [k \in Keys |-> "unknown"],
   scores |-> [u \in UIDs |-> {}]]

NoWeights == [u \in UIDs |-> {}]

\* The state file an in-place upgrade finds: scores, and nothing behind them.
UpgradedState == [NewState EXCEPT !.scores = [u \in UIDs |-> {Legacy}]]

Registered(h) == \E u \in UIDs : hotkeys[u] = h

UidOf(h) == CHOOSE u \in UIDs : hotkeys[u] = h

HotkeyOf(i) == Owner[log[i].key]

-----------------------------------------------------------------------------
(* Scoring a window *)

Successes(R) == {i \in R : log[i].kind \in {"ok", "lowq"}}

\* Only an answered call carries a quality grade.
Graded(R) == Successes(R)

BelowReliability(R) ==
  100 * Cardinality(Successes(R)) < ReliabilityFloorPct * Cardinality(R)

BelowQuality(R) ==
  /\ Cardinality(Graded(R)) >= MinGraded
  /\ 100 * Cardinality({i \in Graded(R) : log[i].kind = "ok"})
       < QualityFloorPct * Cardinality(Graded(R))

\* Does one key's own sub-window trip a hard floor?
SubWindowFloor(R) ==
  /\ Cardinality(R) >= MinCalls
  /\ BelowReliability(R) \/ BelowQuality(R)

\* Is the reward of a hotkey's pooled window positive?
PooledWindowEarns(R) ==
  R # {} /\ ~BelowReliability(R) /\ ~BelowQuality(R)

\* Mutant: the window being paid keeps the dead keys' rows.
KillKeysInPendingOnly(m, K) ==
  [m EXCEPT !.keys = [k \in Keys |-> IF k \in K THEN "dead" ELSE @[k]],
            !.pending = {i \in @ : log[i].key \notin K}]

\* Mutant: the rows collected so far are dropped, but the key stays alive.
KillKeysUnmarked(m, K) == [m EXCEPT !.pending = {i \in @ : log[i].key \notin K}]

\* Mark keys dead and drop their rows from both windows.
KillKeys(m, K) ==
  LET kept(R) == {i \in R : log[i].key \notin K}
  IN [m EXCEPT !.keys = [k \in Keys |-> IF k \in K THEN "dead" ELSE @[k]],
               !.status = [h \in Hotkeys |->
                             IF \E k \in K : Owner[k] = h
                             THEN [@[h] EXCEPT !.tracked = TRUE] ELSE @[h]],
               !.pending = kept(@),
               !.paid = kept(@)]

\* The rows a hotkey is scored on: those of the paid window, dead keys aside.
Pool(m, h) == {i \in m.paid : HotkeyOf(i) = h /\ m.keys[log[i].key] # "dead"}

ScoreLastEpoch(m) ==
  LET junk == {k \in Keys : LET R == {i \in m.paid : log[i].key = k}
                            IN R # {} /\ SubWindowFloor(R)}
      n == KillKeys(m, junk)
  IN [n EXCEPT !.status = [h \in Hotkeys |->
                             IF \E i \in n.paid : HotkeyOf(i) = h
                             THEN [@[h] EXCEPT !.tracked = TRUE] ELSE @[h]],
               !.scores = [u \in UIDs |->
                             LET R == Pool(n, hotkeys[u])
                             IN IF PooledWindowEarns(R) THEN R ELSE {}]]

-----------------------------------------------------------------------------
(* Epochs *)

\* start: the epoch start the chain answered, or None; len: the epoch length
\* computed from the chain's tempo, or None.
Sliver(previous, start, len) ==
  /\ previous # None /\ len # None
  /\ previous < start /\ 2 * (start - previous) < len

\* Mutant: any later epoch follows the recorded one.
ContiguousUnbounded(previous, start, len) ==
  previous # None /\ len # None /\ previous < start

\* Mutant: an epoch of full length is already too long.
ContiguousStrict(previous, start, len) ==
  previous # None /\ len # None /\ previous < start /\ start - previous < len

\* Mutant: only an epoch of exactly the full length is contiguous.
ContiguousExact(previous, start, len) ==
  previous # None /\ len # None /\ start - previous = len

Contiguous(previous, start, len) ==
  /\ previous # None /\ len # None
  /\ previous < start /\ 2 * (start - previous) <= 3 * len

\* Mutant: the collecting window is not reset when it is promoted.
RollKeepsPending(m, start, len) ==
  IF start = None \/ start = m.epochStart THEN m
  ELSE ScoreLastEpoch(
         [m EXCEPT !.paid = IF Contiguous(m.epochStart, start, len) THEN m.pending ELSE {},
                   !.epochStart = start])

\* Mutant: an epoch that does not follow the recorded one is not recorded.
RollOnlyContiguous(m, start, len) ==
  IF start = None \/ ~Contiguous(m.epochStart, start, len) THEN m
  ELSE ScoreLastEpoch([m EXCEPT !.paid = m.pending, !.pending = {}, !.epochStart = start])

RollEpochIfNeeded(m, start, len) ==
  IF start = None \/ start = m.epochStart THEN m
  ELSE IF Sliver(m.epochStart, start, len)
  THEN [m EXCEPT !.epochStart = start]
  ELSE ScoreLastEpoch(
         [m EXCEPT !.paid = IF Contiguous(m.epochStart, start, len)
                            THEN m.pending ELSE {},
                   !.pending = {},
                   !.epochStart = start])

\* What the two chain reads of _roll_epoch_if_needed may answer.
EpochReads == {chainStart} \cup (IF "epoch" \in Faults THEN {None} ELSE {})
LengthReads == {EpochLength} \cup (IF "tempo" \in Faults THEN {None} ELSE {})

-----------------------------------------------------------------------------
(* Usage rows *)

\* Rows m.cursor+1 .. n, as get_reports returns them; rows of unregistered
\* hotkeys are skipped.
Page(m, n) == {i \in (m.cursor + 1) .. n : Registered(HotkeyOf(i))}

\* Rows that kill their key: marked inactive, or with a fatal error category.
Killers(m, n) == {i \in Page(m, n) : log[i].kind \in {"inactive", "fatal"}}

KilledInPage(m, n) == {log[i].key : i \in Killers(m, n)}

\* Rows still in the collecting window when the page is done: folded (a
\* malformed row is dropped), and not followed by a row that kills their key.
Folded(m, n) ==
  {i \in Page(m, n) :
     /\ log[i].kind \notin {"inactive", "fatal", "malformed"}
     /\ \A j \in Killers(m, n) : log[j].key = log[i].key => j < i}

\* Keys whose last word in the page is a successful call: it revives them.
RevivedInPage(m, n) == {log[i].key : i \in Successes(Folded(m, n))}

\* The report loop, over the rows of the page in order.
FoldReports(m, n) ==
  LET reported == {HotkeyOf(i) : i \in Page(m, n)}
      d == KillKeys(m, KilledInPage(m, n))
  IN [d EXCEPT !.pending = @ \cup Folded(m, n),
               !.keys = [k \in Keys |-> IF k \in RevivedInPage(m, n) THEN "alive" ELSE @[k]],
               !.status = [h \in Hotkeys |->
                             IF h \in reported
                             THEN [@[h] EXCEPT !.tracked = TRUE, !.uid = UidOf(h),
                                               !.reported = TRUE]
                             ELSE @[h]]]

\* Hotkeys absent from the metagraph: marked on first sight, evicted (with
\* their collecting window) once the grace period has run out.
PruneHotkeyStatus(m, expired) ==
  LET absent(h) == m.status[h].tracked /\ ~Registered(h)
      evicted(h) == absent(h) /\ m.status[h].missing /\ h \in expired
  IN [m EXCEPT !.status = [h \in Hotkeys |->
                             IF evicted(h) THEN Untracked
                             ELSE [@[h] EXCEPT !.missing = absent(h)]],
               !.keys = [k \in Keys |-> IF evicted(Owner[k]) THEN "unknown" ELSE @[k]],
               !.pending = {i \in @ : ~evicted(HotkeyOf(i))}]

\* Mutant: the cursor is left where the page began.
CursorNotAdvanced(m, n) == m

\* Mutant: the cursor goes one past the page.
CursorPastPage(m, n) == [m EXCEPT !.cursor = n + 1]

\* The page is done: the next poll asks for what follows its next_since.
AdvanceCursor(m, n) == [m EXCEPT !.cursor = n]

-----------------------------------------------------------------------------
(* Weights and persistence *)

HasLLMKeyEvidence(m, hk, u) ==
  LET h == hk[u]
      known == {k \in Keys : Owner[k] = h /\ m.keys[k] # "unknown"}
  IN /\ m.status[h].tracked
     /\ m.status[h].uid = u
     /\ m.status[h].reported
     /\ known # {} => \E k \in known : m.keys[k] # "dead"

\* Mutant: a score is taken at its word.
UnmaskedScores(m, hk) == m.scores

\* Both _blended_weight_array (for the submission) and _drop_unbacked_scores
\* (at load) zero the scores that have no evidence.
BackedScores(m, hk) ==
  [u \in UIDs |-> IF HasLLMKeyEvidence(m, hk, u) THEN m.scores[u] ELSE {}]

\* Mutant: the report cursor is not restored.
LoadStateWithoutCursor(s, hk) == [s EXCEPT !.scores = BackedScores(s, hk), !.cursor = 0]

LoadState(s, hk) == [s EXCEPT !.scores = BackedScores(s, hk)]

-----------------------------------------------------------------------------
(* The backend and the chain *)

ReportUsage(k, kind) ==
  /\ Len(log) < MaxRows
  /\ log' = Append(log, [key |-> k, kind |-> kind])
  /\ UNCHANGED <<rosterDead, chain, pc, hotkeys, mem, fetched, disk, weights, history>>

KeyDies(k) ==
  /\ "death" \in Faults
  /\ rosterDead' = rosterDead \cup {k}
  /\ UNCHANGED <<log, chain, pc, hotkeys, mem, fetched, disk, weights, history>>

NewEpoch(g) ==
  /\ chainStart + g <= MaxBlock
  /\ chainStart' = chainStart + g
  /\ starts' = starts \cup {chainStart + g}
  /\ UNCHANGED <<backend, chainHotkeys, pc, hotkeys, mem, fetched, disk, weights, history>>

Reregister(u, h) ==
  /\ \A v \in UIDs : chainHotkeys[v] # h
  /\ chainHotkeys' = [chainHotkeys EXCEPT ![u] = h]
  /\ UNCHANGED <<backend, starts, chainStart, pc, hotkeys, mem, fetched, disk, weights, history>>

-----------------------------------------------------------------------------
(* The validator's loop: forward() is ask, poll, save; then sync() *)

\* llm_key_submission_round, for one miner that answered with enough keys: the
\* backend stores the keys in `stored' and accepts those in `accepted'.
RelayKeys(h, stored, accepted) ==
  /\ pc = "ask"
  /\ Registered(h)
  /\ mem' = [mem EXCEPT
       !.status[h] = [@ EXCEPT !.tracked = TRUE, !.uid = UidOf(h)],
       !.keys = [k \in Keys |->
                   IF k \in accepted \/ (k \in stored /\ @[k] = "unknown")
                   THEN "alive" ELSE @[k]]]
  /\ rosterDead' = rosterDead \ accepted
  /\ UNCHANGED <<log, chain, pc, hotkeys, fetched, disk, weights, history>>

\* The backend took the keys but the answer was lost: submit_keys raises, and
\* the validator records nothing.
RelayAnswerLost(h, accepted) ==
  /\ pc = "ask"
  /\ Registered(h)
  /\ "relay" \in Faults
  /\ rosterDead' = rosterDead \ accepted
  /\ UNCHANGED <<log, chain, pc, hotkeys, mem, fetched, disk, weights, history>>

AskDone ==
  /\ pc = "ask"
  /\ pc' = "poll"
  /\ UNCHANGED <<backend, chain, hotkeys, mem, fetched, disk, weights, history>>

\* The poll interval has not elapsed.
PollNotDue ==
  /\ pc = "poll"
  /\ pc' = "save"
  /\ UNCHANGED <<backend, chain, hotkeys, mem, fetched, disk, weights, history>>

PollRoll(start, len) ==
  /\ pc = "poll"
  /\ mem' = RollEpochIfNeeded(mem, start, len)
  /\ pc' = "fetch"
  /\ UNCHANGED <<backend, chain, hotkeys, fetched, disk, weights, history>>

FetchReports(n) ==
  /\ pc = "fetch"
  /\ mem' = FoldReports(mem, n)
  /\ foldedIn' = [i \in Rows |-> IF i \in mem'.pending \ mem.pending
                                 THEN mem.epochStart ELSE foldedIn[i]]
  /\ fetched' = n
  /\ pc' = "roster"
  /\ UNCHANGED <<backend, chain, hotkeys, disk, weights, paidIn>>

FetchFails ==
  /\ pc = "fetch"
  /\ "reports" \in Faults
  /\ pc' = "save"
  /\ UNCHANGED <<backend, chain, hotkeys, mem, fetched, disk, weights, history>>

\* The rest of llm_key_report_poll_round: the roster (dead = {} when its poll
\* fails), the prune, the scores and the cursor.
FinishPoll(dead, expired) ==
  /\ pc = "roster"
  /\ LET killed == {k \in dead : mem.status[Owner[k]].tracked}
         m == ScoreLastEpoch(PruneHotkeyStatus(KillKeys(mem, killed), expired))
     IN mem' = AdvanceCursor(m, fetched)
  /\ fetched' = 0
  /\ pc' = "save"
  /\ UNCHANGED <<backend, chain, hotkeys, disk, weights, history>>

PollRoster(expired) == FinishPoll(rosterDead, expired)

RosterFails(expired) == "roster" \in Faults /\ FinishPoll({}, expired)

SaveState ==
  /\ pc = "save"
  /\ disk' = mem
  /\ pc' = "sync"
  /\ UNCHANGED <<backend, chain, hotkeys, mem, fetched, weights, history>>

SaveFails ==
  /\ pc = "save"
  /\ "save" \in Faults
  /\ pc' = "sync"
  /\ UNCHANGED <<backend, chain, hotkeys, mem, fetched, disk, weights, history>>

\* sync(): neither the metagraph nor the weights are due, or sync raised.
SyncNotDue ==
  /\ pc \in {"sync", "weights"}
  /\ pc' = "ask"
  /\ UNCHANGED <<backend, chain, hotkeys, mem, fetched, disk, weights, history>>

ResyncMetagraph ==
  /\ pc = "sync"
  /\ hotkeys' = chainHotkeys
  /\ mem' = [mem EXCEPT !.scores = [u \in UIDs |->
                                      IF hotkeys[u] = chainHotkeys[u] THEN @[u] ELSE {}]]
  /\ pc' = "weights"
  /\ UNCHANGED <<backend, chain, fetched, disk, weights, history>>

\* set_weights(): roll, rescore, and hand the masked scores to the base class;
\* self.scores itself keeps the unmasked ones.
SetWeights(start, len) ==
  /\ pc \in {"sync", "weights"}
  /\ mem' = ScoreLastEpoch(RollEpochIfNeeded(mem, start, len))
  /\ weights' = BackedScores(mem', hotkeys)
  /\ pc' = "submit"
  /\ UNCHANGED <<backend, chain, hotkeys, fetched, disk, history>>

\* The blocking extrinsic returns: the chain accepted the weights.
WeightsAccepted ==
  /\ pc = "submit"
  /\ paidIn' = [i \in Rows |-> IF \E u \in UIDs : i \in weights[u]
                               THEN paidIn[i] \cup {mem.epochStart} ELSE paidIn[i]]
  /\ weights' = NoWeights
  /\ pc' = "ask"
  /\ UNCHANGED <<backend, chain, hotkeys, mem, fetched, disk, foldedIn>>

\* The extrinsic, or the burn allocation before it, failed.
WeightsFail ==
  /\ pc = "submit"
  /\ "weights" \in Faults
  /\ weights' = NoWeights
  /\ pc' = "ask"
  /\ UNCHANGED <<backend, chain, hotkeys, mem, fetched, disk, history>>

Crash ==
  /\ pc # "down"
  /\ "crash" \in Faults
  /\ pc' = "down"
  /\ mem' = NewState
  /\ fetched' = 0
  /\ weights' = NoWeights
  /\ UNCHANGED <<backend, chain, hotkeys, disk, history>>

Boot ==
  /\ pc = "down"
  /\ hotkeys' = chainHotkeys
  /\ mem' = LoadState(disk, chainHotkeys)
  /\ pc' = "ask"
  /\ UNCHANGED <<backend, chain, fetched, disk, weights, history>>

-----------------------------------------------------------------------------
Init ==
  /\ log = << >>
  /\ rosterDead = {}
  /\ chainStart = 0
  /\ starts = {0}
  /\ chainHotkeys \in [UIDs -> Hotkeys]
  /\ \A u, v \in UIDs : chainHotkeys[u] = chainHotkeys[v] => u = v
  /\ pc = "down"
  /\ hotkeys = chainHotkeys
  /\ mem = NewState
  /\ fetched = 0
  /\ disk \in {NewState, UpgradedState}
  /\ weights = NoWeights
  /\ foldedIn = [i \in Rows |-> None]
  /\ paidIn = [i \in Rows |-> {}]

Environment ==
  \/ \E k \in Keys, kind \in Kinds : ReportUsage(k, kind)
  \/ \E k \in Keys : KeyDies(k)
  \/ \E g \in Gaps : NewEpoch(g)
  \/ \E u \in UIDs, h \in Hotkeys : Reregister(u, h)

KeysOf(h) == {k \in Keys : Owner[k] = h}

Relay ==
  \E h \in Hotkeys : \E stored \in SUBSET KeysOf(h) : \E accepted \in SUBSET stored :
    RelayKeys(h, stored, accepted) \/ RelayAnswerLost(h, accepted)

Poll ==
  \/ PollNotDue
  \/ \E start \in EpochReads, len \in LengthReads : PollRoll(start, len)
  \/ \E n \in mem.cursor .. Len(log) : FetchReports(n)
  \/ FetchFails
  \/ \E expired \in SUBSET Hotkeys : PollRoster(expired)
  \/ \E expired \in SUBSET Hotkeys : RosterFails(expired)

Sync ==
  \/ SyncNotDue
  \/ ResyncMetagraph
  \/ \E start \in EpochReads, len \in LengthReads : SetWeights(start, len)
  \/ WeightsAccepted
  \/ WeightsFail

Next ==
  \/ Environment
  \/ Relay
  \/ AskDone
  \/ Poll
  \/ SaveState
  \/ SaveFails
  \/ Sync
  \/ Crash
  \/ Boot

Spec == Init /\ [][Next]_vars

\* The loop runs on (run() retries for ever, a supervisor restarts the process),
\* polls become due again and again, a call that is retried for ever succeeds
\* in the end, and crashes stop.
Fairness ==
  /\ WF_vars(Boot)
  /\ WF_vars(AskDone)
  /\ WF_vars(SaveState)
  /\ WF_vars(Sync)
  /\ WF_vars(Poll)
  /\ SF_vars(PollRoll(chainStart, EpochLength))
  /\ SF_vars(FetchReports(Len(log)))
  /\ SF_vars(\E expired \in SUBSET Hotkeys : PollRoster(expired))
  /\ <>[][~Crash]_vars

FairSpec == Spec /\ Fairness

-----------------------------------------------------------------------------
(* Properties *)

\* Every variable stays in its domain; the rows in a window, and the cursor,
\* are rows the backend has logged.
TypeOK ==
  /\ log \in Seq([key : Keys, kind : RowKinds])
  /\ Len(log) <= MaxRows
  /\ rosterDead \subseteq Keys
  /\ starts \subseteq Nat /\ chainStart \in starts
  /\ chainHotkeys \in [UIDs -> Hotkeys]
  /\ pc \in {"down", "ask", "poll", "fetch", "roster", "save", "sync", "weights", "submit"}
  /\ hotkeys \in [UIDs -> Hotkeys]
  /\ mem \in ValidatorState
  /\ fetched \in 0 .. Len(log)
  /\ disk \in ValidatorState
  /\ mem.cursor <= Len(log) /\ disk.cursor <= Len(log)
  /\ weights \in [UIDs -> SUBSET (Rows \cup {Legacy})]
  /\ foldedIn \in [Rows -> Nat \cup {None}]
  /\ paidIn \in [Rows -> SUBSET (Nat \cup {None})]

\* The rows get_reports has delivered into m: up to the cursor, or up to the
\* page being processed.
Delivered == IF pc = "roster" THEN fetched ELSE mem.cursor

CountedOnceIn(m, n) ==
  /\ m.pending \cap m.paid = {}
  /\ m.pending \cup m.paid \subseteq 1 .. n

\* A usage row is counted at most once: it is in at most one of the two windows,
\* and a row the next get_reports(since=cursor) will deliver again is in
\* neither, in memory and in the state file, across failed polls, crashes and
\* restarts (llm_key_report_poll_round, save_masxai_state).
CountedOnce ==
  /\ CountedOnceIn(mem, Delivered)
  /\ CountedOnceIn(disk, disk.cursor)

NoDeadSuccessIn(m) ==
  \A i \in Successes(m.pending \cup m.paid) : m.keys[log[i].key] # "dead"

\* A key that is locally dead has no successful call left in either window, in
\* memory or on disk: only failures that arrived after the kill may sit there
\* (_kill_hotkey_key, and the revival in _fold_report_into_pending).
DeadKeysHoldNoSuccess == NoDeadSuccessIn(mem) /\ NoDeadSuccessIn(disk)

\* s and t start two epochs in a row.
Adjacent(s, t) ==
  /\ s \in starts /\ t \in starts /\ s < t
  /\ \A r \in starts : ~(s < r /\ r < t)

PaysPrecedingIn(m) ==
  /\ \A i \in m.pending : foldedIn[i] = m.epochStart
  /\ \A i \in m.paid : Adjacent(foldedIn[i], m.epochStart)

\* The window being paid holds only rows folded while the recorded epoch was
\* the one immediately before the epoch now recorded, and the collecting window
\* only rows of the recorded epoch (_roll_epoch_if_needed: "only paid if it
\* really is the immediately preceding epoch").
PaysPrecedingEpoch == PaysPrecedingIn(mem) /\ PaysPrecedingIn(disk)

\* No usage row is paid for in two epochs, whatever crashes come between
\* folding, saving and setting weights.
PaidInOneEpoch ==
  \A i \in Rows : \A d, e \in paidIn[i] : d = e

\* Submitted weights pay a uid only for the paid window's rows of the hotkey
\* that holds it, among them a successful one, on keys not locally dead, and
\* only where that hotkey was last seen at this very uid
\* (set_weights, _blended_weight_array, _has_llm_key_evidence).
WeightsAreEarned ==
  \A u \in UIDs : weights[u] # {} =>
    /\ weights[u] \subseteq mem.paid
    /\ \A i \in weights[u] : /\ HotkeyOf(i) = hotkeys[u]
                              /\ mem.keys[log[i].key] # "dead"
    /\ Successes(weights[u]) # {}
    /\ mem.status[hotkeys[u]].uid = u

\* When the running validator moves from one epoch to the very next, no row it
\* collected is lost: it is paid now or still collecting, unless its key was
\* killed (the "Edge cases" table of docs/per-epoch-emission.md).
EpochChangeKeepsWork ==
  [][pc # "down" /\ pc' # "down" /\ Adjacent(mem.epochStart, mem'.epochStart) =>
       \A i \in mem.pending : i \in mem'.pending \cup mem'.paid
                              \/ mem'.keys[log[i].key] = "dead"]_vars

\* Every usage row is eventually behind the cursor, through failed polls and
\* restarts that fall back to an older state file.
RowsAreConsumed ==
  \A i \in Rows : Len(log) >= i ~> mem.cursor >= i

\* The recorded epoch eventually follows the chain's.
EpochIsFollowed ==
  chainStart # mem.epochStart ~> chainStart = mem.epochStart

\* A key the roster lists as dead eventually stops earning, unless the backend
\* accepts a replacement for it (_poll_llm_key_roster is best effort).
DeadKeysStopEarning ==
  \A k \in Keys :
    k \in rosterDead ~> \/ k \notin rosterDead
                        \/ \A u \in UIDs, i \in Rows : i \in mem.scores[u] =>
                                                        log[i].key # k

=============================================================================
