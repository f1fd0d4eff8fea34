----------------------- MODULE LLMKeyValidatorProofs -----------------------
(***************************************************************************)
(* Machine-checked proofs about LLMKeyValidator, for every set of uids,    *)
(* hotkeys, keys, gaps, floors and faults.  Each operator on the           *)
(* validator's state has a lemma saying what it returns; a theorem then    *)
(* has one step per action.                                                *)
(***************************************************************************)
EXTENDS LLMKeyValidator, FiniteSetTheorems, TLAPS

-----------------------------------------------------------------------------
(* The operators on the validator's state *)

LEMMA SeqElement ==
  ASSUME NEW S, NEW s \in Seq(S), NEW i \in 1 .. Len(s)
  PROVE  s[i] \in S
  OBVIOUS

\* Every logged row is about a contributed key.
LEMMA RowKeys ==
  ASSUME TypeOK
  PROVE  \A i \in 1 .. Len(log) : log[i].key \in Keys
  <1>1. log \in Seq([key : Keys, kind : RowKinds])
    BY DEF TypeOK
  <1>2. \A i \in 1 .. Len(log) : log[i] \in [key : Keys, kind : RowKinds]
    BY <1>1, SeqElement
  <1>3. QED
    BY <1>2

\* n is m with the rows of the keys K gone from both windows and K dead; the
\* statuses and the scores are left open.
Killed(m, n, K) ==
  /\ n.pending = {i \in m.pending : log[i].key \notin K}
  /\ n.paid = {i \in m.paid : log[i].key \notin K}
  /\ n.keys = [k \in Keys |-> IF k \in K THEN "dead" ELSE m.keys[k]]
  /\ n.cursor = m.cursor
  /\ n.epochStart = m.epochStart

\* The fields of a well-formed state.
LEMMA Fields ==
  ASSUME NEW m \in ValidatorState
  PROVE  /\ m.pending \in SUBSET Rows
         /\ m.paid \in SUBSET Rows
         /\ m.epochStart \in Nat \cup {None}
         /\ m.cursor \in 0 .. MaxRows
         /\ m.status \in [Hotkeys -> HotkeyStatus]
         /\ m.keys \in [Keys -> KeyState]
         /\ m.scores \in [UIDs -> SUBSET (Rows \cup {Legacy})]
  BY DEF ValidatorState

\* _kill_hotkey_key, for a set of keys.
LEMMA KillKeysKills ==
  ASSUME NEW m \in ValidatorState, NEW K
  PROVE  KillKeys(m, K) \in ValidatorState /\ Killed(m, KillKeys(m, K), K)
  <1> DEFINE st == [h \in Hotkeys |-> IF \E k \in K : Owner[k] = h
                                      THEN [m.status[h] EXCEPT !.tracked = TRUE]
                                      ELSE m.status[h]]
             ks == [k \in Keys |-> IF k \in K THEN "dead" ELSE m.keys[k]]
             a == {i \in m.pending : log[i].key \notin K}
             b == {i \in m.paid : log[i].key \notin K}
             n == KillKeys(m, K)
  <1>0. m.status \in [Hotkeys -> HotkeyStatus]
    BY Fields
  <1>1. st \in [Hotkeys -> HotkeyStatus]
    BY <1>0 DEF HotkeyStatus
  <1>2. ks \in [Keys -> KeyState]
    BY Fields DEF KeyState
  <1>3. a \in SUBSET Rows /\ b \in SUBSET Rows
    BY Fields
  <1>4. n = [m EXCEPT !.keys = ks, !.status = st, !.pending = a, !.paid = b]
    BY DEF KillKeys
  <1> HIDE DEF st, ks, a, b, n
  <1>5. /\ n \in ValidatorState /\ n.pending = a /\ n.paid = b /\ n.keys = ks
        /\ n.cursor = m.cursor /\ n.epochStart = m.epochStart
    BY <1>1, <1>2, <1>3, <1>4 DEF ValidatorState
  <1>6. QED
    BY <1>5 DEF Killed, n, a, b, ks

\* _score_last_epoch changes the windows and the key states only by killing.
LEMMA ScoreKills ==
  ASSUME NEW m \in ValidatorState
  PROVE  /\ ScoreLastEpoch(m) \in ValidatorState
         /\ \E K \in SUBSET Keys : Killed(m, ScoreLastEpoch(m), K)
  <1> DEFINE junk == {k \in Keys : LET R == {i \in m.paid : log[i].key = k}
                                   IN R # {} /\ SubWindowFloor(R)}
             n == KillKeys(m, junk)
             st == [h \in Hotkeys |-> IF \E i \in n.paid : HotkeyOf(i) = h
                                      THEN [n.status[h] EXCEPT !.tracked = TRUE]
                                      ELSE n.status[h]]
             sc == [u \in UIDs |-> LET R == Pool(n, hotkeys[u])
                                   IN IF PooledWindowEarns(R) THEN R ELSE {}]
             r == ScoreLastEpoch(m)
  <1>1. n \in ValidatorState /\ Killed(m, n, junk) /\ junk \in SUBSET Keys
    BY KillKeysKills
  <1>2. r = [n EXCEPT !.status = st, !.scores = sc]
    BY DEF ScoreLastEpoch
  <1> HIDE DEF junk, n, r
  <1>3. st \in [Hotkeys -> HotkeyStatus]
    <2>1. n.status \in [Hotkeys -> HotkeyStatus]
      BY <1>1, Fields
    <2>2. QED
      BY <2>1 DEF HotkeyStatus
  <1>4. sc \in [UIDs -> SUBSET (Rows \cup {Legacy})]
    <2>1. \A h : Pool(n, h) \subseteq Rows
      BY <1>1, Fields DEF Pool
    <2>2. QED
      BY <2>1
  <1> HIDE DEF st, sc
  <1>5. /\ r \in ValidatorState /\ r.pending = n.pending /\ r.paid = n.paid
        /\ r.keys = n.keys /\ r.cursor = n.cursor /\ r.epochStart = n.epochStart
    BY <1>1, <1>2, <1>3, <1>4 DEF ValidatorState
  <1>6. Killed(m, r, junk)
    BY <1>1, <1>5 DEF Killed
  <1>7. QED
    BY <1>1, <1>5, <1>6 DEF r

\* r is m with at most the recorded epoch advanced over a sliver.
Keeps(m, r, start, len) ==
  /\ r.pending = m.pending /\ r.paid = m.paid /\ r.keys = m.keys /\ r.cursor = m.cursor
  /\ \/ r.epochStart = m.epochStart
     \/ start # None /\ r.epochStart = start /\ Sliver(m.epochStart, start, len)

\* r is m with the collecting window closed at `start': paid if contiguous, the
\* keys K found junk while scoring it.
Closes(m, r, start, len, K) ==
  /\ start # None /\ r.epochStart = start /\ r.cursor = m.cursor
  /\ r.pending = {}
  /\ r.paid = IF Contiguous(m.epochStart, start, len)
              THEN {i \in m.pending : log[i].key \notin K} ELSE {}
  /\ r.keys = [k \in Keys |-> IF k \in K THEN "dead" ELSE m.keys[k]]

\* _roll_epoch_if_needed either keeps the windows or closes the epoch.
LEMMA RollCases ==
  ASSUME NEW m \in ValidatorState, NEW start \in Nat \cup {None}, NEW len
  PROVE  /\ RollEpochIfNeeded(m, start, len) \in ValidatorState
         /\ \/ Keeps(m, RollEpochIfNeeded(m, start, len), start, len)
            \/ \E K \in SUBSET Keys :
                  Closes(m, RollEpochIfNeeded(m, start, len), start, len, K)
  <1> DEFINE r == RollEpochIfNeeded(m, start, len)
  <1>1. CASE start = None \/ start = m.epochStart
    BY <1>1 DEF RollEpochIfNeeded, Keeps
  <1>2. CASE ~(start = None \/ start = m.epochStart) /\ Sliver(m.epochStart, start, len)
    <2>1. r = [m EXCEPT !.epochStart = start]
      BY <1>2 DEF RollEpochIfNeeded
    <2> HIDE DEF r
    <2>2. /\ r \in ValidatorState /\ r.pending = m.pending /\ r.paid = m.paid
          /\ r.keys = m.keys /\ r.cursor = m.cursor /\ r.epochStart = start
      BY <2>1 DEF ValidatorState
    <2>3. QED
      BY <1>2, <2>2 DEF Keeps, r
  <1>3. CASE ~(start = None \/ start = m.epochStart) /\ ~Sliver(m.epochStart, start, len)
    <2> DEFINE closed == IF Contiguous(m.epochStart, start, len) THEN m.pending ELSE {}
               c == [m EXCEPT !.paid = closed, !.pending = {}, !.epochStart = start]
    <2>1. closed \in SUBSET Rows
      BY Fields
    <2>2. r = ScoreLastEpoch(c)
      BY <1>3 DEF RollEpochIfNeeded
    <2> HIDE DEF closed, r
    <2>3. /\ c \in ValidatorState /\ c.pending = {} /\ c.paid = closed
          /\ c.keys = m.keys /\ c.cursor = m.cursor /\ c.epochStart = start
      BY <2>1 DEF ValidatorState
    <2> HIDE DEF c
    <2>4. r \in ValidatorState /\ \E K \in SUBSET Keys : Killed(c, r, K)
      BY <2>2, <2>3, ScoreKills
    <2>5. PICK K \in SUBSET Keys : Killed(c, r, K)
      BY <2>4
    <2>6. r.pending = {} /\ r.epochStart = start /\ r.cursor = m.cursor
      BY <2>3, <2>5 DEF Killed
    <2>7. r.keys = [k \in Keys |-> IF k \in K THEN "dead" ELSE m.keys[k]]
      BY <2>3, <2>5 DEF Killed
    <2>8. r.paid = IF Contiguous(m.epochStart, start, len)
                   THEN {i \in m.pending : log[i].key \notin K} ELSE {}
      BY <2>3, <2>5 DEF Killed, closed
    <2>9. QED
      BY <1>3, <2>4, <2>6, <2>7, <2>8 DEF Closes, r
  <1>4. QED
    BY <1>1, <1>2, <1>3

\* Killing keys, scoring and rolling never add a row, and keep the cursor.
Shrinks(m, n) ==
  /\ n.cursor = m.cursor
  /\ n.pending \subseteq m.pending
  /\ \/ n.paid \subseteq m.paid
     \/ n.pending = {} /\ n.paid \subseteq m.pending

\* Rolling the epoch shrinks the windows.
LEMMA RollShrinks ==
  ASSUME NEW m \in ValidatorState, NEW start \in Nat \cup {None}, NEW len
  PROVE  /\ RollEpochIfNeeded(m, start, len) \in ValidatorState
         /\ Shrinks(m, RollEpochIfNeeded(m, start, len))
         /\ RollEpochIfNeeded(m, start, len).cursor = m.cursor
  <1> DEFINE r == RollEpochIfNeeded(m, start, len)
  <1>0. /\ r \in ValidatorState
        /\ Keeps(m, r, start, len) \/ \E K \in SUBSET Keys : Closes(m, r, start, len, K)
    BY RollCases
  <1> HIDE DEF r
  <1>1. ASSUME Keeps(m, r, start, len) PROVE Shrinks(m, r)
    BY <1>1 DEF Shrinks, Keeps
  <1>2. ASSUME NEW K, Closes(m, r, start, len, K) PROVE Shrinks(m, r)
    <2>1. r.cursor = m.cursor /\ r.pending = {}
      BY <1>2 DEF Closes
    <2>2. r.paid \subseteq m.pending
      <3>1. CASE Contiguous(m.epochStart, start, len)
        BY <1>2, <3>1 DEF Closes
      <3>2. CASE ~Contiguous(m.epochStart, start, len)
        BY <1>2, <3>2 DEF Closes
      <3>3. QED
        BY <3>1, <3>2
    <2>3. QED
      BY <2>1, <2>2 DEF Shrinks
  <1>3. Shrinks(m, r)
    BY <1>0, <1>1, <1>2
  <1>4. QED
    BY <1>0, <1>3 DEF r, Shrinks

\* The report loop of llm_key_report_poll_round: new rows join the collecting
\* window, the keys killed in the page lose their older rows, and the keys of
\* the successful new rows are alive.
LEMMA FoldFields ==
  ASSUME NEW m \in ValidatorState, NEW n \in m.cursor .. MaxRows
  PROVE  /\ FoldReports(m, n) \in ValidatorState
         /\ FoldReports(m, n).cursor = m.cursor
         /\ FoldReports(m, n).epochStart = m.epochStart
         /\ FoldReports(m, n).pending
              = {i \in m.pending : log[i].key \notin KilledInPage(m, n)} \cup Folded(m, n)
         /\ FoldReports(m, n).paid = {i \in m.paid : log[i].key \notin KilledInPage(m, n)}
         /\ FoldReports(m, n).keys
              = [k \in Keys |-> IF k \in RevivedInPage(m, n) THEN "alive"
                                ELSE IF k \in KilledInPage(m, n) THEN "dead" ELSE m.keys[k]]
  <1> DEFINE r == FoldReports(m, n)
  <1> DEFINE K == KilledInPage(m, n)
             d == KillKeys(m, K)
             p == d.pending \cup Folded(m, n)
             ks == [k \in Keys |-> IF k \in RevivedInPage(m, n) THEN "alive" ELSE d.keys[k]]
             reported == {HotkeyOf(i) : i \in Page(m, n)}
             st == [h \in Hotkeys |->
                      IF h \in reported
                      THEN [d.status[h] EXCEPT !.tracked = TRUE, !.uid = UidOf(h),
                                               !.reported = TRUE]
                      ELSE d.status[h]]
  <1>1. d \in ValidatorState /\ Killed(m, d, K)
    BY KillKeysKills
  <1>2. r = [d EXCEPT !.pending = p, !.keys = ks, !.status = st]
    BY DEF FoldReports
  <1>3. Folded(m, n) \subseteq Rows
    BY Fields, BoundAssumption DEF Folded, Page, Rows
  <1> HIDE DEF d, K, r
  <1>4. p \in SUBSET Rows
    BY <1>1, <1>3, Fields
  <1>5. ks \in [Keys -> KeyState]
    BY <1>1, Fields DEF KeyState
  <1>6. st \in [Hotkeys -> HotkeyStatus]
    <2>1. d.status \in [Hotkeys -> HotkeyStatus]
      BY <1>1, Fields
    <2>2. \A h \in reported : UidOf(h) \in UIDs
      BY DEF Page, Registered, UidOf
    <2> HIDE DEF reported
    <2>3. QED
      BY <2>1, <2>2 DEF HotkeyStatus
  <1> HIDE DEF p, ks, st
  <1>7. /\ r \in ValidatorState /\ r.pending = p /\ r.keys = ks /\ r.paid = d.paid
        /\ r.cursor = d.cursor /\ r.epochStart = d.epochStart
    BY <1>1, <1>2, <1>4, <1>5, <1>6 DEF ValidatorState
  <1>8. ks = [k \in Keys |-> IF k \in RevivedInPage(m, n) THEN "alive"
                             ELSE IF k \in K THEN "dead" ELSE m.keys[k]]
    BY <1>1 DEF ks, Killed
  <1>9. QED
    BY <1>1, <1>7, <1>8 DEF p, K, Killed, r

\* _prune_llm_key_hotkey_status forgets a hotkey's keys together with its rows
\* in the collecting window; a dead key never comes back dead without a kill.
LEMMA PruneFields ==
  ASSUME NEW m \in ValidatorState, NEW expired, NEW r,
         r = PruneHotkeyStatus(m, expired)
  PROVE  /\ r \in ValidatorState
         /\ r.cursor = m.cursor /\ r.epochStart = m.epochStart
         /\ r.pending \subseteq m.pending /\ r.paid = m.paid
         /\ \A k \in Keys : r.keys[k] = m.keys[k] \/ r.keys[k] = "unknown"
  <1> DEFINE absent(h) == m.status[h].tracked /\ ~Registered(h)
             evicted(h) == absent(h) /\ m.status[h].missing /\ h \in expired
             st == [h \in Hotkeys |-> IF evicted(h) THEN Untracked
                                      ELSE [m.status[h] EXCEPT !.missing = absent(h)]]
             ks == [k \in Keys |-> IF evicted(Owner[k]) THEN "unknown" ELSE m.keys[k]]
             p == {i \in m.pending : ~evicted(HotkeyOf(i))}
  <1>1. r = [m EXCEPT !.status = st, !.keys = ks, !.pending = p]
    BY DEF PruneHotkeyStatus
  <1>2. st \in [Hotkeys -> HotkeyStatus]
    <2>1. m.status \in [Hotkeys -> HotkeyStatus]
      BY Fields
    <2>2. \A h \in Hotkeys : absent(h) \in BOOLEAN
      BY <2>1 DEF HotkeyStatus
    <2>3. Untracked \in HotkeyStatus
      BY DEF Untracked, HotkeyStatus
    <2> HIDE DEF absent
    <2>4. QED
      BY <2>1, <2>2, <2>3 DEF HotkeyStatus
  <1>3. ks \in [Keys -> KeyState]
    BY Fields DEF KeyState
  <1>4. p \in SUBSET Rows /\ p \subseteq m.pending
    BY Fields
  <1>5. \A k \in Keys : ks[k] = m.keys[k] \/ ks[k] = "unknown"
    OBVIOUS
  <1> HIDE DEF st, ks, p
  <1>6. /\ r \in ValidatorState /\ r.pending = p /\ r.keys = ks /\ r.paid = m.paid
        /\ r.cursor = m.cursor /\ r.epochStart = m.epochStart
    BY <1>1, <1>2, <1>3, <1>4 DEF ValidatorState
  <1>7. QED
    BY <1>4, <1>5, <1>6

\* Replacing the scores leaves everything else alone.
LEMMA NewScores ==
  ASSUME NEW m \in ValidatorState, NEW sc \in [UIDs -> SUBSET (Rows \cup {Legacy})],
         NEW r, r = [m EXCEPT !.scores = sc]
  PROVE  /\ r \in ValidatorState
         /\ r.pending = m.pending /\ r.paid = m.paid /\ r.keys = m.keys
         /\ r.cursor = m.cursor /\ r.epochStart = m.epochStart
  BY DEF ValidatorState

LEMMA BackedScoresType ==
  ASSUME NEW m \in ValidatorState, NEW hk
  PROVE  BackedScores(m, hk) \in [UIDs -> SUBSET (Rows \cup {Legacy})]
  BY Fields DEF BackedScores

LEMMA InitialStates ==
  NewState \in ValidatorState /\ UpgradedState \in ValidatorState
  <1>1. Untracked \in HotkeyStatus
    BY DEF Untracked, HotkeyStatus
  <1>2. 0 \in 0 .. MaxRows
    BY BoundAssumption
  <1>3. NewState \in ValidatorState
    BY <1>1, <1>2 DEF NewState, ValidatorState, KeyState
  <1>4. [u \in UIDs |-> {Legacy}] \in [UIDs -> SUBSET (Rows \cup {Legacy})]
    OBVIOUS
  <1>5. QED
    BY <1>3, <1>4, NewScores DEF UpgradedState

\* llm_key_submission_round for one miner.
LEMMA RelayFields ==
  ASSUME NEW h \in Hotkeys, NEW stored, NEW accepted, mem \in ValidatorState,
         RelayKeys(h, stored, accepted)
  PROVE  /\ mem' \in ValidatorState
         /\ mem'.pending = mem.pending /\ mem'.paid = mem.paid
         /\ mem'.cursor = mem.cursor /\ mem'.epochStart = mem.epochStart
         /\ \A k \in Keys : mem'.keys[k] = mem.keys[k] \/ mem'.keys[k] = "alive"
  <1> DEFINE s == [mem.status[h] EXCEPT !.tracked = TRUE, !.uid = UidOf(h)]
             st == [mem.status EXCEPT ![h] = s]
             ks == [k \in Keys |->
                      IF k \in accepted \/ (k \in stored /\ mem.keys[k] = "unknown")
                      THEN "alive" ELSE mem.keys[k]]
  <1>1. mem' = [mem EXCEPT !.status = st, !.keys = ks]
    BY DEF RelayKeys
  <1>2. mem.status \in [Hotkeys -> HotkeyStatus] /\ mem.keys \in [Keys -> KeyState]
    BY Fields
  <1>3. UidOf(h) \in UIDs
    BY DEF RelayKeys, Registered, UidOf
  <1>4. s \in HotkeyStatus
    BY <1>2, <1>3 DEF HotkeyStatus
  <1>5. st \in [Hotkeys -> HotkeyStatus]
    BY <1>2, <1>4
  <1>6. /\ ks \in [Keys -> KeyState]
        /\ \A k \in Keys : ks[k] = mem.keys[k] \/ ks[k] = "alive"
    BY <1>2 DEF KeyState
  <1> HIDE DEF st, ks
  <1>7. /\ mem' \in ValidatorState
        /\ mem'.pending = mem.pending /\ mem'.paid = mem.paid /\ mem'.keys = ks
        /\ mem'.cursor = mem.cursor /\ mem'.epochStart = mem.epochStart
    BY <1>1, <1>5, <1>6 DEF ValidatorState
  <1>8. QED
    BY <1>6, <1>7

-----------------------------------------------------------------------------
(* Type correctness *)

\* Every reachable state is well formed: windows, cursors, statuses and scores
\* stay in their domains through folds, kills, prunes, rolls and restarts.
THEOREM TypeCorrect == Spec => []TypeOK
  <1>1. Init => TypeOK
    <2> SUFFICES ASSUME Init PROVE TypeOK
      OBVIOUS
    <2>1. mem \in ValidatorState /\ disk \in ValidatorState
      BY InitialStates DEF Init
    <2>2. mem.cursor = 0 /\ disk.cursor = 0
      BY DEF Init, NewState, UpgradedState
    <2>3. QED
      BY <2>1, <2>2, BoundAssumption DEF Init, TypeOK, NoWeights
  <1>2. TypeOK /\ [Next]_vars => TypeOK'
    <2> SUFFICES ASSUME TypeOK, [Next]_vars PROVE TypeOK'
      OBVIOUS
    <2> USE DEF TypeOK
    <2>1. ASSUME NEW k \in Keys, NEW kind \in Kinds, ReportUsage(k, kind) PROVE TypeOK'
      <3>1. [key |-> k, kind |-> kind] \in [key : Keys, kind : RowKinds]
        BY EnvAssumption
      <3>2. /\ log' \in Seq([key : Keys, kind : RowKinds])
            /\ Len(log') = Len(log) + 1
        BY <2>1, <3>1 DEF ReportUsage
      <3>3. Len(log) \in Nat /\ Len(log') <= MaxRows
        BY <2>1, <3>2, BoundAssumption DEF ReportUsage
      <3>4. fetched \in 0 .. Len(log') /\ mem.cursor <= Len(log') /\ disk.cursor <= Len(log')
        BY <3>2, <3>3, Fields, BoundAssumption
      <3>5. QED
        BY <2>1, <3>2, <3>3, <3>4 DEF ReportUsage, chain, history
    <2>2. ASSUME NEW k \in Keys, KeyDies(k) PROVE TypeOK'
      BY <2>2 DEF KeyDies, chain, history
    <2>3. ASSUME NEW g \in Gaps, NewEpoch(g) PROVE TypeOK'
      BY <2>3, EpochAssumption DEF NewEpoch, backend, history
    <2>4. ASSUME NEW u \in UIDs, NEW h \in Hotkeys, Reregister(u, h) PROVE TypeOK'
      BY <2>4 DEF Reregister, backend, history
    <2>5. ASSUME NEW h \in Hotkeys, NEW stored \in SUBSET KeysOf(h),
                 NEW accepted \in SUBSET stored, RelayKeys(h, stored, accepted)
          PROVE  TypeOK'
      <3>1. mem' \in ValidatorState /\ mem'.cursor = mem.cursor
        BY <2>5, RelayFields
      <3>2. QED
        BY <2>5, <3>1 DEF RelayKeys, chain, history
    <2>5a. ASSUME NEW h, NEW accepted, RelayAnswerLost(h, accepted) PROVE TypeOK'
      BY <2>5a DEF RelayAnswerLost, chain, history
    <2>6. CASE AskDone \/ PollNotDue \/ FetchFails \/ SaveFails \/ SyncNotDue
      BY <2>6 DEF AskDone, PollNotDue, FetchFails, SaveFails, SyncNotDue,
                  backend, chain, history
    <2>7. ASSUME NEW start \in EpochReads, NEW len \in LengthReads, PollRoll(start, len)
          PROVE  TypeOK'
      <3>1. start \in Nat \cup {None}
        BY DEF EpochReads
      <3>2. mem' \in ValidatorState /\ mem'.cursor = mem.cursor
        BY <2>7, <3>1, RollShrinks DEF PollRoll
      <3>3. QED
        BY <2>7, <3>2 DEF PollRoll, backend, chain, history
    <2>8. ASSUME NEW n \in mem.cursor .. Len(log), FetchReports(n) PROVE TypeOK'
      <3>1. n \in mem.cursor .. MaxRows /\ n \in 0 .. Len(log)
        BY Fields, BoundAssumption
      <3>2. mem' \in ValidatorState /\ mem'.cursor = mem.cursor
        BY <2>8, <3>1, FoldFields DEF FetchReports
      <3>3. foldedIn' \in [Rows -> Nat \cup {None}]
        BY <2>8, Fields DEF FetchReports
      <3>4. QED
        BY <2>8, <3>1, <3>2, <3>3 DEF FetchReports, backend, chain
    <2>9. ASSUME NEW dead, NEW expired, FinishPoll(dead, expired) PROVE TypeOK'
      <3> DEFINE killed == {k \in dead : mem.status[Owner[k]].tracked}
                 a == KillKeys(mem, killed)
                 b == PruneHotkeyStatus(a, expired)
                 m == ScoreLastEpoch(b)
      <3>1. a \in ValidatorState
        BY KillKeysKills
      <3> HIDE DEF a
      <3>2. b \in ValidatorState
        BY <3>1, PruneFields
      <3> HIDE DEF b
      <3>3. m \in ValidatorState
        BY <3>2, ScoreKills
      <3>4. mem' = [m EXCEPT !.cursor = fetched]
        BY <2>9 DEF FinishPoll, AdvanceCursor, a, b
      <3> HIDE DEF m
      <3>5. fetched \in 0 .. MaxRows
        BY BoundAssumption
      <3>6. mem' \in ValidatorState /\ mem'.cursor = fetched
        BY <3>3, <3>4, <3>5 DEF ValidatorState
      <3>7. QED
        BY <2>9, <3>6 DEF FinishPoll, backend, chain, history
    <2>10. CASE SaveState
      BY <2>10 DEF SaveState, backend, chain, history
    <2>11. CASE ResyncMetagraph
      <3> DEFINE sc == [u \in UIDs |-> IF hotkeys[u] = chainHotkeys[u]
                                       THEN mem.scores[u] ELSE {}]
      <3>1. mem' = [mem EXCEPT !.scores = sc]
        BY <2>11 DEF ResyncMetagraph
      <3>2. sc \in [UIDs -> SUBSET (Rows \cup {Legacy})]
        BY Fields
      <3>3. mem' \in ValidatorState /\ mem'.cursor = mem.cursor
        BY <3>1, <3>2, NewScores
      <3>4. QED
        BY <2>11, <3>3 DEF ResyncMetagraph, backend, chain, history
    <2>12. ASSUME NEW start \in EpochReads, NEW len \in LengthReads, SetWeights(start, len)
           PROVE  TypeOK'
      <3> DEFINE r == RollEpochIfNeeded(mem, start, len)
      <3>1. start \in Nat \cup {None}
        BY DEF EpochReads
      <3>2. r \in ValidatorState /\ r.cursor = mem.cursor
        BY <3>1, RollShrinks
      <3>3. mem' = ScoreLastEpoch(r)
        BY <2>12 DEF SetWeights
      <3> HIDE DEF r
      <3>4. mem' \in ValidatorState /\ mem'.cursor = mem.cursor
        BY <3>2, <3>3, ScoreKills DEF Killed
      <3>5. weights' \in [UIDs -> SUBSET (Rows \cup {Legacy})]
        BY <2>12, <3>4, BackedScoresType DEF SetWeights
      <3>6. QED
        BY <2>12, <3>4, <3>5 DEF SetWeights, backend, chain, history
    <2>13. CASE WeightsAccepted
      <3>1. paidIn' \in [Rows -> SUBSET (Nat \cup {None})]
        BY <2>13, Fields DEF WeightsAccepted
      <3>2. QED
        BY <2>13, <3>1 DEF WeightsAccepted, NoWeights, backend, chain
    <2>14. CASE WeightsFail
      BY <2>14 DEF WeightsFail, NoWeights, backend, chain, history
    <2>15. CASE Crash
      <3>1. mem' \in ValidatorState /\ mem'.cursor = 0
        BY <2>15, InitialStates DEF Crash, NewState
      <3>2. QED
        BY <2>15, <3>1 DEF Crash, NoWeights, backend, chain, history
    <2>16. CASE Boot
      <3>1. mem' \in ValidatorState /\ mem'.cursor = disk.cursor
        BY <2>16, NewScores, BackedScoresType DEF Boot, LoadState
      <3>2. QED
        BY <2>16, <3>1 DEF Boot, backend, chain, history
    <2>17. CASE UNCHANGED vars
      BY <2>17 DEF vars
    <2>18. QED
      BY <2>1, <2>2, <2>3, <2>4, <2>5, <2>5a, <2>6, <2>7, <2>8, <2>9, <2>10, <2>11,
         <2>12, <2>13, <2>14, <2>15, <2>16, <2>17
         DEF Next, Environment, Relay, Poll, Sync, PollRoster, RosterFails
  <1>3. QED
    BY <1>1, <1>2, PTL DEF Spec

-----------------------------------------------------------------------------
(* What a step does to the validator's memory *)

LEMMA ShrinksCountedOnce ==
  ASSUME NEW m, NEW n, NEW d, CountedOnceIn(m, d), Shrinks(m, n)
  PROVE  CountedOnceIn(n, d)
  BY DEF CountedOnceIn, Shrinks

LEMMA KilledNoDeadSuccess ==
  ASSUME NEW m \in ValidatorState, NEW n, NEW K, Killed(m, n, K),
         \A i \in m.pending \cup m.paid : log[i].key \in Keys, NoDeadSuccessIn(m)
  PROVE  NoDeadSuccessIn(n)
  BY DEF Killed, NoDeadSuccessIn, Successes

\* Rolling the epoch leaves no successful row on a dead key.
LEMMA RollNoDeadSuccess ==
  ASSUME NEW m \in ValidatorState, NEW start \in Nat \cup {None}, NEW len,
         \A i \in m.pending \cup m.paid : log[i].key \in Keys,
         NoDeadSuccessIn(m)
  PROVE  NoDeadSuccessIn(RollEpochIfNeeded(m, start, len))
  <1> DEFINE r == RollEpochIfNeeded(m, start, len)
  <1>0. Keeps(m, r, start, len) \/ \E K \in SUBSET Keys : Closes(m, r, start, len, K)
    BY RollCases
  <1> HIDE DEF r
  <1>1. ASSUME Keeps(m, r, start, len) PROVE NoDeadSuccessIn(r)
    BY <1>1 DEF NoDeadSuccessIn, Keeps
  <1>2. ASSUME NEW K \in SUBSET Keys, Closes(m, r, start, len, K)
        PROVE  NoDeadSuccessIn(r)
    <2>1. r.pending \cup r.paid \subseteq {i \in m.pending : log[i].key \notin K}
      BY <1>2 DEF Closes
    <2>2. QED
      BY <1>2, <2>1 DEF NoDeadSuccessIn, Successes, Closes
  <1>3. QED
    BY <1>0, <1>1, <1>2 DEF r

LEMMA ScoreShrinks ==
  ASSUME NEW m \in ValidatorState
  PROVE  /\ ScoreLastEpoch(m) \in ValidatorState
         /\ ScoreLastEpoch(m).cursor = m.cursor
         /\ ScoreLastEpoch(m).pending \subseteq m.pending
         /\ ScoreLastEpoch(m).paid \subseteq m.paid
         /\ ScoreLastEpoch(m).epochStart = m.epochStart
  BY ScoreKills DEF Killed

LEMMA ScoreNoDeadSuccess ==
  ASSUME NEW m \in ValidatorState,
         \A i \in m.pending \cup m.paid : log[i].key \in Keys,
         NoDeadSuccessIn(m)
  PROVE  NoDeadSuccessIn(ScoreLastEpoch(m))
  <1>1. PICK K : Killed(m, ScoreLastEpoch(m), K)
    BY ScoreKills
  <1>2. QED
    BY <1>1, KilledNoDeadSuccess

\* FinishPoll: only kills, evictions and scoring touch the windows.
LEMMA FinishShrinks ==
  ASSUME NEW dead, NEW expired, mem \in ValidatorState, fetched \in 0 .. MaxRows,
         \A i \in mem.pending \cup mem.paid : log[i].key \in Keys,
         FinishPoll(dead, expired)
  PROVE  /\ mem' \in ValidatorState
         /\ mem'.cursor = fetched /\ mem'.epochStart = mem.epochStart
         /\ mem'.pending \subseteq mem.pending /\ mem'.paid \subseteq mem.paid
         /\ NoDeadSuccessIn(mem) => NoDeadSuccessIn(mem')
  <1> DEFINE killed == {k \in dead : mem.status[Owner[k]].tracked}
             a == KillKeys(mem, killed)
             b == PruneHotkeyStatus(a, expired)
             m == ScoreLastEpoch(b)
  <1>1. a \in ValidatorState /\ Killed(mem, a, killed)
    BY KillKeysKills
  <1>2. b = PruneHotkeyStatus(a, expired) /\ mem' = [m EXCEPT !.cursor = fetched]
    BY DEF FinishPoll, AdvanceCursor
  <1> HIDE DEF a, b
  <1>3. NoDeadSuccessIn(mem) => NoDeadSuccessIn(a)
    BY <1>1, KilledNoDeadSuccess
  <1>4. /\ b \in ValidatorState /\ b.epochStart = a.epochStart
        /\ b.pending \subseteq a.pending /\ b.paid = a.paid
        /\ \A k \in Keys : b.keys[k] = a.keys[k] \/ b.keys[k] = "unknown"
    BY <1>1, <1>2, PruneFields
  <1>5. \A i \in b.pending \cup b.paid : log[i].key \in Keys
    BY <1>1, <1>4 DEF Killed
  <1>6. NoDeadSuccessIn(a) => NoDeadSuccessIn(b)
    BY <1>4, <1>5 DEF NoDeadSuccessIn, Successes
  <1>7. /\ m \in ValidatorState /\ m.epochStart = b.epochStart
        /\ m.pending \subseteq b.pending /\ m.paid \subseteq b.paid
        /\ NoDeadSuccessIn(b) => NoDeadSuccessIn(m)
    BY <1>4, <1>5, ScoreShrinks, ScoreNoDeadSuccess
  <1> HIDE DEF m
  <1>8. /\ mem' \in ValidatorState /\ mem'.cursor = fetched /\ mem'.epochStart = m.epochStart
        /\ mem'.pending = m.pending /\ mem'.paid = m.paid /\ mem'.keys = m.keys
    BY <1>2, <1>7 DEF ValidatorState
  <1>9. mem'.pending \subseteq mem.pending /\ mem'.paid \subseteq mem.paid
    BY <1>1, <1>4, <1>7, <1>8 DEF Killed
  <1>10. QED
    BY <1>1, <1>3, <1>4, <1>6, <1>7, <1>8, <1>9 DEF Killed, NoDeadSuccessIn

-----------------------------------------------------------------------------
(* Every usage row is counted at most once *)

\* FoldReports adds to the collecting window only rows past the cursor.
LEMMA FoldGrows ==
  ASSUME NEW m \in ValidatorState, NEW n \in m.cursor .. MaxRows
  PROVE  /\ FoldReports(m, n).pending \subseteq m.pending \cup Folded(m, n)
         /\ FoldReports(m, n).paid \subseteq m.paid
         /\ Folded(m, n) \subseteq (m.cursor + 1) .. n
  <1> DEFINE r == FoldReports(m, n)
  <1>1. /\ r.pending = {i \in m.pending : log[i].key \notin KilledInPage(m, n)}
                       \cup Folded(m, n)
        /\ r.paid = {i \in m.paid : log[i].key \notin KilledInPage(m, n)}
    BY FoldFields
  <1>2. Folded(m, n) \subseteq (m.cursor + 1) .. n
    BY DEF Folded, Page
  <1> HIDE DEF r
  <1>3. r.pending \subseteq m.pending \cup Folded(m, n) /\ r.paid \subseteq m.paid
    BY <1>1
  <1>4. QED
    BY <1>2, <1>3 DEF r

LEMMA FoldCountedOnce ==
  ASSUME NEW m \in ValidatorState, NEW n \in m.cursor .. MaxRows,
         CountedOnceIn(m, m.cursor)
  PROVE  CountedOnceIn(FoldReports(m, n), n)
  <1> DEFINE r == FoldReports(m, n)
  <1>1. r.pending \subseteq m.pending \cup Folded(m, n) /\ r.paid \subseteq m.paid
    BY FoldGrows
  <1>2. Folded(m, n) \subseteq (m.cursor + 1) .. n
    BY FoldGrows
  <1> HIDE DEF r
  <1>3. m.cursor \in Nat
    BY Fields, BoundAssumption
  <1>4. m.pending \cup m.paid \subseteq 1 .. m.cursor /\ m.pending \cap m.paid = {}
    BY DEF CountedOnceIn
  <1>5. r.pending \cap r.paid = {}
    BY <1>1, <1>2, <1>3, <1>4
  <1>6. r.pending \cup r.paid \subseteq 1 .. n
    BY <1>1, <1>2, <1>3, <1>4
  <1>7. QED
    BY <1>5, <1>6 DEF CountedOnceIn, r

\* A row is in at most one of the two windows, and a row that will be delivered
\* again is in neither, in memory and on disk, for any crash and fault pattern:
\* no usage is ever counted twice.
THEOREM CountsOnce == Spec => []CountedOnce
  <1>1. Init => CountedOnce
    BY DEF Init, CountedOnce, CountedOnceIn, Delivered, NewState, UpgradedState
  <1>2. TypeOK /\ CountedOnce /\ [Next]_vars => CountedOnce'
    <2> SUFFICES ASSUME TypeOK, CountedOnce, [Next]_vars PROVE CountedOnce'
      OBVIOUS
    <2>0. /\ mem \in ValidatorState /\ disk \in ValidatorState
          /\ CountedOnceIn(mem, Delivered) /\ CountedOnceIn(disk, disk.cursor)
          /\ Len(log) \in Nat /\ Len(log) <= MaxRows
          /\ fetched \in 0 .. Len(log) /\ mem.cursor <= Len(log)
      BY DEF TypeOK, CountedOnce
    <2>1. CASE UNCHANGED <<mem, disk, pc, fetched>>
      BY <2>1 DEF CountedOnce, CountedOnceIn, Delivered
    <2>2. CASE Environment \/ (\E h, accepted : RelayAnswerLost(h, accepted)) \/ UNCHANGED vars
      <3>1. UNCHANGED <<mem, disk, pc, fetched>>
        BY <2>2 DEF Environment, RelayAnswerLost, ReportUsage, KeyDies, NewEpoch, Reregister, vars
      <3>2. QED
        BY <2>1, <3>1
    <2>3. ASSUME mem'.pending = mem.pending, mem'.paid = mem.paid, mem'.cursor = mem.cursor,
                 disk' = disk, pc # "roster", pc' # "roster"
          PROVE  CountedOnce'
      BY <2>0, <2>3 DEF CountedOnce, CountedOnceIn, Delivered
    <2>4. ASSUME Shrinks(mem, mem'), disk' = disk, pc # "roster", pc' # "roster"
          PROVE  CountedOnce'
      BY <2>0, <2>4 DEF CountedOnce, CountedOnceIn, Delivered, Shrinks
    <2>5. ASSUME NEW h \in Hotkeys, NEW stored, NEW accepted,
                 RelayKeys(h, stored, accepted)
          PROVE  CountedOnce'
      <3>1. mem'.pending = mem.pending /\ mem'.paid = mem.paid /\ mem'.cursor = mem.cursor
        BY <2>0, <2>5, RelayFields
      <3>2. disk' = disk /\ pc # "roster" /\ pc' # "roster"
        BY <2>5 DEF RelayKeys
      <3>3. QED
        BY <2>3, <3>1, <3>2
    <2>6. CASE AskDone \/ PollNotDue \/ FetchFails \/ SaveFails \/ SyncNotDue
               \/ WeightsAccepted \/ WeightsFail
      BY <2>3, <2>6 DEF AskDone, PollNotDue, FetchFails, SaveFails, SyncNotDue,
                        WeightsAccepted, WeightsFail
    <2>7. ASSUME NEW start \in EpochReads, NEW len \in LengthReads, PollRoll(start, len)
          PROVE  CountedOnce'
      <3>1. start \in Nat \cup {None}
        BY DEF EpochReads, TypeOK
      <3>2. Shrinks(mem, mem')
        BY <2>0, <2>7, <3>1, RollShrinks DEF PollRoll
      <3>3. QED
        BY <2>4, <2>7, <3>2 DEF PollRoll
    <2>8. ASSUME NEW n \in mem.cursor .. Len(log), FetchReports(n) PROVE CountedOnce'
      <3>1. n \in mem.cursor .. MaxRows
        BY <2>0, Fields, BoundAssumption
      <3>2. CountedOnceIn(mem, mem.cursor)
        BY <2>0, <2>8 DEF FetchReports, Delivered
      <3>3. CountedOnceIn(FoldReports(mem, n), n)
        BY <2>0, <3>1, <3>2, FoldCountedOnce
      <3>4. QED
        BY <2>0, <2>8, <3>3 DEF FetchReports, CountedOnce, CountedOnceIn, Delivered
    <2>9. ASSUME NEW dead, NEW expired, FinishPoll(dead, expired) PROVE CountedOnce'
      <3>1. fetched \in 0 .. MaxRows
        BY <2>0, BoundAssumption
      <3>2. \A i \in mem.pending \cup mem.paid : log[i].key \in Keys
        <4>0. pc = "roster"
          BY <2>9 DEF FinishPoll
        <4>1. mem.pending \cup mem.paid \subseteq 1 .. fetched
          BY <2>0, <4>0 DEF Delivered, CountedOnceIn
        <4>2. 1 .. fetched \subseteq 1 .. Len(log)
          BY <2>0
        <4>3. QED
          BY <4>1, <4>2, RowKeys
      <3>3. /\ mem'.cursor = fetched
            /\ mem'.pending \subseteq mem.pending /\ mem'.paid \subseteq mem.paid
        BY <2>0, <2>9, <3>1, <3>2, FinishShrinks
      <3>4. QED
        BY <2>0, <2>9, <3>3 DEF FinishPoll, CountedOnce, CountedOnceIn, Delivered
    <2>10. CASE SaveState
      BY <2>0, <2>10 DEF SaveState, CountedOnce, CountedOnceIn, Delivered
    <2>11. CASE ResyncMetagraph
      <3>1. [u \in UIDs |-> IF hotkeys[u] = chainHotkeys[u] THEN mem.scores[u] ELSE {}]
              \in [UIDs -> SUBSET (Rows \cup {Legacy})]
        BY <2>0, Fields
      <3>2. QED
        BY <2>0, <2>3, <2>11, <3>1, NewScores DEF ResyncMetagraph
    <2>12. ASSUME NEW start \in EpochReads, NEW len \in LengthReads, SetWeights(start, len)
           PROVE  CountedOnce'
      <3> DEFINE r == RollEpochIfNeeded(mem, start, len)
      <3>1. start \in Nat \cup {None}
        BY DEF EpochReads, TypeOK
      <3>2. r \in ValidatorState /\ Shrinks(mem, r)
        BY <2>0, <3>1, RollShrinks
      <3>3. mem' = ScoreLastEpoch(r)
        BY <2>12 DEF SetWeights
      <3> HIDE DEF r
      <3>4. mem'.cursor = r.cursor /\ mem'.pending \subseteq r.pending /\ mem'.paid \subseteq r.paid
        BY <3>2, <3>3, ScoreShrinks
      <3>5. Shrinks(mem, mem')
        BY <3>2, <3>4 DEF Shrinks
      <3>6. QED
        BY <2>4, <2>12, <3>5 DEF SetWeights
    <2>13. CASE Crash
      BY <2>0, <2>13 DEF Crash, NewState, CountedOnce, CountedOnceIn, Delivered
    <2>14. CASE Boot
      <3>1. mem'.pending = disk.pending /\ mem'.paid = disk.paid /\ mem'.cursor = disk.cursor
        BY <2>0, <2>14, NewScores, BackedScoresType DEF Boot, LoadState
      <3>2. QED
        BY <2>0, <2>14, <3>1 DEF Boot, CountedOnce, CountedOnceIn, Delivered
    <2>15. QED
      BY <2>2, <2>5, <2>6, <2>7, <2>8, <2>9, <2>10, <2>11, <2>12, <2>13, <2>14
         DEF Next, Relay, Poll, Sync, PollRoster, RosterFails
  <1>3. QED
    BY <1>1, <1>2, TypeCorrect, PTL DEF Spec

-----------------------------------------------------------------------------
(* Dead keys hold no successful row *)

\* Rows in a window have been logged, and are about contributed keys.
LEMMA WindowRows ==
  ASSUME TypeOK, CountedOnce
  PROVE  /\ mem.pending \cup mem.paid \subseteq 1 .. Len(log)
         /\ disk.pending \cup disk.paid \subseteq 1 .. Len(log)
         /\ \A i \in mem.pending \cup mem.paid : log[i].key \in Keys
         /\ \A i \in disk.pending \cup disk.paid : log[i].key \in Keys
  <1>1. /\ Len(log) \in Nat /\ fetched \in 0 .. Len(log)
        /\ mem \in ValidatorState /\ disk \in ValidatorState
        /\ mem.cursor <= Len(log) /\ disk.cursor <= Len(log)
    BY DEF TypeOK
  <1>2. /\ mem.cursor \in Nat /\ disk.cursor \in Nat
    BY <1>1, Fields, BoundAssumption
  <1>3. Delivered \in 0 .. Len(log)
    BY <1>1, <1>2 DEF Delivered
  <1>4. 1 .. Delivered \subseteq 1 .. Len(log) /\ 1 .. disk.cursor \subseteq 1 .. Len(log)
    BY <1>1, <1>2, <1>3
  <1>5. /\ mem.pending \cup mem.paid \subseteq 1 .. Delivered
        /\ disk.pending \cup disk.paid \subseteq 1 .. disk.cursor
    BY DEF CountedOnce, CountedOnceIn
  <1>6. QED
    BY <1>4, <1>5, RowKeys

\* A new row leaves the rows of a window as they were.
LEMMA AppendKeepsRows ==
  ASSUME TypeOK, NEW k, NEW kind, ReportUsage(k, kind)
  PROVE  \A i \in 1 .. Len(log) : log'[i] = log[i]
  <1>1. log \in Seq([key : Keys, kind : RowKinds])
    BY DEF TypeOK
  <1>2. log' = Append(log, [key |-> k, kind |-> kind])
    BY DEF ReportUsage
  <1> DEFINE e == [key |-> k, kind |-> kind]
  <1> HIDE DEF e
  <1>3. QED
    BY <1>1, <1>2 DEF e

\* A successful row revives its key when it is folded.
LEMMA FoldNoDeadSuccess ==
  ASSUME NEW m \in ValidatorState, NEW n \in m.cursor .. MaxRows,
         \A i \in m.pending \cup m.paid : log[i].key \in Keys,
         \A i \in Folded(m, n) : log[i].key \in Keys,
         NoDeadSuccessIn(m)
  PROVE  NoDeadSuccessIn(FoldReports(m, n))
  <1> DEFINE r == FoldReports(m, n)
             revived == RevivedInPage(m, n)
             killed == KilledInPage(m, n)
  <1>1. /\ r.pending = {i \in m.pending : log[i].key \notin killed} \cup Folded(m, n)
        /\ r.paid = {i \in m.paid : log[i].key \notin killed}
        /\ r.keys = [k \in Keys |-> IF k \in revived THEN "alive"
                                     ELSE IF k \in killed THEN "dead" ELSE m.keys[k]]
    BY FoldFields
  <1>2. \A i \in Successes(Folded(m, n)) : log[i].key \in revived
    BY DEF RevivedInPage
  <1> HIDE DEF r, revived, killed
  <1>3. ASSUME NEW i \in Successes(r.pending \cup r.paid) PROVE r.keys[log[i].key] # "dead"
    <2>1. CASE i \in Folded(m, n)
      <3>1. log[i].key \in revived /\ log[i].key \in Keys
        BY <1>2, <1>3, <2>1 DEF Successes
      <3>2. QED
        BY <1>1, <3>1
    <2>2. CASE i \notin Folded(m, n)
      <3>1. i \in m.pending \cup m.paid /\ log[i].key \notin killed
        BY <1>1, <1>3, <2>2 DEF Successes
      <3>2. m.keys[log[i].key] # "dead"
        BY <1>3, <3>1 DEF NoDeadSuccessIn, Successes
      <3>3. QED
        BY <1>1, <3>1, <3>2
    <2>3. QED
      BY <2>1, <2>2
  <1>4. QED
    BY <1>3 DEF NoDeadSuccessIn, r


\* A locally dead key holds no successful row in either window, in memory or on
\* disk, whatever kills, revivals, evictions and restarts come in between.
THEOREM DeadKeysAreEmptied == Spec => []DeadKeysHoldNoSuccess
  <1>1. Init => DeadKeysHoldNoSuccess
    BY DEF Init, DeadKeysHoldNoSuccess, NoDeadSuccessIn, Successes, NewState, UpgradedState
  <1>2. TypeOK /\ CountedOnce /\ DeadKeysHoldNoSuccess /\ [Next]_vars
          => DeadKeysHoldNoSuccess'
    <2> SUFFICES ASSUME TypeOK, CountedOnce, DeadKeysHoldNoSuccess, [Next]_vars
                 PROVE  DeadKeysHoldNoSuccess'
      OBVIOUS
    <2> USE DEF NoDeadSuccessIn, Successes
    <2>0. /\ mem \in ValidatorState /\ disk \in ValidatorState
          /\ NoDeadSuccessIn(mem) /\ NoDeadSuccessIn(disk)
          /\ Len(log) \in Nat /\ Len(log) <= MaxRows
          /\ fetched \in 0 .. Len(log) /\ mem.cursor <= Len(log)
      BY DEF TypeOK, DeadKeysHoldNoSuccess
    <2>1. ASSUME log' = log, disk' = disk, NoDeadSuccessIn(mem') PROVE DeadKeysHoldNoSuccess'
      BY <2>0, <2>1 DEF DeadKeysHoldNoSuccess
    <2>2. CASE UNCHANGED <<log, mem, disk>>
      BY <2>0, <2>1, <2>2
    <2>3. ASSUME NEW k \in Keys, NEW kind \in Kinds, ReportUsage(k, kind)
          PROVE  DeadKeysHoldNoSuccess'
      <3>1. \A i \in 1 .. Len(log) : log'[i] = log[i]
        BY <2>3, AppendKeepsRows
      <3>2. mem' = mem /\ disk' = disk
        BY <2>3 DEF ReportUsage
      <3>3. QED
        BY <2>0, <3>1, <3>2, WindowRows DEF DeadKeysHoldNoSuccess
    <2>4. ASSUME NEW h \in Hotkeys, NEW stored, NEW accepted, RelayKeys(h, stored, accepted)
          PROVE  DeadKeysHoldNoSuccess'
      <3>1. log' = log /\ disk' = disk
        BY <2>4 DEF RelayKeys
      <3>2. /\ mem'.pending = mem.pending /\ mem'.paid = mem.paid
            /\ \A k \in Keys : mem'.keys[k] = mem.keys[k] \/ mem'.keys[k] = "alive"
        BY <2>0, <2>4, RelayFields
      <3>3. NoDeadSuccessIn(mem')
        BY <2>0, <3>2, WindowRows
      <3>4. QED
        BY <2>1, <3>1, <3>3
    <2>5. CASE \/ (\E k \in Keys : KeyDies(k)) \/ (\E g \in Gaps : NewEpoch(g))
               \/ (\E u \in UIDs, h \in Hotkeys : Reregister(u, h))
               \/ (\E h, accepted : RelayAnswerLost(h, accepted))
               \/ AskDone \/ PollNotDue \/ FetchFails \/ SaveFails \/ SyncNotDue
               \/ WeightsAccepted \/ WeightsFail \/ UNCHANGED vars
      <3>1. UNCHANGED <<log, mem, disk>>
        BY <2>5 DEF KeyDies, NewEpoch, Reregister, RelayAnswerLost, AskDone, PollNotDue, FetchFails, SaveFails,
                    SyncNotDue, WeightsAccepted, WeightsFail, backend, vars
      <3>2. QED
        BY <2>2, <3>1
    <2>6. ASSUME NEW start \in EpochReads, NEW len \in LengthReads, PollRoll(start, len)
          PROVE  DeadKeysHoldNoSuccess'
      <3>1. start \in Nat \cup {None}
        BY DEF EpochReads, TypeOK
      <3>2. NoDeadSuccessIn(RollEpochIfNeeded(mem, start, len))
        BY <2>0, <3>1, WindowRows, RollNoDeadSuccess
      <3>3. mem' = RollEpochIfNeeded(mem, start, len) /\ log' = log /\ disk' = disk
        BY <2>6 DEF PollRoll, backend
      <3>4. QED
        BY <2>1, <3>2, <3>3
    <2>7. ASSUME NEW n \in mem.cursor .. Len(log), FetchReports(n)
          PROVE  DeadKeysHoldNoSuccess'
      <3>1. n \in mem.cursor .. MaxRows
        BY <2>0, Fields, BoundAssumption
      <3>2. \A i \in Folded(mem, n) : log[i].key \in Keys
        <4>1. Folded(mem, n) \subseteq (mem.cursor + 1) .. n
          BY DEF Folded, Page
        <4>2. (mem.cursor + 1) .. n \subseteq 1 .. Len(log)
          BY <2>0, Fields, BoundAssumption
        <4>3. QED
          BY <4>1, <4>2, RowKeys
      <3>3. NoDeadSuccessIn(FoldReports(mem, n))
        BY <2>0, <3>1, <3>2, WindowRows, FoldNoDeadSuccess
      <3>4. mem' = FoldReports(mem, n) /\ log' = log /\ disk' = disk
        BY <2>7 DEF FetchReports, backend
      <3>5. QED
        BY <2>1, <3>3, <3>4
    <2>8. ASSUME NEW dead, NEW expired, FinishPoll(dead, expired)
          PROVE  DeadKeysHoldNoSuccess'
      <3>1. fetched \in 0 .. MaxRows
        BY <2>0, BoundAssumption
      <3>2. NoDeadSuccessIn(mem')
        BY <2>0, <2>8, <3>1, WindowRows, FinishShrinks
      <3>3. log' = log /\ disk' = disk
        BY <2>8 DEF FinishPoll, backend
      <3>4. QED
        BY <2>1, <3>2, <3>3
    <2>9. CASE SaveState
      BY <2>0, <2>9 DEF SaveState, backend, DeadKeysHoldNoSuccess
    <2>10. CASE ResyncMetagraph
      <3>1. [u \in UIDs |-> IF hotkeys[u] = chainHotkeys[u] THEN mem.scores[u] ELSE {}]
              \in [UIDs -> SUBSET (Rows \cup {Legacy})]
        BY <2>0, Fields
      <3>2. mem'.pending = mem.pending /\ mem'.paid = mem.paid /\ mem'.keys = mem.keys
        BY <2>0, <2>10, <3>1, NewScores DEF ResyncMetagraph
      <3>3. log' = log /\ disk' = disk
        BY <2>10 DEF ResyncMetagraph, backend
      <3>4. QED
        BY <2>0, <2>1, <3>2, <3>3
    <2>11. ASSUME NEW start \in EpochReads, NEW len \in LengthReads, SetWeights(start, len)
           PROVE  DeadKeysHoldNoSuccess'
      <3> DEFINE r == RollEpochIfNeeded(mem, start, len)
      <3>1. start \in Nat \cup {None}
        BY DEF EpochReads, TypeOK
      <3>2. r \in ValidatorState /\ Shrinks(mem, r) /\ NoDeadSuccessIn(r)
        BY <2>0, <3>1, RollShrinks, RollNoDeadSuccess, WindowRows
      <3>3. mem' = ScoreLastEpoch(r) /\ log' = log /\ disk' = disk
        BY <2>11 DEF SetWeights, backend
      <3> HIDE DEF r
      <3>4. \A i \in r.pending \cup r.paid : log[i].key \in Keys
        BY <3>2, WindowRows DEF Shrinks
      <3>5. NoDeadSuccessIn(mem')
        BY <3>2, <3>3, <3>4, ScoreNoDeadSuccess
      <3>6. QED
        BY <2>1, <3>3, <3>5
    <2>12. CASE Crash
      BY <2>0, <2>12 DEF Crash, NewState, backend, DeadKeysHoldNoSuccess
    <2>13. CASE Boot
      <3>1. mem'.pending = disk.pending /\ mem'.paid = disk.paid /\ mem'.keys = disk.keys
        BY <2>0, <2>13, NewScores, BackedScoresType DEF Boot, LoadState
      <3>2. QED
        BY <2>0, <2>1, <2>13, <3>1 DEF Boot, backend
    <2>14. QED
      BY <2>3, <2>4, <2>5, <2>6, <2>7, <2>8, <2>9, <2>10, <2>11, <2>12, <2>13
         DEF Next, Environment, Relay, Poll, Sync, PollRoster, RosterFails
  <1>3. QED
    BY <1>1, <1>2, TypeCorrect, CountsOnce, PTL DEF Spec


-----------------------------------------------------------------------------
(* Only the immediately preceding epoch is paid *)

\* No epoch is shorter than three quarters of tempo + 1: two of them then never
\* fit into the 1.5 lengths _roll_epoch_if_needed takes for contiguous.
LongEpochs == \A g \in Gaps : 4 * g > 3 * EpochLength

\* The epochs the chain ran: spaced out, the current one the newest.
ChainInv ==
  /\ \A s, t \in starts : s < t => 4 * (t - s) > 3 * EpochLength
  /\ \A s \in starts : s <= chainStart

\* The recorded epochs are epochs the chain ran.
RecordedInv ==
  /\ mem.epochStart \in starts \cup {None}
  /\ disk.epochStart \in starts \cup {None}

\* The state file is never ahead of memory, so the rows in its windows are not
\* delivered again before the next restart.
CursorInv ==
  /\ pc # "down" => disk.cursor <= mem.cursor
  /\ pc = "roster" => mem.cursor <= fetched

\* PaysPrecedingEpoch, strengthened to be inductive.
EpochInv == ChainInv /\ RecordedInv /\ CursorInv /\ PaysPrecedingEpoch

\* Rolling pays the collecting window only to the epoch that follows it.
LEMMA RollPays ==
  ASSUME NEW m \in ValidatorState, TypeOK, ChainInv, m.epochStart \in starts \cup {None},
         NEW start \in EpochReads, NEW len \in LengthReads, PaysPrecedingIn(m)
  PROVE  /\ PaysPrecedingIn(RollEpochIfNeeded(m, start, len))
         /\ RollEpochIfNeeded(m, start, len).epochStart \in starts \cup {None}
  <1> DEFINE r == RollEpochIfNeeded(m, start, len)
             prev == m.epochStart
  <1>1. starts \subseteq Nat /\ chainStart \in starts /\ None \notin starts
    BY NoneAssumption DEF TypeOK
  <1>2. start \in Nat \cup {None} /\ start \in {chainStart, None} /\ len \in {EpochLength, None}
    BY <1>1 DEF EpochReads, LengthReads
  <1>3. Keeps(m, r, start, len) \/ \E K \in SUBSET Keys : Closes(m, r, start, len, K)
    BY <1>2, RollCases
  <1> HIDE DEF r
  <1>4. start # None => ~Sliver(prev, start, len)
    <2> SUFFICES ASSUME start # None, Sliver(prev, start, len) PROVE FALSE
      OBVIOUS
    <2>1. prev \in starts /\ start \in starts /\ prev < start
          /\ 2 * (start - prev) < EpochLength
      BY <1>1, <1>2 DEF Sliver
    <2>2. 4 * (start - prev) > 3 * EpochLength
      BY <2>1 DEF ChainInv
    <2>3. prev \in Nat /\ start \in Nat /\ EpochLength \in Nat
      BY <1>1, <2>1, EpochAssumption
    <2>4. QED
      BY <2>1, <2>2, <2>3
  <1>5. ASSUME start # None, Contiguous(prev, start, len) PROVE Adjacent(prev, start)
    <2>1. /\ prev \in starts /\ start \in starts /\ prev < start
          /\ 2 * (start - prev) <= 3 * EpochLength
      BY <1>1, <1>2, <1>5 DEF Contiguous
    <2>2. ASSUME NEW t \in starts, prev < t, t < start PROVE FALSE
      <3>1. 4 * (t - prev) > 3 * EpochLength /\ 4 * (start - t) > 3 * EpochLength
        BY <2>1, <2>2 DEF ChainInv
      <3>2. t \in Nat /\ prev \in Nat /\ start \in Nat /\ EpochLength \in Nat
        BY <1>1, <2>1, EpochAssumption
      <3>3. QED
        BY <2>1, <3>1, <3>2
    <2>3. QED
      BY <2>1, <2>2 DEF Adjacent
  <1>6. ASSUME Keeps(m, r, start, len)
        PROVE  PaysPrecedingIn(r) /\ r.epochStart \in starts \cup {None}
    <2>1. r.epochStart = m.epochStart
      <3>1. CASE start = None
        BY <1>6, <3>1 DEF Keeps
      <3>2. CASE start # None
        BY <1>4, <1>6, <3>2 DEF Keeps
      <3>3. QED
        BY <3>1, <3>2
    <2>2. r.pending = m.pending /\ r.paid = m.paid
      BY <1>6 DEF Keeps
    <2>3. QED
      BY <2>1, <2>2 DEF PaysPrecedingIn
  <1>7. ASSUME NEW K, Closes(m, r, start, len, K)
        PROVE  PaysPrecedingIn(r) /\ r.epochStart \in starts \cup {None}
    <2>1. start # None /\ r.epochStart = start /\ r.pending = {}
      BY <1>7 DEF Closes
    <2>2. \A i \in r.paid : i \in m.pending /\ Contiguous(prev, start, len)
      BY <1>7 DEF Closes
    <2>3. \A i \in r.paid : Adjacent(foldedIn[i], r.epochStart)
      BY <1>5, <2>1, <2>2 DEF PaysPrecedingIn
    <2>4. QED
      BY <1>1, <1>2, <2>1, <2>3 DEF PaysPrecedingIn
  <1>8. QED
    BY <1>3, <1>6, <1>7 DEF r

\* Losing rows within a recorded epoch keeps the windows right.
LEMMA FewerPay ==
  ASSUME NEW m, NEW n, PaysPrecedingIn(m), n.epochStart = m.epochStart,
         n.pending \subseteq m.pending, n.paid \subseteq m.paid
  PROVE  PaysPrecedingIn(n)
  BY DEF PaysPrecedingIn


LEMMA EpochsAreRight ==
  ASSUME LongEpochs PROVE Spec => []EpochInv
  <1>1. Init => EpochInv
    <2> SUFFICES ASSUME Init PROVE EpochInv
      OBVIOUS
    <2>1. /\ mem.pending = {} /\ mem.paid = {} /\ mem.epochStart = None
          /\ disk.pending = {} /\ disk.paid = {} /\ disk.epochStart = None
      BY DEF Init, NewState, UpgradedState
    <2>2. PaysPrecedingEpoch /\ RecordedInv
      BY <2>1 DEF PaysPrecedingEpoch, PaysPrecedingIn, RecordedInv
    <2>3. ChainInv /\ CursorInv
      BY DEF Init, ChainInv, CursorInv
    <2>4. QED
      BY <2>2, <2>3 DEF EpochInv
  <1>2. TypeOK /\ CountedOnce /\ EpochInv /\ [Next]_vars => EpochInv'
    <2> SUFFICES ASSUME TypeOK, CountedOnce, EpochInv, [Next]_vars PROVE EpochInv'
      OBVIOUS
    <2>0. /\ mem \in ValidatorState /\ disk \in ValidatorState
          /\ Len(log) \in Nat /\ Len(log) <= MaxRows
          /\ fetched \in 0 .. Len(log) /\ mem.cursor <= Len(log)
          /\ ChainInv /\ RecordedInv /\ CursorInv
          /\ PaysPrecedingIn(mem) /\ PaysPrecedingIn(disk)
      BY DEF TypeOK, EpochInv, PaysPrecedingEpoch
    <2>1. ASSUME starts' = starts, chainStart' = chainStart, foldedIn' = foldedIn, disk' = disk,
                 PaysPrecedingIn(mem'), mem'.epochStart \in starts \cup {None}, CursorInv'
          PROVE  EpochInv'
      <3>1. ChainInv' /\ RecordedInv'
        BY <2>0, <2>1 DEF ChainInv, RecordedInv
      <3>2. PaysPrecedingEpoch'
        BY <2>0, <2>1 DEF PaysPrecedingEpoch, PaysPrecedingIn, Adjacent
      <3>3. QED
        BY <2>1, <3>1, <3>2 DEF EpochInv
    <2>2. ASSUME starts' = starts, chainStart' = chainStart, foldedIn' = foldedIn, disk' = disk,
                 mem'.pending = mem.pending, mem'.paid = mem.paid,
                 mem'.epochStart = mem.epochStart, CursorInv'
          PROVE  EpochInv'
      <3>1. PaysPrecedingIn(mem') /\ mem'.epochStart \in starts \cup {None}
        BY <2>0, <2>2, FewerPay DEF RecordedInv
      <3>2. QED
        BY <2>1, <2>2, <3>1
    <2>3. ASSUME NEW g \in Gaps, NewEpoch(g) PROVE EpochInv'
      <3>1. /\ chainStart' = chainStart + g /\ starts' = starts \cup {chainStart + g}
            /\ UNCHANGED <<mem, disk, pc, fetched, foldedIn>>
        BY <2>3 DEF NewEpoch, history
      <3>2. /\ g \in Nat /\ g > 0 /\ 4 * g > 3 * EpochLength /\ EpochLength \in Nat
            /\ starts \subseteq Nat /\ chainStart \in Nat
        BY EpochAssumption DEF LongEpochs, TypeOK
      <3>3. \A t \in starts : t < chainStart + g /\ t \in Nat /\ t <= chainStart
        BY <2>0, <3>2 DEF ChainInv
      <3>4. ASSUME NEW s \in starts', NEW t \in starts', s < t
            PROVE  4 * (t - s) > 3 * EpochLength
        <4>1. CASE t \in starts
          <5>1. s \in starts
            BY <3>1, <3>2, <3>3, <3>4, <4>1
          <5>2. QED
            BY <2>0, <3>4, <4>1, <5>1 DEF ChainInv
        <4>2. CASE t = chainStart + g
          <5>1. s \in starts /\ s <= chainStart /\ s \in Nat
            BY <3>1, <3>2, <3>3, <3>4, <4>2
          <5>2. QED
            BY <3>2, <4>2, <5>1
        <4>3. QED
          BY <3>1, <4>1, <4>2
      <3>5. \A t \in starts' : t <= chainStart'
        BY <3>1, <3>2, <3>3
      <3>6. \A s, t : Adjacent(s, t) => Adjacent(s, t)'
        <4> SUFFICES ASSUME NEW s, NEW t, Adjacent(s, t) PROVE Adjacent(s, t)'
          OBVIOUS
        <4>1. s \in starts /\ t \in starts /\ s < t /\ \A r \in starts : ~(s < r /\ r < t)
          BY DEF Adjacent
        <4>2. ~(chainStart + g < t)
          BY <3>2, <3>3, <4>1
        <4>3. QED
          BY <3>1, <4>1, <4>2 DEF Adjacent
      <3>7. PaysPrecedingEpoch'
        BY <2>0, <3>1, <3>6 DEF PaysPrecedingEpoch, PaysPrecedingIn
      <3>8. QED
        BY <2>0, <3>1, <3>4, <3>5, <3>7 DEF EpochInv, ChainInv, RecordedInv, CursorInv
    <2>4. CASE \/ (\E k \in Keys, kind \in Kinds : ReportUsage(k, kind))
               \/ (\E k \in Keys : KeyDies(k)) \/ (\E h, accepted : RelayAnswerLost(h, accepted))
               \/ (\E u \in UIDs, h \in Hotkeys : Reregister(u, h)) \/ UNCHANGED vars
      <3>1. UNCHANGED <<starts, chainStart, foldedIn, disk, mem, pc, fetched>>
        BY <2>4 DEF ReportUsage, KeyDies, Reregister, RelayAnswerLost, backend, chain, history, vars
      <3>2. CursorInv'
        BY <2>0, <3>1 DEF CursorInv
      <3>3. QED
        BY <2>2, <3>1, <3>2
    <2>5. CASE AskDone \/ PollNotDue \/ FetchFails \/ SaveFails \/ SyncNotDue
               \/ WeightsAccepted \/ WeightsFail
      <3>1. UNCHANGED <<starts, chainStart, foldedIn, disk, mem, fetched>>
        BY <2>5 DEF AskDone, PollNotDue, FetchFails, SaveFails, SyncNotDue,
                    WeightsAccepted, WeightsFail, chain, history
      <3>2. pc # "down" /\ pc' # "roster"
        BY <2>5 DEF AskDone, PollNotDue, FetchFails, SaveFails, SyncNotDue,
                    WeightsAccepted, WeightsFail
      <3>3. CursorInv'
        BY <2>0, <3>1, <3>2 DEF CursorInv
      <3>4. QED
        BY <2>2, <3>1, <3>3
    <2>6. ASSUME NEW h \in Hotkeys, NEW stored, NEW accepted, RelayKeys(h, stored, accepted)
          PROVE  EpochInv'
      <3>1. /\ UNCHANGED <<starts, chainStart, foldedIn, disk>>
            /\ pc = "ask" /\ pc' = "ask"
        BY <2>6 DEF RelayKeys, chain, history
      <3>2. /\ mem'.pending = mem.pending /\ mem'.paid = mem.paid
            /\ mem'.cursor = mem.cursor /\ mem'.epochStart = mem.epochStart
        BY <2>0, <2>6, RelayFields
      <3>3. CursorInv'
        BY <2>0, <3>1, <3>2 DEF CursorInv
      <3>4. QED
        BY <2>2, <3>1, <3>2, <3>3
    <2>7. ASSUME NEW start \in EpochReads, NEW len \in LengthReads, PollRoll(start, len)
          PROVE  EpochInv'
      <3>1. /\ UNCHANGED <<starts, chainStart, foldedIn, disk>>
            /\ mem' = RollEpochIfNeeded(mem, start, len) /\ pc = "poll" /\ pc' = "fetch"
        BY <2>7 DEF PollRoll, chain, history
      <3>2. PaysPrecedingIn(mem') /\ mem'.epochStart \in starts \cup {None}
        BY <2>0, <3>1, RollPays DEF RecordedInv
      <3>3. start \in Nat \cup {None}
        BY DEF EpochReads, TypeOK
      <3>4. mem'.cursor = mem.cursor
        BY <2>0, <3>1, <3>3, RollShrinks
      <3>5. CursorInv'
        BY <2>0, <3>1, <3>4 DEF CursorInv
      <3>6. QED
        BY <2>1, <3>1, <3>2, <3>5
    <2>8. ASSUME NEW n \in mem.cursor .. Len(log), FetchReports(n) PROVE EpochInv'
      <3> DEFINE new == mem'.pending \ mem.pending
      <3>1. /\ UNCHANGED <<starts, chainStart, disk>> /\ mem' = FoldReports(mem, n)
            /\ foldedIn' = [i \in Rows |-> IF i \in new THEN mem.epochStart ELSE foldedIn[i]]
            /\ fetched' = n /\ pc = "fetch" /\ pc' = "roster"
        BY <2>8 DEF FetchReports, chain
      <3>2. n \in mem.cursor .. MaxRows /\ mem.cursor \in Nat /\ disk.cursor \in Nat
        BY <2>0, Fields, BoundAssumption
      <3>3. /\ mem' \in ValidatorState
            /\ mem'.cursor = mem.cursor /\ mem'.epochStart = mem.epochStart
            /\ mem'.pending \subseteq mem.pending \cup Folded(mem, n)
            /\ mem'.paid \subseteq mem.paid
        <4>1. /\ FoldReports(mem, n).pending \subseteq mem.pending \cup Folded(mem, n)
              /\ FoldReports(mem, n).paid \subseteq mem.paid
          BY <2>0, <3>2, FoldGrows
        <4>2. QED
          BY <2>0, <3>1, <3>2, <4>1, FoldFields
      <3>4. new \subseteq (mem.cursor + 1) .. n
        BY <3>3 DEF Folded, Page
      <3>5. /\ mem.pending \cup mem.paid \subseteq 1 .. mem.cursor
            /\ disk.pending \cup disk.paid \subseteq 1 .. mem.cursor
        <4>1. /\ mem.pending \cup mem.paid \subseteq 1 .. mem.cursor
              /\ disk.pending \cup disk.paid \subseteq 1 .. disk.cursor
          BY <3>1 DEF CountedOnce, CountedOnceIn, Delivered
        <4>2. disk.cursor <= mem.cursor
          BY <2>0, <3>1 DEF CursorInv
        <4>3. QED
          BY <3>2, <4>1, <4>2
      <3>6. \A i \in 1 .. mem.cursor : i \notin new
        BY <3>2, <3>4
      <3>7. mem.pending \cup mem.paid \cup disk.pending \cup disk.paid \subseteq Rows
        BY <2>0, Fields
      <3>8. \A i \in mem.pending \cup mem.paid \cup disk.pending \cup disk.paid :
              foldedIn'[i] = foldedIn[i]
        BY <3>1, <3>5, <3>6, <3>7
      <3>9. \A i \in new : foldedIn'[i] = mem.epochStart
        BY <3>1, <3>3, Fields
      <3> HIDE DEF new
      <3>10. PaysPrecedingIn(disk)'
        <4>1. starts' = starts /\ disk' = disk
          BY <3>1
        <4>2. \A i \in disk.pending : foldedIn'[i] = disk.epochStart
          BY <2>0, <3>8 DEF PaysPrecedingIn
        <4>3. \A i \in disk.paid : Adjacent(foldedIn'[i], disk.epochStart)
          BY <2>0, <3>8 DEF PaysPrecedingIn
        <4>4. QED
          BY <4>1, <4>2, <4>3 DEF PaysPrecedingIn, Adjacent
      <3>11. \A i \in mem'.pending : foldedIn'[i] = mem'.epochStart
        BY <2>0, <3>3, <3>8, <3>9 DEF PaysPrecedingIn, new
      <3>12. \A i \in mem'.paid : Adjacent(foldedIn[i], mem.epochStart)'
        BY <2>0, <3>1, <3>3, <3>8 DEF PaysPrecedingIn, Adjacent
      <3>13. PaysPrecedingEpoch'
        BY <3>3, <3>10, <3>11, <3>12 DEF PaysPrecedingEpoch, PaysPrecedingIn, Adjacent
      <3>14. ChainInv' /\ RecordedInv'
        BY <2>0, <3>1, <3>3 DEF ChainInv, RecordedInv
      <3>15. CursorInv'
        BY <2>0, <3>1, <3>2, <3>3 DEF CursorInv
      <3>16. QED
        BY <3>13, <3>14, <3>15 DEF EpochInv
    <2>9. ASSUME NEW dead, NEW expired, FinishPoll(dead, expired) PROVE EpochInv'
      <3>1. /\ UNCHANGED <<starts, chainStart, foldedIn, disk>>
            /\ pc = "roster" /\ pc' = "save"
        BY <2>9 DEF FinishPoll, chain, history
      <3>2. fetched \in 0 .. MaxRows
        BY <2>0, BoundAssumption
      <3>3. /\ mem'.cursor = fetched /\ mem'.epochStart = mem.epochStart
            /\ mem'.pending \subseteq mem.pending /\ mem'.paid \subseteq mem.paid
        BY <2>0, <2>9, <3>2, WindowRows, FinishShrinks
      <3>4. PaysPrecedingIn(mem')
        BY <2>0, <3>3, FewerPay
      <3>5. mem.cursor \in Nat /\ disk.cursor \in Nat /\ fetched \in Nat
        BY <2>0, Fields, BoundAssumption
      <3>6. CursorInv'
        BY <2>0, <3>1, <3>3, <3>5 DEF CursorInv
      <3>7. QED
        BY <2>0, <2>1, <3>1, <3>3, <3>4, <3>6 DEF RecordedInv
    <2>10. CASE SaveState
      <3>1. /\ UNCHANGED <<starts, chainStart, foldedIn, mem>> /\ disk' = mem
            /\ pc = "save" /\ pc' = "sync"
        BY <2>10 DEF SaveState, chain, history
      <3>2. mem.cursor \in Nat
        BY <2>0, Fields, BoundAssumption
      <3>3. CursorInv' /\ ChainInv' /\ RecordedInv'
        BY <2>0, <3>1, <3>2 DEF CursorInv, ChainInv, RecordedInv
      <3>4. PaysPrecedingEpoch'
        BY <2>0, <3>1 DEF PaysPrecedingEpoch, PaysPrecedingIn, Adjacent
      <3>5. QED
        BY <3>3, <3>4 DEF EpochInv
    <2>11. CASE ResyncMetagraph
      <3>1. [u \in UIDs |-> IF hotkeys[u] = chainHotkeys[u] THEN mem.scores[u] ELSE {}]
              \in [UIDs -> SUBSET (Rows \cup {Legacy})]
        BY <2>0, Fields
      <3>2. /\ mem'.pending = mem.pending /\ mem'.paid = mem.paid
            /\ mem'.cursor = mem.cursor /\ mem'.epochStart = mem.epochStart
        BY <2>0, <2>11, <3>1, NewScores DEF ResyncMetagraph
      <3>3. /\ UNCHANGED <<starts, chainStart, foldedIn, disk>>
            /\ pc = "sync" /\ pc' = "weights"
        BY <2>11 DEF ResyncMetagraph, chain, history
      <3>4. CursorInv'
        BY <2>0, <3>2, <3>3 DEF CursorInv
      <3>5. QED
        BY <2>2, <3>2, <3>3, <3>4
    <2>12. ASSUME NEW start \in EpochReads, NEW len \in LengthReads, SetWeights(start, len)
           PROVE  EpochInv'
      <3> DEFINE r == RollEpochIfNeeded(mem, start, len)
      <3>1. /\ UNCHANGED <<starts, chainStart, foldedIn, disk>>
            /\ mem' = ScoreLastEpoch(r) /\ pc # "down" /\ pc' = "submit"
        BY <2>12 DEF SetWeights, chain, history
      <3>2. PaysPrecedingIn(r) /\ r.epochStart \in starts \cup {None}
        BY <2>0, RollPays DEF RecordedInv
      <3>3. start \in Nat \cup {None}
        BY DEF EpochReads, TypeOK
      <3>4. r \in ValidatorState /\ r.cursor = mem.cursor
        BY <2>0, <3>3, RollShrinks
      <3> HIDE DEF r
      <3>5. /\ mem'.cursor = mem.cursor /\ mem'.epochStart = r.epochStart
            /\ mem'.pending \subseteq r.pending /\ mem'.paid \subseteq r.paid
        BY <3>1, <3>4, ScoreShrinks
      <3>6. PaysPrecedingIn(mem')
        BY <3>2, <3>5, FewerPay
      <3>7. CursorInv'
        BY <2>0, <3>1, <3>5 DEF CursorInv
      <3>8. QED
        BY <2>1, <3>1, <3>2, <3>5, <3>6, <3>7
    <2>13. CASE Crash
      <3>1. /\ UNCHANGED <<starts, chainStart, foldedIn, disk>> /\ pc' = "down"
            /\ mem'.pending = {} /\ mem'.paid = {} /\ mem'.epochStart = None
        BY <2>13 DEF Crash, NewState, chain, history
      <3>2. PaysPrecedingIn(mem') /\ CursorInv'
        BY <3>1 DEF PaysPrecedingIn, CursorInv
      <3>3. QED
        BY <2>1, <3>1, <3>2
    <2>14. CASE Boot
      <3>1. /\ UNCHANGED <<starts, chainStart, foldedIn, disk>> /\ pc' = "ask"
        BY <2>14 DEF Boot, chain, history
      <3>2. /\ mem'.pending = disk.pending /\ mem'.paid = disk.paid
            /\ mem'.cursor = disk.cursor /\ mem'.epochStart = disk.epochStart
        BY <2>0, <2>14, NewScores, BackedScoresType DEF Boot, LoadState
      <3>3. PaysPrecedingIn(mem')
        BY <2>0, <3>2, FewerPay
      <3>4. disk.cursor \in Nat
        BY <2>0, Fields, BoundAssumption
      <3>5. CursorInv'
        BY <3>1, <3>2, <3>4 DEF CursorInv
      <3>6. QED
        BY <2>0, <2>1, <3>1, <3>2, <3>3, <3>5 DEF RecordedInv
    <2>15. QED
      BY <2>3, <2>4, <2>5, <2>6, <2>7, <2>8, <2>9, <2>10, <2>11, <2>12, <2>13, <2>14
         DEF Next, Environment, Relay, Poll, Sync, PollRoster, RosterFails
  <1>3. QED
    BY <1>1, <1>2, TypeCorrect, CountsOnce, PTL DEF Spec

\* With epochs that never run short, the paid window always holds rows of the
\* immediately preceding epoch and the collecting one rows of the recorded
\* epoch, in memory and on disk, through unreadable epochs and restarts.
THEOREM PaysOnlyPreceding ==
  ASSUME LongEpochs PROVE Spec => []PaysPrecedingEpoch
  <1>1. EpochInv => PaysPrecedingEpoch
    BY DEF EpochInv
  <1>2. QED
    BY <1>1, EpochsAreRight, PTL


-----------------------------------------------------------------------------
(* Submitted weights are earned *)

\* A pooled window above the reliability floor holds a successful row: the
\* floor is positive.
LEMMA EarningNeedsSuccess ==
  ASSUME NEW R \in SUBSET Rows, PooledWindowEarns(R)
  PROVE  Successes(R) # {}
  <1> SUFFICES ASSUME Successes(R) = {} PROVE FALSE
    OBVIOUS
  <1>1. IsFiniteSet(Rows)
    BY FS_Interval, BoundAssumption DEF Rows
  <1>2. IsFiniteSet(R)
    BY <1>1, FS_Subset
  <1>3. Cardinality(R) \in Nat /\ Cardinality(R) # 0
    BY <1>2, FS_CardinalityType, FS_EmptySet DEF PooledWindowEarns
  <1>4. Cardinality(Successes(R)) = 0
    BY FS_EmptySet
  <1>5. ReliabilityFloorPct \in Nat /\ ReliabilityFloorPct > 0
    BY FloorAssumption
  <1>6. \A x, y \in Nat : x > 0 /\ y # 0 => 0 < x * y
    BY SMT
  <1>7. 0 < ReliabilityFloorPct * Cardinality(R)
    BY <1>3, <1>5, <1>6
  <1>8. ~(0 < ReliabilityFloorPct * Cardinality(R))
    BY <1>4 DEF PooledWindowEarns, BelowReliability
  <1>9. QED
    BY <1>7, <1>8

\* What uid u is scored on in state m.
Earned(m, R, u) ==
  R # {} => /\ R \subseteq m.paid
            /\ \A i \in R : HotkeyOf(i) = hotkeys[u] /\ m.keys[log[i].key] # "dead"
            /\ Successes(R) # {}

\* _score_last_epoch scores every uid on its holder's rows of the paid window.
LEMMA ScoresAreEarned ==
  ASSUME NEW m \in ValidatorState, NEW u \in UIDs
  PROVE  Earned(ScoreLastEpoch(m), ScoreLastEpoch(m).scores[u], u)
  <1> DEFINE junk == {k \in Keys : LET R == {i \in m.paid : log[i].key = k}
                                   IN R # {} /\ SubWindowFloor(R)}
             n == KillKeys(m, junk)
             st == [h \in Hotkeys |-> IF \E i \in n.paid : HotkeyOf(i) = h
                                      THEN [n.status[h] EXCEPT !.tracked = TRUE]
                                      ELSE n.status[h]]
             score(v) == LET R == Pool(n, hotkeys[v])
                         IN IF PooledWindowEarns(R) THEN R ELSE {}
             sc == [v \in UIDs |-> score(v)]
             r == ScoreLastEpoch(m)
  <1>1. n \in ValidatorState
    BY KillKeysKills
  <1>2. r = [n EXCEPT !.status = st, !.scores = sc]
    BY DEF ScoreLastEpoch
  <1> HIDE DEF junk, n, r, st
  <1>3. /\ Pool(n, hotkeys[u]) \subseteq n.paid /\ Pool(n, hotkeys[u]) \subseteq Rows
        /\ \A i \in Pool(n, hotkeys[u]) : HotkeyOf(i) = hotkeys[u] /\ n.keys[log[i].key] # "dead"
    BY <1>1, Fields DEF Pool
  <1>4. PooledWindowEarns(Pool(n, hotkeys[u])) => Successes(Pool(n, hotkeys[u])) # {}
    BY <1>3, EarningNeedsSuccess
  <1>5. Earned(n, score(u), u)
    BY <1>3, <1>4 DEF Earned
  <1>6. sc[u] = score(u)
    OBVIOUS
  <1> HIDE DEF sc, score
  <1>7. r.paid = n.paid /\ r.keys = n.keys /\ r.scores = sc
    BY <1>1, <1>2 DEF ValidatorState
  <1>8. QED
    BY <1>5, <1>6, <1>7 DEF Earned, r

\* WeightsAreEarned, strengthened: between submissions there is no array.
WeightsInv == WeightsAreEarned /\ (pc # "submit" => weights = NoWeights)


\* For every metagraph, key population and fault pattern, submitted weights pay
\* a uid only for successful work of the hotkey that holds it, in the window
\* being paid, on keys not locally dead, where that hotkey was last seen.
THEOREM OnlyEarnedWeights == Spec => []WeightsAreEarned
  <1>1. Init => WeightsInv
    BY DEF Init, WeightsInv, WeightsAreEarned, NoWeights
  <1>2. TypeOK /\ CountedOnce /\ WeightsInv /\ [Next]_vars => WeightsInv'
    <2> SUFFICES ASSUME TypeOK, CountedOnce, WeightsInv, [Next]_vars PROVE WeightsInv'
      OBVIOUS
    <2>1. ASSUME weights' = NoWeights PROVE WeightsInv'
      BY <2>1 DEF WeightsInv, WeightsAreEarned, NoWeights
    <2>2. ASSUME NEW k \in Keys, NEW kind \in Kinds, ReportUsage(k, kind) PROVE WeightsInv'
      <3>1. \A i \in mem.paid : log'[i] = log[i]
        BY <2>2, AppendKeepsRows, WindowRows
      <3>2. UNCHANGED <<mem, weights, hotkeys, pc>>
        BY <2>2 DEF ReportUsage
      <3>3. WeightsAreEarned'
        <4> SUFFICES ASSUME NEW u \in UIDs, weights[u] # {}
                     PROVE  /\ weights[u] \subseteq mem.paid
                            /\ \A i \in weights[u] : /\ Owner[log'[i].key] = hotkeys[u]
                                                      /\ mem.keys[log'[i].key] # "dead"
                            /\ {i \in weights[u] : log'[i].kind \in {"ok", "lowq"}} # {}
                            /\ mem.status[hotkeys[u]].uid = u
          BY <3>2 DEF WeightsAreEarned, HotkeyOf, Successes
        <4>1. /\ weights[u] \subseteq mem.paid
              /\ \A i \in weights[u] : /\ Owner[log[i].key] = hotkeys[u]
                                        /\ mem.keys[log[i].key] # "dead"
              /\ {i \in weights[u] : log[i].kind \in {"ok", "lowq"}} # {}
              /\ mem.status[hotkeys[u]].uid = u
          BY DEF WeightsInv, WeightsAreEarned, HotkeyOf, Successes
        <4>2. QED
          BY <3>1, <4>1
      <3>4. QED
        BY <3>2, <3>3 DEF WeightsInv
    <2>3. CASE \/ (\E k \in Keys : KeyDies(k)) \/ (\E g \in Gaps : NewEpoch(g))
               \/ (\E u \in UIDs, h \in Hotkeys : Reregister(u, h)) \/ UNCHANGED vars
      <3>1. UNCHANGED <<log, mem, weights, hotkeys, pc>>
        BY <2>3 DEF KeyDies, NewEpoch, Reregister, backend, vars
      <3>2. QED
        BY <3>1 DEF WeightsInv, WeightsAreEarned, HotkeyOf, Successes
    <2>4. ASSUME pc # "submit", weights' = weights PROVE WeightsInv'
      BY <2>1, <2>4 DEF WeightsInv
    <2>5. CASE Relay \/ AskDone \/ (\E dead, expired : FinishPoll(dead, expired))
               \/ PollNotDue \/ FetchFails \/ (\E n : FetchReports(n))
               \/ (\E start, len : PollRoll(start, len))
               \/ SaveState \/ SaveFails \/ SyncNotDue \/ ResyncMetagraph \/ Boot
      <3>1. pc # "submit" /\ weights' = weights
        BY <2>5 DEF Relay, RelayKeys, RelayAnswerLost, AskDone, FinishPoll, PollNotDue, FetchFails,
                    FetchReports, PollRoll, SaveState, SaveFails, SyncNotDue,
                    ResyncMetagraph, Boot
      <3>2. QED
        BY <2>4, <3>1
    <2>6. ASSUME NEW start \in EpochReads, NEW len \in LengthReads, SetWeights(start, len)
          PROVE  WeightsInv'
      <3> DEFINE r == RollEpochIfNeeded(mem, start, len)
      <3>1. /\ mem' = ScoreLastEpoch(r) /\ weights' = BackedScores(mem', hotkeys)
            /\ UNCHANGED <<log, hotkeys>> /\ pc' = "submit"
        BY <2>6 DEF SetWeights, backend
      <3>2. start \in Nat \cup {None} /\ mem \in ValidatorState
        BY DEF EpochReads, TypeOK
      <3>3. r \in ValidatorState
        BY <3>2, RollShrinks
      <3> HIDE DEF r
      <3>4. ASSUME NEW u \in UIDs, weights'[u] # {}
            PROVE  /\ weights'[u] \subseteq mem'.paid
                   /\ \A i \in weights'[u] : /\ HotkeyOf(i) = hotkeys[u]
                                              /\ mem'.keys[log[i].key] # "dead"
                   /\ Successes(weights'[u]) # {}
                   /\ mem'.status[hotkeys[u]].uid = u
        <4>1. Earned(mem', mem'.scores[u], u)
          BY <3>1, <3>3, ScoresAreEarned
        <4>2. HasLLMKeyEvidence(mem', hotkeys, u) /\ weights'[u] = mem'.scores[u]
          BY <3>1, <3>4 DEF BackedScores
        <4>3. mem'.status[hotkeys[u]].uid = u
          BY <4>2 DEF HasLLMKeyEvidence
        <4>4. QED
          BY <3>4, <4>1, <4>2, <4>3 DEF Earned
      <3>5. WeightsAreEarned'
        BY <3>1, <3>4 DEF WeightsAreEarned, HotkeyOf, Successes
      <3>6. QED
        BY <3>1, <3>5 DEF WeightsInv
    <2>7. CASE WeightsAccepted \/ WeightsFail \/ Crash
      <3>1. weights' = NoWeights
        BY <2>7 DEF WeightsAccepted, WeightsFail, Crash
      <3>2. QED
        BY <2>1, <3>1
    <2>8. QED
      BY <2>2, <2>3, <2>5, <2>6, <2>7
         DEF Next, Environment, Poll, Sync, PollRoster, RosterFails
  <1>3. WeightsInv => WeightsAreEarned
    BY DEF WeightsInv
  <1>4. QED
    BY <1>1, <1>2, <1>3, TypeCorrect, CountsOnce, PTL DEF Spec


-----------------------------------------------------------------------------
(* A usage row is paid for in one epoch *)

SavesWork == "save" \notin Faults

\* With a save before every sync, what is in memory when weights are submitted
\* is on disk.
SavedInv == pc \notin {"save", "down"} => disk.cursor = mem.cursor

\* A row that was paid for was paid for in the epoch after the one it was folded
\* in, and is behind the cursor of the state file: a restart does not fetch it,
\* and fold it into a later epoch, again.
PaidInv ==
  \A i \in Rows : \A d \in paidIn[i] : Adjacent(foldedIn[i], d) /\ i <= disk.cursor

LEMMA AdjacentIsUnique ==
  ASSUME starts \subseteq Nat, NEW s, NEW d, NEW e, Adjacent(s, d), Adjacent(s, e)
  PROVE  d = e
  <1>1. /\ d \in Nat /\ e \in Nat /\ d \in starts /\ e \in starts /\ s < d /\ s < e
        /\ ~(d < e) /\ ~(e < d)
    BY DEF Adjacent
  <1>2. QED
    BY <1>1

\* A later epoch leaves two epochs in a row next to each other.
LEMMA AdjacentStays ==
  ASSUME TypeOK, ChainInv, NEW g \in Gaps, NewEpoch(g), NEW s, NEW t, Adjacent(s, t)
  PROVE  Adjacent(s, t)'
  <1>1. s \in starts /\ t \in starts /\ s < t /\ \A r \in starts : ~(s < r /\ r < t)
    BY DEF Adjacent
  <1>2. /\ starts' = starts \cup {chainStart + g}
        /\ g \in Nat /\ chainStart \in Nat /\ t \in Nat /\ t <= chainStart
    BY <1>1, EpochAssumption DEF NewEpoch, TypeOK, ChainInv
  <1>3. ~(chainStart + g < t)
    BY <1>2
  <1>4. QED
    BY <1>1, <1>2, <1>3 DEF Adjacent

\* With epochs that never run short and a state file that can be written, no row
\* is paid for in two epochs, whatever crashes, restarts, unreadable epochs and
\* failed submissions come between folding, saving and setting weights.
THEOREM PaidOnce ==
  ASSUME LongEpochs, SavesWork PROVE Spec => []PaidInOneEpoch
  <1> DEFINE Known == TypeOK /\ CountedOnce /\ EpochInv /\ WeightsAreEarned
             Inv == SavedInv /\ PaidInv
  <1>1. Init => Inv
    BY DEF Init, SavedInv, PaidInv
  <1>2. Known /\ Inv /\ [Next]_vars => Inv'
    <2> SUFFICES ASSUME Known, Inv, [Next]_vars PROVE Inv'
      OBVIOUS
    <2>0. /\ mem \in ValidatorState /\ disk \in ValidatorState /\ Len(log) \in Nat
          /\ mem.cursor \in Nat /\ disk.cursor \in Nat /\ MaxRows \in Nat
          /\ Len(log) <= MaxRows /\ fetched \in 0 .. Len(log) /\ starts \subseteq Nat
          /\ ChainInv /\ CursorInv /\ SavedInv /\ PaidInv
      BY Fields, BoundAssumption DEF TypeOK, EpochInv
    <2>1. ASSUME UNCHANGED <<starts, history>>, disk'.cursor \in Nat,
                 disk.cursor <= disk'.cursor
          PROVE  PaidInv'
      <3>1. \A i \in Rows : i <= disk.cursor => i <= disk'.cursor
        BY <2>0, <2>1 DEF Rows
      <3>2. QED
        BY <2>0, <2>1, <3>1 DEF PaidInv, Adjacent, history
    <2>2. ASSUME UNCHANGED <<starts, history, disk>>,
                 \/ pc' \in {"save", "down"}
                 \/ pc \notin {"save", "down"} /\ mem'.cursor = mem.cursor
          PROVE  Inv'
      <3>1. PaidInv'
        BY <2>0, <2>1, <2>2
      <3>2. QED
        BY <2>0, <2>2, <3>1 DEF SavedInv
    <2>3. CASE \/ (\E k \in Keys, kind \in Kinds : ReportUsage(k, kind))
               \/ (\E k \in Keys : KeyDies(k))
               \/ (\E u \in UIDs, h \in Hotkeys : Reregister(u, h)) \/ UNCHANGED vars
      <3>1. UNCHANGED <<starts, history, disk, mem, pc>>
        BY <2>3 DEF ReportUsage, KeyDies, Reregister, chain, history, vars
      <3>2. QED
        BY <2>0, <2>1, <3>1 DEF SavedInv
    <2>4. ASSUME NEW g \in Gaps, NewEpoch(g) PROVE Inv'
      <3>1. UNCHANGED <<history, disk, mem, pc>>
        BY <2>4 DEF NewEpoch
      <3>2. \A i \in Rows : \A d \in paidIn[i] : Adjacent(foldedIn[i], d)'
        <4> SUFFICES ASSUME NEW i \in Rows, NEW d \in paidIn[i]
                     PROVE  Adjacent(foldedIn[i], d)'
          OBVIOUS
        <4>1. \A s, t : Adjacent(s, t) => /\ s \in starts' /\ t \in starts' /\ s < t
                                          /\ \A r \in starts' : ~(s < r /\ r < t)
          BY <2>0, <2>4, AdjacentStays DEF Adjacent
        <4>2. QED
          BY <2>0, <3>1, <4>1 DEF PaidInv, Adjacent, history
      <3>3. QED
        BY <2>0, <3>1, <3>2 DEF SavedInv, PaidInv, history
    <2>5. CASE AskDone \/ PollNotDue \/ FetchFails \/ SyncNotDue \/ WeightsFail \/ Crash
               \/ (\E h, accepted : RelayAnswerLost(h, accepted))
      <3>1. UNCHANGED <<starts, history, disk>>
        BY <2>5 DEF AskDone, PollNotDue, FetchFails, SyncNotDue, WeightsFail, Crash,
                    RelayAnswerLost, chain, history
      <3>2. \/ pc' \in {"save", "down"}
            \/ pc \notin {"save", "down"} /\ mem' = mem
        BY <2>5 DEF AskDone, PollNotDue, FetchFails, SyncNotDue, WeightsFail, Crash,
                    RelayAnswerLost
      <3>3. QED
        BY <2>2, <3>1, <3>2
    <2>6. ASSUME NEW h \in Hotkeys, NEW stored, NEW accepted, RelayKeys(h, stored, accepted)
          PROVE  Inv'
      <3>1. mem'.cursor = mem.cursor
        BY <2>0, <2>6, RelayFields
      <3>2. QED
        BY <2>2, <2>6, <3>1 DEF RelayKeys, chain
    <2>7. ASSUME NEW start \in EpochReads, NEW len \in LengthReads,
                 PollRoll(start, len) \/ SetWeights(start, len)
          PROVE  Inv'
      <3> DEFINE r == RollEpochIfNeeded(mem, start, len)
      <3>1. start \in Nat \cup {None}
        BY DEF EpochReads, TypeOK
      <3>2. r \in ValidatorState /\ r.cursor = mem.cursor
        BY <2>0, <3>1, RollShrinks
      <3>3. /\ UNCHANGED <<starts, history, disk>> /\ pc \notin {"save", "down"}
            /\ mem' = r \/ mem' = ScoreLastEpoch(r)
        BY <2>7 DEF PollRoll, SetWeights, chain
      <3> HIDE DEF r
      <3>4. mem'.cursor = mem.cursor
        BY <3>2, <3>3, ScoreShrinks
      <3>5. QED
        BY <2>2, <3>3, <3>4
    <2>8. ASSUME NEW n \in mem.cursor .. Len(log), FetchReports(n) PROVE Inv'
      <3> DEFINE new == mem'.pending \ mem.pending
      <3>1. /\ UNCHANGED <<starts, disk, paidIn>> /\ mem' = FoldReports(mem, n)
            /\ foldedIn' = [i \in Rows |-> IF i \in new THEN mem.epochStart ELSE foldedIn[i]]
            /\ pc = "fetch"
        BY <2>8 DEF FetchReports, chain
      <3>2. n \in mem.cursor .. MaxRows
        BY <2>0
      <3>3. /\ mem'.cursor = mem.cursor
            /\ mem'.pending \subseteq mem.pending \cup Folded(mem, n)
            /\ Folded(mem, n) \subseteq (mem.cursor + 1) .. n
        <4>1. /\ FoldReports(mem, n).pending \subseteq mem.pending \cup Folded(mem, n)
              /\ Folded(mem, n) \subseteq (mem.cursor + 1) .. n
          BY <2>0, <3>2, FoldGrows
        <4>2. FoldReports(mem, n).cursor = mem.cursor
          BY <2>0, <3>2, FoldFields
        <4>3. QED
          BY <3>1, <4>1, <4>2
      <3>4. disk.cursor = mem.cursor
        BY <2>0, <3>1 DEF SavedInv
      <3>5. \A i \in Rows : i <= disk.cursor => i \notin new
        BY <2>0, <3>2, <3>3, <3>4 DEF Rows
      <3> HIDE DEF new
      <3>6. \A i \in Rows : i <= disk.cursor => foldedIn'[i] = foldedIn[i]
        BY <3>1, <3>5
      <3>7. PaidInv'
        BY <2>0, <3>1, <3>6 DEF PaidInv, Adjacent
      <3>8. QED
        BY <3>1, <3>3, <3>4, <3>7 DEF SavedInv
    <2>9. ASSUME NEW dead, NEW expired, FinishPoll(dead, expired) PROVE Inv'
      BY <2>2, <2>9 DEF FinishPoll, chain
    <2>10. CASE SaveState
      <3>1. /\ UNCHANGED <<starts, history, mem>> /\ disk' = mem /\ pc = "save"
        BY <2>10 DEF SaveState, chain
      <3>2. disk.cursor <= mem.cursor
        BY <2>0, <3>1 DEF CursorInv
      <3>3. PaidInv'
        BY <2>0, <2>1, <3>1, <3>2
      <3>4. QED
        BY <3>1, <3>3 DEF SavedInv
    <2>11. CASE SaveFails
      BY <2>11 DEF SaveFails, SavesWork
    <2>12. CASE ResyncMetagraph
      <3> DEFINE sc == [u \in UIDs |-> IF hotkeys[u] = chainHotkeys[u]
                                       THEN mem.scores[u] ELSE {}]
      <3>1. sc \in [UIDs -> SUBSET (Rows \cup {Legacy})] /\ mem' = [mem EXCEPT !.scores = sc]
        BY <2>0, <2>12, Fields DEF ResyncMetagraph
      <3>2. mem'.cursor = mem.cursor
        BY <2>0, <3>1, NewScores
      <3>3. QED
        BY <2>2, <2>12, <3>2 DEF ResyncMetagraph, chain
    <2>13. CASE WeightsAccepted
      <3>1. /\ UNCHANGED <<starts, mem, disk, foldedIn>> /\ pc = "submit" /\ pc' = "ask"
            /\ paidIn' = [i \in Rows |-> IF \E u \in UIDs : i \in weights[u]
                                         THEN paidIn[i] \cup {mem.epochStart} ELSE paidIn[i]]
        BY <2>13 DEF WeightsAccepted, chain
      <3>2. ASSUME NEW i \in Rows, NEW u \in UIDs, i \in weights[u]
            PROVE  Adjacent(foldedIn[i], mem.epochStart) /\ i <= disk.cursor
        <4>1. i \in mem.paid
          BY <3>2 DEF WeightsAreEarned
        <4>2. i \in 1 .. mem.cursor /\ disk.cursor = mem.cursor
          BY <2>0, <3>1, <4>1 DEF CountedOnce, CountedOnceIn, Delivered, SavedInv
        <4>3. QED
          BY <2>0, <4>1, <4>2 DEF EpochInv, PaysPrecedingEpoch, PaysPrecedingIn
      <3>3. PaidInv'
        BY <2>0, <3>1, <3>2 DEF PaidInv, Adjacent
      <3>4. QED
        BY <2>0, <3>1, <3>3 DEF SavedInv
    <2>14. CASE Boot
      <3>1. /\ UNCHANGED <<starts, history, disk>> /\ mem'.cursor = disk.cursor
        BY <2>0, <2>14, NewScores, BackedScoresType DEF Boot, LoadState, chain
      <3>2. QED
        BY <2>0, <2>1, <3>1 DEF SavedInv
    <2>15. QED
      BY <2>3, <2>4, <2>5, <2>6, <2>7, <2>8, <2>9, <2>10, <2>11, <2>12, <2>13, <2>14
         DEF Next, Environment, Relay, Poll, Sync, PollRoster, RosterFails
  <1>3. Known /\ Inv => PaidInOneEpoch
    <2>1. TypeOK => starts \subseteq Nat
      BY DEF TypeOK
    <2>2. QED
      BY <2>1, AdjacentIsUnique DEF PaidInv, PaidInOneEpoch
  <1>4. QED
    BY <1>1, <1>2, <1>3, TypeCorrect, CountsOnce, EpochsAreRight, OnlyEarnedWeights, PTL
       DEF Spec


-----------------------------------------------------------------------------
(* Moving to the next epoch loses no work *)

\* No epoch is longer than one and a half times tempo + 1, and the tempo can be
\* read: _is_contiguous then takes the next epoch for the next one.
EpochsAreReadable ==
  /\ \A g \in Gaps : 2 * g <= 3 * EpochLength
  /\ "tempo" \notin Faults

\* The chain ran its epochs one after the other, with the lengths it may give
\* them.
GapInv ==
  /\ \A s \in starts : s <= chainStart
  /\ \A s, t \in starts : Adjacent(s, t) => t - s \in Gaps

LEMMA GapsHold == Spec => []GapInv
  <1>1. Init => GapInv
    BY DEF Init, GapInv, Adjacent
  <1>2. TypeOK /\ GapInv /\ [Next]_vars => GapInv'
    <2> SUFFICES ASSUME TypeOK, GapInv, [Next]_vars PROVE GapInv'
      OBVIOUS
    <2>1. ASSUME UNCHANGED <<starts, chainStart>> PROVE GapInv'
      BY <2>1 DEF GapInv, Adjacent
    <2>2. ASSUME NEW g \in Gaps, NewEpoch(g) PROVE GapInv'
      <3>1. /\ chainStart' = chainStart + g /\ starts' = starts \cup {chainStart + g}
            /\ g \in Nat /\ g > 0 /\ starts \subseteq Nat /\ chainStart \in starts
        BY <2>2, EpochAssumption DEF NewEpoch, TypeOK
      <3>2. \A s \in starts : s \in Nat /\ s <= chainStart /\ s < chainStart + g
        BY <3>1 DEF GapInv
      <3>3. \A s \in starts' : s <= chainStart'
        BY <3>1, <3>2
      <3>4. ASSUME NEW s \in starts', NEW t \in starts', s < t,
                   \A r \in starts' : ~(s < r /\ r < t)
            PROVE  t - s \in Gaps
        <4>1. s \in starts
          BY <3>1, <3>2, <3>4
        <4>2. CASE t \in starts
          BY <3>1, <3>4, <4>1, <4>2 DEF GapInv, Adjacent
        <4>3. CASE t = chainStart + g
          <5>1. ~(s < chainStart)
            BY <3>1, <3>2, <3>4, <4>3
          <5>2. s = chainStart
            BY <3>1, <3>2, <4>1, <5>1
          <5>3. QED
            BY <3>1, <4>3, <5>2
        <4>4. QED
          BY <3>1, <4>2, <4>3
      <3>5. QED
        BY <3>3, <3>4 DEF GapInv, Adjacent
    <2>3. CASE \E g \in Gaps : NewEpoch(g)
      BY <2>2, <2>3
    <2>4. CASE Environment /\ ~\E g \in Gaps : NewEpoch(g)
      BY <2>1, <2>4 DEF Environment, ReportUsage, KeyDies, Reregister, chain
    <2>5. CASE Relay \/ AskDone \/ Poll \/ SaveState \/ SaveFails \/ Sync \/ Crash \/ Boot
      <3>1. UNCHANGED chain
        BY <2>5 DEF Relay, RelayKeys, RelayAnswerLost, AskDone, Poll, PollNotDue, PollRoll,
                    FetchReports, FetchFails, PollRoster, RosterFails, FinishPoll, SaveState,
                    SaveFails, Sync, SyncNotDue, ResyncMetagraph, SetWeights,
                    WeightsAccepted, WeightsFail, Crash, Boot
      <3>2. QED
        BY <2>1, <3>1 DEF chain
    <2>6. CASE UNCHANGED vars
      BY <2>1, <2>6 DEF vars, chain
    <2>7. QED
      BY <2>3, <2>4, <2>5, <2>6 DEF Next
  <1>3. QED
    BY <1>1, <1>2, TypeCorrect, PTL DEF Spec

\* What m collected is in n's windows, or its key is dead in n.
WorkKept(m, n) ==
  \A i \in m.pending : i \in n.pending \cup n.paid \/ n.keys[log[i].key] = "dead"

\* Rolling to the very next epoch pays everything collected but the junk keys'
\* rows.
LEMMA RollKeepsWork ==
  ASSUME EpochsAreReadable, TypeOK, GapInv, NEW m \in ValidatorState,
         \A i \in m.pending : log[i].key \in Keys,
         NEW start \in EpochReads, NEW len \in LengthReads, NEW r,
         r = RollEpochIfNeeded(m, start, len), Adjacent(m.epochStart, r.epochStart)
  PROVE  WorkKept(m, r)
  <1>1. /\ starts \subseteq Nat /\ len = EpochLength /\ EpochLength \in Nat
        /\ EpochLength # None /\ Gaps \subseteq Nat
    BY NoneAssumption, EpochAssumption DEF TypeOK, LengthReads, EpochsAreReadable
  <1>2. start \in Nat \cup {None}
    BY <1>1 DEF EpochReads, TypeOK
  <1>3. Keeps(m, r, start, len) \/ \E K \in SUBSET Keys : Closes(m, r, start, len, K)
    BY <1>2, RollCases
  <1>4. CASE Keeps(m, r, start, len)
    BY <1>4 DEF Keeps, WorkKept
  <1>5. ASSUME NEW K \in SUBSET Keys, Closes(m, r, start, len, K) PROVE WorkKept(m, r)
    <2>1. /\ r.epochStart = start
          /\ r.paid = IF Contiguous(m.epochStart, start, len)
                      THEN {i \in m.pending : log[i].key \notin K} ELSE {}
          /\ r.keys = [k \in Keys |-> IF k \in K THEN "dead" ELSE m.keys[k]]
      BY <1>5 DEF Closes
    <2>2. /\ m.epochStart \in Nat /\ start \in Nat /\ m.epochStart < start
          /\ start - m.epochStart \in Gaps
      BY <1>1, <2>1 DEF Adjacent, GapInv
    <2>3. 2 * (start - m.epochStart) <= 3 * len
      BY <1>1, <2>2 DEF EpochsAreReadable
    <2>4. Contiguous(m.epochStart, start, len)
      BY <1>1, <2>2, <2>3, NoneAssumption DEF Contiguous
    <2>5. r.paid = {i \in m.pending : log[i].key \notin K}
      BY <2>1, <2>4
    <2>6. \A i \in m.pending : log[i].key \in K => r.keys[log[i].key] = "dead"
      BY <2>1
    <2>7. QED
      BY <2>5, <2>6 DEF WorkKept
  <1>6. QED
    BY <1>3, <1>4, <1>5

\* When the running validator moves from one epoch to the very next, no row it
\* collected is lost unless its key was killed, as long as the tempo can be read
\* and no epoch runs over one and a half lengths: the boundary of the finding
\* about the unreadable tempo.
THEOREM EpochChangeKeeps ==
  ASSUME EpochsAreReadable PROVE Spec => EpochChangeKeepsWork
  <1> DEFINE Moves == pc # "down" /\ pc' # "down" /\ Adjacent(mem.epochStart, mem'.epochStart)
             Kept == \A i \in mem.pending : i \in mem'.pending \cup mem'.paid
                                            \/ mem'.keys[log[i].key] = "dead"
  <1>1. TypeOK /\ CountedOnce /\ GapInv /\ [Next]_vars => [Moves => Kept]_vars
    <2> SUFFICES ASSUME TypeOK, CountedOnce, GapInv, Next, Moves PROVE Kept
      OBVIOUS
    <2>0. /\ mem \in ValidatorState /\ starts \subseteq Nat /\ Len(log) \in Nat
          /\ fetched \in 0 .. MaxRows
          /\ \A i \in mem.pending \cup mem.paid : log[i].key \in Keys
      BY WindowRows, RowKeys, BoundAssumption DEF TypeOK
    <2>1. ASSUME mem'.epochStart = mem.epochStart PROVE FALSE
      <3>1. mem.epochStart \in Nat /\ mem.epochStart < mem.epochStart
        BY <2>0, <2>1 DEF Adjacent
      <3>2. QED
        BY <3>1
    <2>2. CASE Environment \/ AskDone \/ SaveState \/ SaveFails
      <3>1. mem' = mem
        BY <2>2 DEF Environment, ReportUsage, KeyDies, NewEpoch, Reregister, AskDone,
                    SaveState, SaveFails
      <3>2. QED
        BY <2>1, <3>1
    <2>3. CASE Relay
      BY <2>0, <2>1, <2>3, RelayFields DEF Relay, RelayAnswerLost
    <2>4. CASE PollNotDue \/ FetchFails \/ SyncNotDue \/ WeightsAccepted \/ WeightsFail
      BY <2>1, <2>4 DEF PollNotDue, FetchFails, SyncNotDue, WeightsAccepted, WeightsFail
    <2>5. ASSUME NEW start \in EpochReads, NEW len \in LengthReads, PollRoll(start, len)
          PROVE  Kept
      <3>1. mem' = RollEpochIfNeeded(mem, start, len)
        BY <2>5 DEF PollRoll
      <3>2. WorkKept(mem, mem')
        BY <2>0, <3>1, RollKeepsWork
      <3>3. QED
        BY <3>2 DEF WorkKept
    <2>6. ASSUME NEW n \in mem.cursor .. Len(log), FetchReports(n) PROVE Kept
      <3>1. n \in mem.cursor .. MaxRows
        BY <2>0, Fields, BoundAssumption DEF TypeOK
      <3>2. mem'.epochStart = mem.epochStart
        BY <2>0, <2>6, <3>1, FoldFields DEF FetchReports
      <3>3. QED
        BY <2>1, <3>2
    <2>7. ASSUME NEW dead, NEW expired, FinishPoll(dead, expired) PROVE Kept
      BY <2>0, <2>1, <2>7, FinishShrinks
    <2>8. CASE ResyncMetagraph
      <3> DEFINE sc == [u \in UIDs |-> IF hotkeys[u] = chainHotkeys[u]
                                       THEN mem.scores[u] ELSE {}]
      <3>1. sc \in [UIDs -> SUBSET (Rows \cup {Legacy})] /\ mem' = [mem EXCEPT !.scores = sc]
        BY <2>0, <2>8, Fields DEF ResyncMetagraph
      <3>2. QED
        BY <2>0, <2>1, <3>1, NewScores
    <2>9. ASSUME NEW start \in EpochReads, NEW len \in LengthReads, SetWeights(start, len)
          PROVE  Kept
      <3> DEFINE r == RollEpochIfNeeded(mem, start, len)
      <3>1. start \in Nat \cup {None}
        BY DEF EpochReads, TypeOK
      <3>2. r \in ValidatorState /\ Shrinks(mem, r)
        BY <2>0, <3>1, RollShrinks
      <3>3. mem' = ScoreLastEpoch(r)
        BY <2>9 DEF SetWeights
      <3>4. Adjacent(mem.epochStart, r.epochStart)
        BY <3>2, <3>3, ScoreShrinks
      <3>5. WorkKept(mem, r)
        BY <2>0, <3>4, RollKeepsWork
      <3> HIDE DEF r
      <3>6. PICK K \in SUBSET Keys : Killed(r, mem', K)
        BY <3>2, <3>3, ScoreKills
      <3>7. QED
        BY <2>0, <3>5, <3>6 DEF WorkKept, Killed
    <2>10. CASE Crash \/ Boot
      BY <2>10 DEF Crash, Boot
    <2>11. QED
      BY <2>2, <2>3, <2>4, <2>5, <2>6, <2>7, <2>8, <2>9, <2>10
         DEF Next, Poll, Sync, PollRoster, RosterFails
  <1>2. QED
    BY <1>1, TypeCorrect, CountsOnce, GapsHold, PTL DEF Spec, EpochChangeKeepsWork

=============================================================================
