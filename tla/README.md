# TLA+ models and proofs for taostatus-subnet

This directory holds a verification project for the subnet's validators: TLA+
modules translated from the Python source, TLC configurations that model-check
them on small instances, and proofs, checked by TLAPS, of the properties that
matter most for every value of the constants. Paths below are relative to the
repository's root. `PROJECT.json` lists every run, theorem and finding, and maps
every definition to the source lines it stands for.

Both payment mechanisms are modelled, from what a miner sends to the weights that
reach the chain:

| Module | Models | Kind |
|---|---|---|
| `LLMKeyValidator` | `neurons/validator.py` with the base loop of `template/base/validator.py`, the chain and the backend around it | state machine |
| `SubmissionService` | `secqurityVali/pipeline.py`, `db.py`, `api.py`, with the Docker daemon under them | state machine |
| `AgentLedger` | what the intake promises its callers | abstract specification |
| `SecurityRound` | `neurons/security_validator.py` with the base loop, `secqurityVali/category_scores.py` and the publishing to `masxai/marketplace_client.py` | state machine |
| `WeightEmission` | `set_weights` of `template/base/validator.py` and `template/base/utils/weight_utils.py` | operators |
| `AgentEvaluation` | `neurons/security_miner.py`, the blob path and the isolated job: `secqurityVali/job.py`, `replay.py` | state machine |
| `EvaluationScore` | the target, the report, the behaviour verdict, the grade and the reward (`secqurityVali/eval/`, `targets/`, `behavior.py`, `reward.py`) | operators |
| `LLMKeyValidatorProofs`, `SecurityRoundProofs`, `WeightEmissionProofs`, `AgentEvaluationProofs` | - | theorems about the module they are named after |
| `SubmissionServiceProofs`, `SubmissionJobsProofs`, `SubmissionOwnershipProofs` | - | theorems about `SubmissionService`: the tables; the queue and the refinement; owners, blame and the daemon |
| `MCLLMKeyValidator`, `MCSubmissionService`, `MCSecurityRound`, `MCAgentEvaluation` | - | TLC instances |

`SecurityRound` extends `WeightEmission` and submits through it; `AgentEvaluation`
extends `EvaluationScore` and grades with it; `SubmissionService` implements
`AgentLedger`. The intake and the isolated run are each one await of
`SecurityRound` and have a module of their own: what `check_and_record` decides is
one step of `AgentEvaluation`, and what an evaluation comes to is one step of
`SecurityRound` (a reward with a category, a reward or a refusal without one, or an
exception).

## 1. The system

The subnet pays miners through two mechanisms. In mechanism 0 miners contribute
LLM API keys; validators relay the keys to a protocol backend, poll it for usage
rows, and pay each hotkey for the calls its keys answered in the last chain
epoch. In mechanism 1 miners submit security agents as container images;
validators check the image, evaluate the agent in an isolated job and pay by
score.

### Components

| Component | State it keeps | Operations | What makes it correct |
|---|---|---|---|
| LLM-key validator (`neurons/validator.py`) | two accounting windows (collecting, being paid), the recorded epoch, the report cursor, per-hotkey status, per-key state, scores; all in one state file | relay keys, poll reports, poll the roster, roll the epoch, score, prune, set weights, save, load | a row is counted once, paid in one epoch, for the epoch right before; dead keys earn nothing; no weight without evidence |
| Base neuron loop and weights (`template/base/`) | metagraph copy, step, scores | run, sync, resync, set_weights, burn allocation | a uid that changes hands loses its predecessor's score; weights sum to the emission |
| Protocol backend and client (`masxai/llm_key_client.py`) | (remote) usage log, key roster | submit_keys, get_reports, get_key_roster, retries | a retried call is harmless |
| LLM-key scoring (`masxai/scoring.py`) | none | reliability, quality and latency factors, reward | monotone, bounded, zero below the floors |
| LLM-key miner (`neurons/miner.py`) | its configured keys | answer a key request, encrypted | each answer stands alone |
| Security miner (`neurons/security_miner.py`) | the saved image, one encrypted blob per validator key | answer an agent request, serve blobs | the blob it names opens with the key of the validator that asked |
| Base miner loop (`template/base/miner.py`) | block counter, stop flag | serve, sync | - |
| Security validator round (`neurons/security_validator.py`) | a matrix of scores by hotkey and category, scores, listed agents, two files | query miners, evaluate, recompute, publish, save | a score belongs to the hotkey that earned it; idle miners stop earning; a restart loses nothing between rounds |
| Marketplace publishing (`masxai/marketplace_client.py`) | (remote) agent records | push agent records | only an agent that reached the entry score is listed |
| Submission pipeline (`secqurityVali/pipeline.py`, `docker_ops.py`, `registry.py`, `dry_run.py`) | images loaded in the daemon, the locals of each check | stages FILE, STRUCTURE, LOAD, INSPECT, DRY_RUN; duplicate lookups; cleanup; record | a verdict blames an image only for its own flaws (it does not always: section 8); nothing stays in the daemon |
| Submission database, queue and API (`secqurityVali/db.py`, `api.py`) | tables submissions, agents, jobs | record, register, create, claim, finish, requeue | an agent has one owner, its first submitter; a job is settled, once, with its own verdict |
| File and archive checks (`secqurityVali/file_checks.py`, `structure.py`) | none | check bytes on disk | - |
| Isolated evaluation job (`secqurityVali/job.py`, `behavior.py`, `replay.py`, `eval/`) | network, containers, directories of one job | create, run, replay, score, tear down | every prefix of a failed set-up is torn down; a reward is proven; our own faults are not scored |
| Evaluation target (`secqurityVali/targets/`) | a seeded database | serve a web application | - |
| Discord notifications, wire protocol, configuration, template helpers, operator scripts | none that others read | - | - |

### How they interact

- The LLM-key validator is one process with one event loop. Between two awaits of
  `forward()` the chain moves to another epoch, a uid changes hands, the backend
  logs rows. The process may die anywhere, and comes back from the state file
  of the last `save_masxai_state()`.
- The base class calls `forward()` and then `sync()` in a loop. `sync()` may
  replace the metagraph and call `set_weights()`, which rolls the epoch itself.
- The API server's worker thread, the command line (`neurons/security_vali.py`)
  and the security validator's evaluation thread all call `check_and_record`.
  They are separate processes that share one SQLite file (the same default path)
  and one Docker daemon.
- The security validator's background round and the base loop share `self.scores`
  and the metagraph. Both run on one thread: the loop's `sync()` comes between two
  steps of the round exactly where the round awaits.
- The security validator asks a miner for its agent with its public key; the miner
  answers with the URL and hash of a blob it sealed for that key; the validator
  downloads, opens, checks and runs it, in a thread, against a target it seeds with
  a fresh canary.

### What is hard to test here

`PROJECT.json` lists each hazard at its line. In short: crashes between folding
a page, saving, and submitting weights; the two boundary constants (0.5 and 1.5
epoch lengths) that tell a sliver, a following epoch and a skipped one apart; one
of two chain reads failing; kills and revivals in one page; hotkeys that move
between uids while scores and evidence lag behind; in the intake, check-then-act
over minutes of container work, two commits where one is meant, a daemon shared
by checkers that remove each other's images, requeueing of jobs that are not
dead, and error handlers that fail like the code they protect. In the round: the
metagraph that changes under an await, three writers of one score array, agents that
are marked listed before they are pushed. In the evaluation: a teardown that must hold
after every prefix of a failed set-up, exit codes nobody reads, an agent that may
hang, lie or misbehave, keys and caches on both sides that do not survive the same
restarts.

## 2. Plan

Done: both mechanisms, and what they share.

1. `LLMKeyValidator`, its runs, and its theorems. *Done.*
2. `SubmissionService` and the abstract `AgentLedger` it implements, with runs and
   theorems, the refinement among them. *Done.*
3. `WeightEmission` and `SecurityRound`: the background round against the base loop,
   listing and publishing, and the weights it ends in, with theorems about both.
   *Done.*
4. `EvaluationScore` and `AgentEvaluation`: blobs and keys, the job's Docker resources
   with a failure at every call, the grade, with theorems. *Done.*
5. Every invariant and every property of steps that a passing run checks, as a
   theorem. *Done; liveness stays with TLC (section 7).*

Left, in this order:

6. `Scoring`: the reward arithmetic of `masxai/scoring.py`, in scaled integers, checked
   for monotonicity and bounds.
7. `KeySubmission`: the LLM miner's answer, the validator's checks of it, and the
   client's retry loop.

## 3. `LLMKeyValidator`

### State and actions

| Model | Code |
|---|---|
| `mem` (record `ValidatorState`) | what `save_masxai_state` persists: `pending` is `llm_key_pending_calls`, `paid` `llm_key_last_epoch_calls`, `epochStart` `llm_key_epoch_start_block`, `cursor` `last_llm_key_report_cursor`, `status` and `keys` `llm_key_hotkey_status`, `scores` `self.scores` |
| `disk` | the state file |
| `hotkeys` | `metagraph.hotkeys` as last synced |
| `pc` | where `run()` is: `ask`, `poll`, `fetch`, `roster`, `save`, `sync`, `weights`, `submit`, or `down` |
| `fetched`, `weights` | `next_since` of the page at hand; the array on its way to the chain |
| `log`, `rosterDead`, `starts`, `chainStart`, `chainHotkeys` | the backend and the chain (environment) |
| `foldedIn`, `paidIn` | history: the epoch a row was folded in, the epochs it was paid in |

`RelayKeys` and `RelayAnswerLost` are `llm_key_submission_round`; `PollNotDue`,
`PollRoll`, `FetchReports`, `FetchFails`, `PollRoster` and `RosterFails` are
`llm_key_report_poll_round` cut at its awaits; `SaveState` and `SaveFails` are
`save_masxai_state`; `SyncNotDue`, `ResyncMetagraph`, `SetWeights`,
`WeightsAccepted` and `WeightsFail` are `sync()`; `Crash` and `Boot` are the
process. `ReportUsage`, `KeyDies`, `NewEpoch` and `Reregister` are the backend and
the chain.

### Abstractions

- A usage row is its position in the backend's log; a window is the *set* of rows
  folded into it. The code's counters are cardinalities of that set, so a double
  count is visible as a row in two places, which counters would hide.
- A score is the set of rows it was computed from; `{}` is 0.0. How large a
  positive reward is, is left to `Scoring`; whether it is zero is modelled with both
  hard floors, per key and per pool. `ReliabilityFloorPct` is positive, as in
  `masxai/constants.py`. A failed call is never graded.
- Interval gates, the grace period of a missing hotkey and the page size are
  nondeterministic, so every timing is covered. A client that is not configured is
  rounds that are never due. A `forward()` that raises before it changes anything
  is a step not taken.
- A page with rows is assumed to carry a `next_since`.
- The file is replaced atomically (`os.replace`), so a torn file is not modelled.
- The metagraph keeps its size. `num_concurrent_forwards` forwards are serialised by
  the round lock and appear as one.
- `participation_scores`, tiers, latency, Discord and logs are left out: nothing
  modelled reads them.

Two behaviours met on the way are deliberate in the model. Eviction drops a
hotkey's collecting window and not its paid one, as the code does. After a failed
save and a crash, a row already paid can be folded again from an older file and
paid in the next epoch; `PaidInOneEpoch` is therefore checked with saves that
succeed.

### Runs

| Run | Checks | Instance |
|---|---|---|
| `windows` | `TypeOK`, `CountedOnce`, `PaysPrecedingEpoch`, `PaidInOneEpoch`, `DeadKeysHoldNoSuccess`, `WeightsAreEarned`, `EpochChangeKeepsWork` | a uid, two hotkeys that may hold it, two sibling keys of one of them, two rows that succeed or kill, three epochs; failed polls, relays and submissions, crashes |
| `progress` | `RowsAreConsumed`, `EpochIsFollowed`, `DeadKeysStopEarning`, `EpochChangeKeepsWork` | under `FairSpec`: one key, epochs of three quarters of the length, rows of four kinds; every call and every save may fail now and then, and crashes |
| `tempo_fault` | `EpochChangeKeepsWork` is violated | the tempo read fails alone |

What they show. `windows`: around crashes and failed polls the two
windows, the cursor and the recorded epoch never disagree in a way that counts or pays
a row twice, and no epoch change loses one; whichever route kills a key, and however
it comes back, its good rows leave both windows and its sibling is still paid only on
its own; a uid that changes hands, during a run or across a restart, never passes its
predecessor's pay on. `progress`: the loop gets everywhere it must, and epochs the
owner triggers early are closed without losing rows, also when saves fail or the epoch
cannot be read. The violation
is finding 1.

Bounds. `EpochLength` is 4 because 4 is the smallest length at which a quarter, a
half, three quarters, one and one and a half lengths are all whole blocks, so every
side of the 0.5 and 1.5 boundaries can occur. Two rows are enough for a kill and a
success before or after it, and for `MinCalls` = `MinGraded` = 2 to be missed and met; in
`progress` both are 1, so that one row already meets the hard floors, and a bad one
fails them. `MaxBlock` = 9 gives the three epochs of a fold, its payment and a second
payment that would be wrong. One uid with two hotkeys is a uid that changes hands; that a
hotkey which *moves* between uids takes nothing to the wrong one is the theorem
`OnlyEarnedWeights`, for every metagraph. Failed saves are not in `windows`, because
`PaidInOneEpoch` does not survive one followed by a crash (section 8); that a row is
still counted once then is the theorem `CountsOnce`. Deadlock is checked in all of
these runs: the validator's loop never stops.

Fairness (`progress`). `run()` loops for ever, and catches what a forward or a sync
raises and retries: weak fairness of each loop step. A process that died is started
again by its operator: weak fairness of `Boot`; the repository has no supervisor for
this validator, so this is an assumption about its deployment. The interval gates
open again and again, and a call that is retried for ever succeeds in the end:
strong fairness of the successful chain read, report page and roster poll. Crashes
stop: otherwise each could come before the save. Nothing is assumed of the
environment.

## 4. `SubmissionService` and `AgentLedger`

### State and actions

| Model | Code |
|---|---|
| `submissions`, `agents`, `jobs` | the three tables of `secqurityVali/db.py`; a submissions row is its index |
| `images` | images the Docker daemon holds |
| `chk[c]` | one checker: its place in `check_and_record` and the locals it holds |

A checker is a thread that runs `check_and_record`: `Workers` are API servers with
their worker thread (`api.py`), `Direct` the command line and the security
validator's evaluation thread. `CheckFile`, `LoadImage`, `LoadUnresolved`,
`InspectImage` and `DryRun` are the stages of `check_submission` and
`check_registry_submission` with the two duplicate lookups; `StageFault` and
`CallFails` their failures for reasons that are not in the package; `Cleanup` and
`CleanupFails` the `finally` clause; `RecordVerdict`, `RegisterAgent` and
`RecordFails` the two commits of `check_and_record`. `CreateJob`, `ClaimSelect`,
`ClaimUpdate`, `FinishJob`, `FailJob`, `Boot` and `WorkerWriteFails` are the queue.
`Begin` is a direct submission, `Crash` the death of a checker's process. Servers are
down in the beginning: each is started by `Boot`, which requeues every running job, the
first time and after every death.

`StageFault` is what the code counts as its own failure (`VALIDATOR_FAULT_REASONS`): a
daemon that says it is down, and an exception. `CallFails` is every other failure of a
call: `docker load`, `pull`, `inspect`, `create`, `start` or `wait` fails or runs out of
time, or the registry is out of reach or refuses the validator's credentials
(`dry_run.py:120-127` and `198-207`, `docker_ops.py:147-171`, `registry.py:86-92` and
`213-224`). The code rejects the image for it, sound or not, and so does the model.
`Faults` names the failures a run or a theorem admits:

| Fault | Actions | In the code |
|---|---|---|
| `stage` | `StageFault` | a recognised outage, or an exception in a stage |
| `call` | `CallFails` | any other failing call |
| `digest` | `LoadUnresolved` | the image is there and cannot be named |
| `rm` | `CleanupFails` | `docker image rm` fails |
| `db` | `RecordFails`, `WorkerWriteFails` | a write raises |
| `crash` | `Crash` | a process dies |
| `overlap` | `Boot` beside a busy worker | a server is started while another one works |

Without `overlap` a server starts only while no other worker is busy, which is how one
server in `secqurityVali/deploy/docker-compose.yml`, or any number that are started
before the first job, behaves. Nothing in the code enforces it (finding 3).

`AgentLedger` says what a caller may rely on: attempts are only appended, an
agent is given once, to a miner who was accepted with it, and stays with that
miner, a posted job is settled once and by an attempt no other job has. The
refinement mapping reads an agent's owner through the row it names, merges
`queued` and `running` into `pending`, and is checked as `ImplementsLedger`.

### Abstractions

- A package is the exact bytes of a tarball, or a registry reference. `AgentOf`
  gives its agent digest, `Flaw` the first gate it fails. The flaw "file" is seen
  only by the tarball door. Two packages may hold the same agent.
- An image is kept in the daemon under its package, so checkers interfere with each
  other only over the same package.
- `docker inspect` and the agents lookup are one step: the first reads only the
  daemon, the second only the tables. The dry run is one step: its container is created
  and removed inside it. `keep_image` is left out.
- A write that fails, fails at `execute`; a commit that fails and leaves its
  transaction open is not modelled. Deduplication is always on, as in every caller.
- The flaw "structure" of a registry reference is one the registry reports of it: not
  found, refused, declared too large. A registry that is down is `CallFails`.
- A container that a timed-out `docker create` left behind is not modelled.
- `job` in a submissions row is a history field: the job a row was recorded for.
- The schema migration, read-only endpoints and request parsing are left out.

### Runs

| Run | Checks | Instance |
|---|---|---|
| `intake_serial` | `OneAcceptedOwner`, `FirstAcceptedOwns`, `NothingPersists` | one checker, both doors, all flaws, outages and failing calls |
| `intake_restarts` | `TypeOK`, `JobHeldOnce`, `RowsComeInTime`, `ImplementsLedger` | two servers that die, come back and fail to write, two jobs |
| `intake_progress` | `DoneJobsHaveTheirVerdict`, `AgentsAreBacked`, `ReplaysAreGrounded`, `DuplicatesNameAnOwner`, `ImplementsLedger`, `JobsAreSettled` | under `FairSpec`: one worker that dies and comes back, beside a direct checker, both doors, one agent; outages, crashes |
| `intake_race` | `OneAcceptedOwner` is violated | two checkers at once |
| `second_server` | `JobHeldOnce` is violated | two servers, the second started while the first works, no failure |

What they show. `intake_serial`: checked one at a time and without crashes, an
agent is accepted from one miner only and belongs to its first submitter, and the daemon
is left clean. `intake_restarts`: if starts do not overlap with work, the claim's re-check
keeps two workers off one job, deaths and requeueing leave each job with one worker, no
worker records a verdict for a job that was settled or taken from it, and a caller sees
the ledger. `intake_progress`: what survives concurrency and crashes, namely that every
pointer between the tables stays justified (an agent's row, a replay's origin, a
duplicate's owner), and that requeueing settles every job, with a verdict of its own. The
violations show where two promises end: one owner of an agent does not survive two
checkers (`intake_race`, finding 2), and one worker of a job does not survive a second
server that starts beside a working one (`second_server`, finding 3). No passing run asks
whether rejections are deserved, because the code does not see to it (section 8); what
holds of it, one check at a time with recognised outages only, is the theorem
`RejectionsDeserved`. Nor does one ask whether a job is checked once, which a death in
the wrong place ends; the theorem `JobsCheckedOnce` says when it holds.

Bounds. Three rows are the smallest history with an original, a copy and a replay of
either; two miners tell owner from stranger; two packages of one agent (`intake_serial`)
separate the lookup by bytes from the lookup by digest, and so do the two doors of one
package; two checkers and two workers are all a
race needs. `Reserved` keeps `MaxRows` from blocking a check that has begun: a
submission is accepted by the model only if its row still fits. Deadlock is not
checked in any of these runs, because the number of submissions is bounded and the service
rests once they are settled.

Fairness (`intake_progress`). The worker's thread keeps
running, every Docker call has a timeout, a dead server is restarted
(`secqurityVali/deploy/docker-compose.yml` says `restart: unless-stopped`), crashes stop:
weak fairness of each checker's and each worker's steps. Submissions are never forced.

## 5. `SecurityRound` and `WeightEmission`

### State and actions

| Model | Code |
|---|---|
| `chain`, `meta` | the chain's uids and serving axons; `self.metagraph` as last synced |
| `scores`, `cells`, `listed` | `self.scores`, `self._cat_scores.cells`, `self._listed_agents` |
| `disk` | the files of the matrix and of the listed agents |
| `round` | the background task: which await it is at, and its locals |
| `since` | time since `last_security_round_at` |
| `weights`, `market` | what the chain and the marketplace backend last accepted |
| `qualified` | history: agents that once reached the entry score |

A step is the code between two awaits. `StartRound` and `NoMiners` are
`security_round` up to the query; `Answered` and `AskFails` the query's end;
`EvaluationRaises`, `NoJobRan` and `JobScored` what the evaluation of one miner comes
to, with the fold into the matrix (`Update`), the gate (`ShouldPublish`) and the head of
the loop (`NextUid`), which reads the hotkey of the next uid, stops at the budget, and at
the end prunes and saves the matrix (`EndLoop`); `Push` and `Published` the concurrent
pushes and their end; `Finish` the recomputation every round ends with. `Sync` is the
base loop: `resync_metagraph` and `set_weights`. `Crash` and `Boot` are the process;
`Reregister`, `ToggleAxon` and `Tick` the chain and the clock.

`WeightEmission` follows a score vector through `process_weights_for_netuid`,
`normalize_max_weight`, `_apply_burn_allocation` and the conversion to integers, to the
vector the chain is sent (`EmittedWeights`).

### Abstractions

- Times are ages in ticks, counted up to the last one a comparison tells apart. A
  score is a number of points; the exponential average is rounded up to a point, so
  positive stays positive and a run of perfect evaluations reaches a perfect one, as
  the tolerance of the gate has it. An agent is named by the hotkey that serves it.
- Every stage of the weights fixes them only relative to each other, so a float
  vector is a vector of naturals up to a common factor. `U16Max` and `DustDen`, which
  decide what rounding erases, are parameters that keep their ratio.
- A push that is retried is a push that reaches the backend or does not, before the
  round goes on; the record's contents and the backoff are left out.
- The matrix's rows of hotkeys that left are pruned only by a round that folded
  something, as in the code.

### Runs

| Run | Checks | Instance |
|---|---|---|
| `round` | `TypeOK`, `ScoresAreBacked`, `MarketIsEarned`, `IdleStateIsSaved`, `RoundEndsFresh`, `WeightsAreEarned`, `RoundsFinish`, `IdleMinersStopEarning` | under `FairSpec`: three uids (the burn uid, ours; a miner's; another validator's, which a second miner may take), evaluations that raise; one registration, axon change, failed query or crash |
| `round_rows` | `RowsAreOwn` is violated | the same, without faults |

What they show. `round`: whichever of the round, the base loop and the start-up
writes the scores last, a uid has one only for evidence of the hotkey shown for it, and
fresh evidence when a round has just ended; a crash anywhere loses at most the
round; only what reached the entry score is ever listed or published; what is submitted
follows the scores, respects the limit and burns the configured share, to half a unit of
rounding for each weight; every round
ends, and a miner that stops performing is eventually paid nothing, as long as
there is some miner to ask. `round_rows` is finding 4.

Bounds. Three uids are the fewest with the burn uid, a miner and a uid that changes
hands, so that two miners share the weights after it did. One chain event is enough
for each of the ways the metagraph can change under a round, and one tick for a
round that outlives its budget and evidence that outlives the window (`Budget` and
`Freshness` are 0). `Full` = 2 has a half-way average. `MaxEvents` also bounds crashes and
failed queries, so the fault that ends a round is followed by rounds that are not
disturbed. With `LimitNum/LimitDen` = 3/5 a single earner leaves the limit no room (the uniform
fallback), and of two earners at 2:1 the larger is cut. `U16Max` = 60 and
`DustDen` = 92 keep the ratio of 65535 and 1e5, and 60 is fine enough for a missing cut to
show past the rounding.

Fairness. The event loop and the process run on; time passes; the query and every
evaluation have a time limit of their own, so each await of the round returns: weak
fairness of the round's steps, of `Tick` and of `Boot`. Syncs become due again and again
and are accepted: weak fairness of `Sync`, which is always enabled while the process is
up.

## 6. `AgentEvaluation` and `EvaluationScore`

### State and actions

| Model | Code |
|---|---|
| `miner` | the miner's image, its blob server, `_agent_tar` and `_agent_blobs` |
| `vault` | the validator's key pair, its key file, the number of keys minted |
| `host` | what exists on the validator's host: network, containers, directory, tarball, images, each named after its run |
| `job` | the evaluation thread: which call is next, and its locals |
| `events`, `spoiled` | history: failures so far; runs a removal of which failed, or that were killed |

One step is one call that may fail. `Ask` is the round's request and
`SecurityMiner.forward` with `_agent_blob_for`; `Download`, `Intake` and `Load` are
`_evaluate_blob` and `_evaluate`; `NetworkCreate` to `Collect` and `ReadLogs` the try
block of `run_job`, `ReplayRun`, `ReplayProbe` and `ReplayRemove` `run_replay`, and
`RemoveAgent` to `RemoveImage` the `finally` clauses. A docker command (`Command`)
succeeds, exits with an error, or runs out of time and then may have done its work or
not; where the code ignores the exit status, the model goes on too. `MinerRestarts`
and `Restart` are the two processes.

`EvaluationScore` is what the run is worth: what the target answers to each kind of
request (`Answer`), whether a recipe reproduces on a fresh target, the severity of the
agent's system calls, `ScoreTask`, `AssembleResult` and `RewardForJob`.

### Abstractions

- A claim or a request points somewhere as seen from the answer key (the flaw, the
  trap, ...), and a canary is this run's, an old one or none: every run draws both anew.
  Scores are in tenths.
- The encryption is a library: a blob opens with the key it was sealed for. Keys are
  numbered as they are minted.
- What the agent does and reports is chosen freely from `Documents` and `Deeds`, except
  that it cannot name this run's canary without having read it.
- A behaviour log is complete or missing.
- The intake is one step here, and leaves the host as it was (`NothingPersists` of
  `SubmissionService`).
- `capability.py`, a benchmark over `run_job` that no neuron calls, is left out.

### Runs

| Run | Checks | Instance |
|---|---|---|
| `evaluation` | `TypeOK`, `BlobsOpen`, `RewardsAreProven`, `NothingLeftBehind`, `UnscoredIsOurFault`, `SealedBlobsOpen`, `EvaluationsFinish` | under `FairSpec`: two evaluations of a miner with a valid or an invalid image, five reports, two behaviours; two failures of any kind, restarts included |
| `evaluation_outage` | `OutagesAreNotScored` is violated | one evaluation of a valid agent; a docker command may exit with an error |

What they show. A miner that runs this code is never scored 0 for a blob that does not
open, whatever restarts on either side; no report earns more than its evidence; after
every prefix of the set-up, with a failure at any call, what was created is removed,
as far as the removals themselves succeed; no agent can keep itself from being scored;
and every evaluation ends although the agent may never exit. `evaluation_outage` is
finding 5.

Bounds. Two evaluations are needed for a cache that outlives one and a key file that
is read back; two failures for a failure and another one in its own clean-up. The five
reports are one that proves everything, one with the right canary and a false
positive, one with an old canary, one without, and one about another run. Deadlock
is not checked: after the last evaluation the system may rest.

Fairness. Weak fairness of the evaluation thread: every call it makes has a time limit
(`DOCKER_CLI_TIMEOUT_S`, the job's `timeout_s`, the download's), and the agent's end is not
assumed (`AgentExits` has no fairness).

## 7. Proofs

`LLMKeyValidatorProofs` proves, for every set of uids, hotkeys, keys, every owner
map, epoch length, floor and fault set that satisfies the named assumptions of
`LLMKeyValidator`:

| Theorem | States | Argument |
|---|---|---|
| `TypeCorrect` | `Spec => []TypeOK` | inductive as it stands; one lemma per operator says which fields it changes |
| `CountsOnce` | `Spec => []CountedOnce` | with `TypeOK`. Every operator but the fold shrinks the two windows' union, and a roll moves rows from one to the other; the fold adds only rows past the cursor |
| `DeadKeysAreEmptied` | `Spec => []DeadKeysHoldNoSuccess` | with `TypeOK` and `CountedOnce`: a kill empties both windows of the key, and a success folded after it revives the key in the same step. `CountedOnce` is needed for an appended row to be in no window yet |
| `PaysOnlyPreceding` | `LongEpochs => (Spec => []PaysPrecedingEpoch)` | `EpochInv`, below |
| `OnlyEarnedWeights` | `Spec => []WeightsAreEarned` | `WeightsInv`: weights are `NoWeights` except at `submit`, where they are what `SetWeights` just computed |
| `PaidOnce` | `LongEpochs /\ SavesWork => (Spec => []PaidInOneEpoch)` | `SavedInv` and `PaidInv`, below |
| `EpochChangeKeeps` | `EpochsAreReadable => (Spec => EpochChangeKeepsWork)`, a property of steps | `GapInv`: two starts next to each other among the chain's are at most one and a half lengths apart, so a roll to the very next epoch always passes the contiguity test |

`PaysPrecedingEpoch` is not inductive: a step needs to know where the recorded epoch
lies among the chain's. `EpochInv` adds `ChainInv` (the current start is the largest,
and any two starts are more than three quarters of a length apart), `RecordedInv` (a
recorded epoch is one the chain had, in memory and in the file) and `CursorInv` (the
file's cursor is never ahead of memory's, so a row in the file's windows is not folded
again, under a new epoch, while the process lives). The contiguity test accepts a
distance of up to 1.5 lengths; with `LongEpochs` (every gap is more than three quarters
of the length) two epochs together are always longer than that, so what the test accepts
is the very next epoch. Without the assumption the property is false: TLC refutes it
with gaps of one half and three quarters, so the assumption is sharp (section 8).

`PaidOnce` says that a row which was paid for was paid for in the epoch after the one it
was folded in (`PaidInv`). It is inductive with `EpochInv` and with the fact that a paid row
is behind the cursor *of the file*, so that no restart folds it again: that takes a save
before every sync (`SavedInv`), and saves that work (`SavesWork`). TLC finds the
property violated when either hypothesis goes: after a failed save and a crash, and, with
epochs of exactly three quarters of the length, after a crash. `EpochChangeKeeps` needs the
other side of the same test, epochs of at most one and a half lengths, and a tempo
that can be read (`EpochsAreReadable`); without the second it is the run `tempo_fault`.

`SubmissionServiceProofs` proves, for any number of miners, packages, agents, workers
and direct checkers, every assignment of digests and flaws, and every set of faults:

| Theorem | States |
|---|---|
| `TypeCorrect` | `Spec => []TypeOK`: the tables stay in their domains and no row id dangles |
| `BackedAgents` | `Spec => []AgentsAreBacked` |
| `GroundedReplays` | `Spec => []ReplaysAreGrounded` |
| `JustifiedDuplicates` | `Spec => []DuplicatesNameAnOwner` |

All four follow from `IntakeInv /\ HeldJobs`. None is inductive alone: a verdict is decided
at a lookup and written minutes later, after other checkers appended rows. `LocalsOK`
therefore says that a verdict *in flight* is already justified by the rows now in the table
(`VerdictOK`), and between the two commits of `check_and_record` that the row a
checker is about to register is the verdict it holds; `VerdictKept` says that
appending rows never takes a justification away. `RowsOK` says the same of each row
against the rows before it, with two facts the lookups rely on: an accepted row has
no reason (so a replay of a stored agent is no failure of ours), and the hash of a
freshly checked row is that of its bytes (so a hit on the hash is a hit on the package).
`JobsOK` and `HeldJobs` (a worker holds only a job that was posted) carry the miner and image
from the queue into the check. Least and greatest elements, which `Oldest` and `Latest`
choose, exist by well-foundedness of the naturals.

`SubmissionJobsProofs` and `SubmissionOwnershipProofs` build on them. Their
conditions are about the deployment, and each is needed: section 8 says what breaks
without it.

| Theorem | States | Condition |
|---|---|---|
| `DoneJobsAreAnswered` | `Spec => []DoneJobsHaveTheirVerdict` | none |
| `WorkersShareNoJob` | `Spec => []JobHeldOnce` | `NoOverlap`: no server starts while another one's worker has a job, or there is one |
| `VerdictsComeInTime` | `Spec => RowsComeInTime`, a property of steps | `NoOverlap` |
| `JobsCheckedOnce` | `Spec => []JobsAreCheckedOnce` | `JobsAreKept`: no crash and, with several workers, no failed write and no overlapping start |
| `ServiceImplementsLedger` | `Spec => ImplementsLedger`, the refinement of `AgentLedger` | `NoOverlap` |
| `AgentsHaveOneMiner`, `FirstAcceptedOwnsAgent` | `Spec => []OneAcceptedOwner`, `Spec => []FirstAcceptedOwns` | `OneChecker`, and `RegistersWhatItRecords`: no crash and no failed write |
| `RejectionsDeserved` | `Spec => []RejectionsAreDeserved` | `OneChecker`, and `OutagesAreRecognised`: a call fails only because the daemon is down and says so, or with an exception |
| `NothingStaysLoaded` | `Spec => []NothingPersists` | `CleansUp`: Docker can name and remove what it loaded, and no crash |

The job of a check travels with it: `JobsInv` says that a checker's job, miner and package
are those the job was posted with, and that only a done job names a row. `RunInv` says
that a job which a worker is busy with is running and in its hands alone; a start puts
every running job back into the queue, which is why no worker may be busy then. That is
the guard `NoOverlap` leaves in `Boot`, and all that is asked: servers may start in any
order, die at any step and come back. `RecordInv` (under `JobsAreKept`) adds that the rows
with a job belong to jobs that were claimed, at most one each, and that a worker still to
record has none. A start must then find nothing to requeue: `RunningHeld` says that, while a
server has still to start, every running job is in a worker's hands. The
refinement maps a row to an attempt, a registered row to the owner it names, and
"queued" and "running" to "pending". A step that appends a row is an `Attempt`; one that
registers is an `Own`, because what is registered is an accepted row of that agent
(`LocalsOK`); a settling step is a `Settle`, because the row is of this job and no other
job's (`DoneJobsHaveTheirVerdict` for both); all others stutter.

Ownership rests on `OwnerInv`: an agent with an accepted row has an owner of the same
miner, unless the checker is between the two commits, and then it is about to register
it. Blame rests on `BlameInv`: while the only checker is between load and cleanup the
image is there, so a verdict that blames it found a flaw, if no call fails unrecognised.
`UseInv` says which program points may leave an image loaded.

`SecurityRoundProofs` proves, for every metagraph, set of categories, reward scale,
budget, window and set of faults that satisfies the assumptions of `SecurityRound` and
`WeightEmission`:

| Theorem | States |
|---|---|
| `ScoresAreBackedTheorem` | `Spec => []ScoresAreBacked` |
| `MarketIsEarnedTheorem` | `Spec => []MarketIsEarned` |
| `RoundEndsFreshTheorem` | `Spec => RoundEndsFresh`, a property of steps |
| `RoundTypeCorrect` | `Spec => []TypeOK` |
| `WeightsAreEarnedTheorem` | `Spec => WeightsAreEarned`, a property of steps |
| `IdleStateIsSavedTheorem` | `FilesWork => (Spec => []IdleStateIsSaved)` |

`RoundInv` is the conjunction of the two invariants with `StateOK` (the domains, without
the bounds of the instance) and `DownIsClear` (a process that is down has no scores:
they are read back from the matrix only by a round). The heart of it is that every
operator on the matrix *keeps evidence* (`KeepsEvidence`): `Update` never takes a
positive cell to zero (rounding up), `Prune` drops only hotkeys outside the metagraph,
`Aged` changes no score; and that the recomputation gives a positive score only for a
fresh positive cell, whose hotkey has a row.

`TypeOK` takes three facts of its own (`Locally`, `Bounds`): the loop's clock is never ahead
of the round's, the uid whose evaluation is awaited did answer, so that its agent
has a name, and what is submitted is a vector of the chain's width, which is a lemma of
`WeightEmissionProofs`. `IdleStateIsSaved` follows from `DiskFollows`: the matrix runs ahead of its
file only while a loop has folded something, the listed agents only while some record is
queued. `FilesWork` says that saves and reads do not fail and that records can be
built; TLC finds the property violated with any one of the three faults.

`WeightEmissionProofs` proves, for every set of uids, scores, limit, burn percentage and
resolution:

| Theorem | States |
|---|---|
| `ScoresAreSplit` | with enough earners, what is submitted for scores `s` satisfies `SplitByScore` |

Its sums are folds of the community modules, which the provers cannot unfold for a set they do
not know. `SumCounts` shows that a sum of naturals is the number of points below its
graph, by induction on the subsets of the index set. The library's induction
theorems take a predicate, which no installed prover can instantiate; `SubsetInduction`
takes the *set* of good subsets instead, and follows from the well-foundedness of
strict inclusion. From it come the laws the rest needs: one term can be taken out
(`SumTakeOut`), a sum splits over disjoint sets (`SumSplit`), and a linear inequality
between terms holds between sums (`SumCompare`).

The heart is `normalize_max_weight`. A weight is *low* if it is below the limit's part of the sum
clipped at it. The lightest weight is low (`LightestIsLow`), a weight above the limit is not
(`OverLimitIsHigh`), and what is at least as heavy as one that is not low is not low
(`HighIsUpward`). So the factor by which low weights are scaled is positive, all others
reach the cutoff (`HighIsAbove`), and low ones stay below it (`LowIsBelow`); cut there, the
sum is the cutoff divided by the limit (`CutDown`), so nobody exceeds the limit. The
burn share and the limit then carry through scaling and rounding with at most half a
unit for each weight (`BurnIsShare`, `LimitIsShare`).

`AgentEvaluationProofs` proves, for every set of agents, reports and behaviours, every set
of faults and any number of evaluations and failures:

| Theorem | States |
|---|---|
| `TypeCorrectTheorem` | `Spec => []TypeOK` |
| `BlobsOpenTheorem`, `SealedBlobsOpenTheorem` | `Spec => []BlobsOpen`, `Spec => []SealedBlobsOpen` |
| `RewardsAreProvenTheorem` | `Spec => []RewardsAreProven` |
| `NothingLeftBehindTheorem` | `Spec => []NothingLeftBehind` |
| `UnscoredIsOurFaultTheorem` | `Spec => []UnscoredIsOurFault` |

All follow from `EvaluationInv`: `BlobIsForUs` (the blob on its way is sealed for the
key it will be opened with, and the key file holds that key as long as it never failed),
`EvidenceIsOurs` (what was collected belongs to this run until it becomes a reward),
`HostIsAccountedFor` (what may exist at each program point: the set-up only adds, the
teardown removes in an order that leaves nothing behind it) and `FailuresAreCounted` (a
path that leads to no reward has had a failure). `NothingLeftBehind` needs the last
but one at every point, because any of them may be the one where the job fails.

With these, every invariant and every property of steps that a passing run checks is a
theorem, and so is what remains of `RejectionsAreDeserved` and `JobsAreCheckedOnce`,
which no run passes. Only model-checked: liveness (`RowsAreConsumed`, `EpochIsFollowed`,
`DeadKeysStopEarning`, `JobsAreSettled`, `RoundsFinish`, `IdleMinersStopEarning`,
`EvaluationsFinish`), since fairness and ENABLED are outside what the prover handles;
and the violations. No RECURSIVE operator is declared in this project. The theorems are
about the models: the abstractions of sections 3 to 6 are not proved, and the floats of
the code are naturals here.

## 8. Findings

Five disagreements between the code and what its docs and comments say have a run
of their own; `PROJECT.json` quotes the lines.

1. `tempo_fault`: the epoch start is read and the tempo is not; the next epoch is
   taken for a skipped one and a full window is discarded.
2. `intake_race`: two overlapping checks accept one agent from two miners, of whom the
   agents table keeps one.
3. `second_server`: a server that starts beside a working one requeues its job, and both
   check it. Nobody has to die for it.
4. `round_rows`: `metagraph.hotkeys[uid]` is read when a uid's turn comes, after awaits
   during which the uid may have changed hands; the old miner's run is folded into the
   newcomer's row.
5. `evaluation_outage`: the exit status of `docker start` is ignored; an agent that never
   ran is called unsafe for want of a log, and scored 0.

The models have further behaviours that bound what the passing runs can claim, each a
few steps long. Of the LLM-key validator:

- after a failed save and a crash, rows already paid are folded again from the older
  file and paid in the next epoch (`PaidInOneEpoch` with `"save"` and `"crash"`);
- with epochs of three quarters of the length or less, a crash alone is enough for it;
- two owner-triggered epochs that together last at most 1.5 lengths while the validator is
  down pass as one, and a window two epochs old is paid (`PaysPrecedingEpoch` with
  `Gaps = {2, 3}` and `"crash"`), although "If the validator was down across more than one
  epoch" it should be discarded (`neurons/validator.py:409-412`).

Of the intake. They are disagreements with its documents too, and why the passing runs do
not combine their faults and the theorems have conditions. An invariant named here fails
when it is added to the configuration named with it:

- a Docker or registry call that fails for our reasons, and does not look like a daemon
  that is down, rejects a sound image, and a tarball's verdict is then replayed to its
  miner (`RejectionsAreDeserved`, `IntakeSerial.cfg`). "Our failures are never the miner's"
  (`secqurityVali/README.md:296-298`), and "a daemon outage is never held against a miner"
  (`models.py:102-104`), hold of `docker_unavailable` and `internal_error` only;
- one checker's cleanup removes the image another is about to inspect or to run, and a
  sound image is rejected although nothing failed (`RejectionsAreDeserved`,
  `IntakeRace.cfg`);
- a process that dies between `record_verdict` and `register_agent` leaves an accepted
  agent without an owner, and the next submitter becomes it (`FirstAcceptedOwns`,
  `IntakeProgress.cfg`), against "the miner who submitted it first" (`db.py:12-13`);
- an image that was pulled or loaded but could not be named, for want of a repo digest or
  after a timeout, stays in the daemon (`NothingPersists`, `IntakeProgress.cfg`), against
  "Nothing persists between submissions" (`secqurityVali/README.md:294`);
- a job whose process died after its verdict was recorded is checked and recorded again
  (`JobsAreCheckedOnce`, `IntakeRestarts.cfg`), against "Nothing was recorded, so the work
  is simply redone" (`db.py:415`);
- with `overlap`, a job that two workers hold is settled twice, with two rows, which the
  ledger forbids (`ImplementsLedger`), and a row is recorded for a job that is settled
  (`RowsComeInTime`);
- two failed writes in a row end the worker's thread, and its job stays running
  (`JobsAreSettled` with `"db"`);
- the replayed row of a registry reference carries the hash of the tarball that was
  checked (`Replay`, when the agent first came as a file).

Of the round and the weights:

- the budget cuts the list of uids at its far end every time, and the next round
  starts from its beginning again, although the log line speaks of "deferring
  remaining miners to the next round" (`neurons/security_validator.py:405`);
- with no miner serving, the round returns before the scores are recomputed, so stale
  ones stay; `IdleMinersStopEarning` says so in its conclusion;
- an agent is marked listed before its record is built: if that fails, it stays listed
  in memory, and reaches the file only with a later push (`IdleStateIsSaved` with
  `"record"`);
- with fewer earners than the chain's `min_allowed_weights`, the fallback gives every
  uid a weight of 1e-5, earned or not (`WeightsAreEarned` excepts this case,
  `EnoughEarners`);
- if the burn uid has a score of its own, it takes part in the normalization and its
  weight is then replaced by the burn share, so the limit says nothing of the miners'
  shares (`SplitByScore` excepts it).

Of the evaluation:

- a plain reference is checked by its digest, and `run_job` is given the mutable
  reference (`neurons/security_validator.py:258`, against
  `secqurityVali/registry.py:239`); the image it makes Docker pull is never removed;
- on a blind variant the replay makes its own requests and ignores the reported recipe
  (`Reproduces`), and `_maybe_replay` does not look at the run the report names;
- a removal that runs out of time raises out of the `finally` clause and skips the
  removals after it (`Escaped`);
- the miner keeps its saved tarball as long as the image's *name* stays the same, so an
  image rebuilt under the same tag is not served until a restart
  (`neurons/security_miner.py:129`). In the model an image's name is its content.

## 9. Not modelled

The reward arithmetic of `masxai/scoring.py` beyond its hard floors, and the LLM-key
miner with the client's retry loop are planned (section 2). Encryption, Bittensor,
SQLite, Docker and the monitored runtime are external: they appear only as the outcomes
the code distinguishes. File and archive checks are stateless functions of bytes and
appear as the flaw they report. A request the security miner declines changes nothing
and is a stutter. `secqurityVali/capability.py` is a benchmark no neuron calls. Clean-up
outside Docker's images, networks and containers is left out: the output directory
(`shutil.rmtree(out_dir, ignore_errors=True)`, `job.py:328`) and the decrypted tarball
may stay on disk when their removal fails, and a `docker create` of the dry run that ran
out of time may leave a container. Discord notifications, configuration, wire types, the
template's helpers and base miner, and the operator scripts keep no state that another
component decides on.

## 10. Running it

From this directory, with the TLA+ tools on the path:

    tlc -workers 4 -config LLMKeyWindows.cfg MCLLMKeyValidator
    tlc -workers 4 -config SecurityRound.cfg MCSecurityRound
    tlapm LLMKeyValidatorProofs.tla
    tlapm SubmissionServiceProofs.tla
    tlapm SubmissionJobsProofs.tla
    tlapm SubmissionOwnershipProofs.tla
    tlapm WeightEmissionProofs.tla
    tlapm SecurityRoundProofs.tla
    tlapm AgentEvaluationProofs.tla

Each `LLMKey*.cfg` goes with `MCLLMKeyValidator`, each `Intake*.cfg` with
`MCSubmissionService`, each `SecurityRound*.cfg` with `MCSecurityRound`, each
`AgentEvaluation*.cfg` with `MCAgentEvaluation`. Every passing run ends within three
minutes on two workers.
