# Verification of ro-builder in TLA+

ro-builder generates Ragnarok Online character builds with a language model.
A `POST /generate` puts a *generation* into a PostgreSQL queue; a worker of
some API pod claims it, runs the LLM tool loop against a score calculator (the
*calc sidecar*, a Node service around third-party JavaScript), and stores the
resulting trajectory of builds. This directory holds TLA+ models of the parts
with state and concurrency and of the decisions a run takes (catalog, prompt,
tools, gates), the TLC runs that check them and the TLAPS proofs about them.

    tlc  -workers 2 -config GenerationQueue.cfg MCGenerationQueue    # one run
    tlapm GenerationQueue_proofs.tla                                 # the proofs

`PROJECT.json` lists the runs, the mutants that show each property can fail,
the source lines each definition models, findings, hazards and theorems.

## The system: inventory

| # | Component (source) | State | Operations | Hard part | Correct when |
|---|---|---|---|---|---|
| 1 | Generation queue (`internal/buildlibrary/generations.go`) | rows of `generations`: status, attempts, lease, owner, reason | `EnqueueIfUnderCap`, `ClaimNext`, `RenewLease`, `MarkFailed`, `MarkCompleted`, `RecoverExpiredLeases` | any number of pods, two multi-statement transactions, clocks of several machines | cap kept, retries bounded, ends are final, a valid lease protects its owner |
| 2 | Save and accept (`save.go`, `accept.go`) | `saved_trajectories`, `accepted_at` | `SaveAndComplete`, `Accept` | lease lost between claim and commit | completed exactly when stored |
| 3 | Worker pool (`internal/workers/pool.go`) | doorbell, poll and job contexts, goroutines | claim loop, `runJob`, heartbeat, sweeper, `Notify`, `Shutdown` | goroutine interleavings, select, cancellation, panics, errors of each statement | every generation ends, no stale worker writes, no lost wake-up, drains end and orphan nothing |
| 4 | API process (`cmd/api/main.go`, `internal/api/server.go`) | process life | startup recovery, `POST /generate`, drain, exit | check-then-act on shutdown, crash, restart | see 3 |
| 5 | Shim pool of the sidecar (`calc-sidecar/src/pool.ts`) | slots, queue, pending map, readiness counters | `run`, `handleMessage`, `handleWorkerCrash`, warm-up, `terminate`, `ready` | crashes during warm-up, await points, breaker | one request per thread, every call settles, ready means able to serve |
| 6 | Orchestrator (`internal/orchestrator`) | session: attempts, accepted answer, iteration | `Generate` loop, tool dispatch, `buildResult` | long tool conversations, failures in a batch | the result is an accepted one, the right failure reason |
| 7 | `submit_trajectory` and validation (`internal/llm/tools/submit_trajectory.go`, `internal/domain/trajectory.go`) | none (writes to the session) | clean, validate, select, score, gate | boundaries of lists, monotonicity | accepted implies valid, scored and gated |
| 8 | Embedding bootstrap and backfill (`embedding_bootstrap.go`, `library.go`, `backfill.go`, `cmd/backfill-embeddings`) | the vector column and its model stamp | bootstrap at `Open`, backfill, save with vector | pods of two models side by side | no bootstrap stamps over, or drops, a vector it could see |
| 9 | Retrieval (`find.go`, `get_similar_past_builds.go`, `get_saved_build.go`, `seed.go`) | what a run has on its context | `Find`, `FindSimilar`, `SimilarTop`, `Get`, the seed and two tools | three statements while builds are saved, accepted and backfilled | only accepted builds are told of, within class, server and distance |
| 10 | Quality gates (`internal/scoring/gates`) | none | `Evaluate`, ten gates; `QualityGatesWarnings` | tiers, fallbacks, partial blocks of thresholds | a better build is not judged worse, no gate is disabled in silence |
| 11 | LLM tools (`internal/llm/tools`) | the goroutines of a batch | `score_build`, `score_builds`, the lists, `lookup_*`, `search_items`, the registry | one goroutine per candidate, shared error | a batch answers each candidate in its place and reports an outage; a preview asks what the submission will |
| 12 | LLM provider clients (`internal/llm/anthropic`, `openai`) | none | translation of the conversation and of replies, recovery of calls from text | three wire forms of one conversation | both APIs accept what is sent, every reply becomes a turn or an error the loop knows |
| 13 | Scoring client and requests (`internal/scoring/client.go`, `domain/build.go`) | none | `ToScoreRequest`, `Score`, resolution of buffs, attacks and enemies | spellings, levels, duplicates | see 11 |
| 14 | Catalog (`internal/catalog`, `configs`) | read-only indices | `Load`, lookups, class lines, skill points, search | duplicates, aliases, spellings | what is told agrees with what is enforced |
| 15 | Server profiles and prompt (`internal/domain/server.go`, `internal/orchestrator`) | read-only | load and validate, overrides, `RenderForPrompt`, `formatUserPrompt` | two ways to find a class | see 11, 14 |
| 16 | Catalog builder (`cmd/build-catalog`, loaders of `internal/data`) | `catalog.json` | join of the emulator's tables with overlays | overlays on repeated rows, trees over trees | the file says what its sources say |
| 17 | Embedding client (`internal/embedding`) | none | `Embed` | timeouts | see 3, 8, 9 |
| 18 | Other command-line tools, rocalc adapter, deployment | - | name matching, formulas, manifests | - | - |

How they interact: 4 calls 1 to enqueue and 3 to ring; 3 calls 1 and 2, and 6
through `Runner.Run`; 6 asks 12 for a turn and dispatches its calls to 7, 9 and 11;
7 and 11 ask 13 for scores, which calls 5 over HTTP, and 7 asks 10 for verdicts;
14 and 15 are read by 6, 7, 10, 11 and 13; 16 writes the file that 14 embeds; 17 is
called by 3, 8 and 9; 8 and 9 share the tables of 2. Pods share nothing but the
database.

## Modules

    GenerationLifecycle          what the queue promises
          ^ refinement
    GenerationQueue              tables and transactions, arbitrary clients
          ^ EXTENDS                       ^ EXTENDS
    WorkerPool                   GenerationQueue_proofs
          ^ EXTENDS                       ^ EXTENDS
    WorkerPool_proofs            (extends both)

    ShimPool                     (another process)
          ^ EXTENDS
    ShimPool_proofs

    Trajectory                   validity, checkpoints and gates of a build path
          ^ EXTENDS
    Orchestrator                 one run of the tool loop, any model
          ^ EXTENDS                       ^ EXTENDS
    Providers                    Orchestrator_proofs
          ^ EXTENDS                       ^ EXTENDS
    Providers_proofs ---------------------+
    (the loop on either provider API; refines Orchestrator)

    EmbeddingBootstrap           the vector column and its stamp
          ^ EXTENDS
    EmbeddingBootstrap_proofs

    Nil                          Go's nil
          ^ EXTENDS                       ^ EXTENDS
    GameCatalog                  Gates    the verdicts on one scored snapshot
          ^ EXTENDS     ^ EXTENDS         ^ EXTENDS
    ServerProfile       BuildCatalog      Gates_proofs
          ^ EXTENDS
    Prompt, ScoreRequest         what a run is told; what the calculator is asked
          ^ EXTENDS both
    ToolCalls                    the read-only tools of a run
          ^ EXTENDS
    Retrieval                    what a run is told of earlier builds
          ^ EXTENDS
    Retrieval_proofs             (of the tools, the prompt, retrieval, and,
                                  extending it too, BuildCatalog)

**GenerationQueue** (components 1, 2). `gens` is the table: per id the status,
position in `created_at` order, attempts, owner, lease and failure reason. One
action per statement or transaction, with two exceptions split where other
connections can get in between: `EnqueueIfUnderCap` (`EnqueueLock`,
`EnqueueCount`, `EnqueueInsert`) and `RecoverExpiredLeases` (`RecoverRequeue`,
`RecoverFail`, which commits both UPDATEs). Until that commit the requeued rows
keep their old contents for everyone else and are `Locked`: a statement that
would update them waits, `FOR UPDATE SKIP LOCKED` never meets them since they
are not queued. `SaveAndComplete` is one action: its INSERT is invisible before
the commit, and its UPDATE is the only statement that others could block. A
lease is a number of ticks. Go code reads the clock of its pod before it sends
a statement; a reading is off by at most `Lag` (`Reading`). Payloads,
timestamps for display and texts are left out. The clients are arbitrary: any
owner may try anything at any time.

**GenerationLifecycle** is the abstract specification: submit under the cap,
start at most `Limit` times, complete with a stored trajectory, fail, recover.

**WorkerPool** (components 3, 4) extends the queue with pods, their workers and
handlers. A statement of a goroutine is the queue's action conjoined with what
the goroutine does with the answer. `work[w].pc` follows `runWorker` and
`runJob`: `select`, `claim`, `run`, (`embed`, `save` | `complete`), `mark`.
The heartbeat is a separate action on the same worker (`beating`, `due`,
`lost`). `bell` is the token in the channel of capacity one. `Shutdown` moves a
pod to `draining` (pollCtx done), `ShutdownTimeout` cancels jobCtx, `Exit`
follows when all goroutines have returned; `Crash` may come at any time, in the
middle of transactions; `Boot`, the recovery in `starting`, and `StartPool` are
the next life, with new owner names. A fault is a statement that returns an
error, and either took effect (the commit arrived, the answer did not) or not.

**ShimPool** (component 5): slots with thread, `currentJob`, `busy`,
`recoveryAttempts`, the messages the thread has not answered (`inbox`), the
calls of `run()`, the queue of `acquire()`, the pending map (a slot stands for
its warm-up) and the readiness counters. An action is what the event loop runs
up to the next await. Continuations of promises come before the next event
(`Quiet`), but calls of `run()` and `terminate()` may come before them, the
windows the comments of `run()` describe.

**Trajectory** (component 7) is pure: `ValidTrajectory`, the checkpoints that
are scored (`Selected`), what scoring writes into them (`Stamp`), the verdicts
`Clean` and `Blocked`, and what the save will ask (`Savable`). A snapshot keeps
the fields the checks read. Of a score only the origin is kept: the sidecar
computed it, the model wrote it, or there is none. Of gate results the
severities are kept; the evaluator always has at least one
(`evaluateRequirements` emits one whether a profile was found or not), so
`GateOutcome` leaves out the empty set. Alternatives that were kept are a set:
the checks treat them alike.

**Orchestrator** (components 6, 7) is one call of `Generate`. `pc` is `llm`
before `Complete`, `tools` while the calls of a turn run in order, `done` at the
end; `iter` counts rounds. A `tool_use` block is named by round and position,
and `messages` holds role and block ids only: wording, prompts, the warm-start
seed and the text of answers are left out. `session` is the `Session`:
`Submit` is `submit_trajectory` from decoding to `Session.Accept` and every tool
answers its call, with a result or an error. The model may submit anything in
`Submission` and stop for any reason, and a snapshot may score to anything in
`Outcome`. A submission with an unresolved buff or a refusal of the sidecar is
`fixable`, a server or transport error is an `outage`. `passed` (the
submissions that passed) and `last` (what the last tool call met) are history
variables. The run and the worker pool meet at `result`: its reason is the one
`RunFails` of `WorkerPool` stores, success is `RunSucceeds`; they share no other
state, and are checked apart. The module constrains nothing about who answers: a
turn may stop short or end with calls in it, which are then dropped.

**Providers** (component 12, with 6) puts the loop on either API. A `reply` is what
the HTTP call brings: a status, a body that is full, garbled or without choices, a
finish reason, calls, and calls left as markup in the text in either dialect.
`Complete` is both clients with `classifyProviderError`; `Ask` conjoins it with the
action of `Orchestrator` the loop takes. The conversation is translated at every
call: `AnthropicMessages` and `OpenAIMessages`, for any choice of turns that carry
text (`spoken`) and of replies without an id, whose recovered calls get the same ids
again (`unnamed`). What each API demands of a conversation (`AnthropicAccepts`,
`OpenAIAccepts`) is external.

**GameCatalog** (component 14) is `catalog.Load` and its lookups: the indices over the
decoded rows (`FirstSeen`, `LastBy`: the first row of an id, the last of a name), the
classes under normalized keys with aliases, the buffs and attacks of a class, the
points of skills along the chain of jobs, and the search. A class is a key and the
form of its spelling, since some code normalizes and some compares. The constant `Data`
is a file that can be told apart (`Readable`), as every built one is.

**ServerProfile** (component 15) loads and validates profiles, and holds their
overrides, the enemy that is sent to the calculator, and what a profile adds to the
prompt as a set of facts. **Prompt** (components 6, 15) is the validation of a request
and the facts of the first message. **ScoreRequest** (component 13) resolves what a
build declares into a request, as a preview and as a snapshot of record, and classes
the calculator's replies.

**ToolCalls** (component 11) is a run calling one tool after another. A lookup is one
step; a scoring call starts a goroutine per candidate (`Score`), each ends on its own
with any reply (`End`), and `Collect` answers when all have. `replies` is a history
variable.

**Retrieval** (component 9) extends it with the library of builds: workers save,
users accept and the backfill adds vectors between any two statements of the seed
(`EmbedQuery`, `SearchNearest`, `LoadNearest`) and of the tools. The index of vectors
is approximate: a search may find any subset. `told` is a history variable, and a
list is the set of what it names: the order it is displayed in changes nothing.

**BuildCatalog** (component 16) is the tool that joins the emulator's tables with the
overlays: validation, overlays on rows, threats computed or by hand, class trees, levels,
and the file, which a stopped run leaves half written. `Files` is what its sources may
be: decoded rows, whose classes and skills have identifiers for names. Its output has the
type of `Data`: the catalog of the `tools` run is what it makes of the sources with repeated
rows, written out in `MCTools` and compared with it there (`BuiltAssumption`).

**EmbeddingBootstrap** (component 8): `column` is the dimension of the vector
column (0 when there is none), `stamp` the row of `embedding_config`, `saved` and
`vec` the stored builds and the model of each vector, `lock` the advisory lock. A
process is an API pod or a run of the backfill; its `pc` walks through
`bootstrapEmbedding` one statement at a time, with what it has read in `seen` and
`exists`, and is `up` when `Open` has returned, semantic or recency-only. Every
statement may fail; a process may stop at any point, which ends its session and
frees the lock. A model stands for `model@dimension`; two of the three models of
the run share a dimension. `Open` takes any model: the deployment is a rolling
update (`api-deployment.yaml`: `type: RollingUpdate`, and a checksum of the
configuration), so pods of the old model keep saving while those of the new one
bootstrap. `Clear` is the operator, as the tuning runbook of the repository's
README describes.

A bootstrap cannot see everything, and `unseen` says what: it is a history variable,
read by no guard, with the rows whose vectors the holder of the lock knows nothing
of. Those are the rows written since it probed the corpus, and every row when the
query of the columns failed, whose error is dropped (line 65). The properties are
about the others. What happens to the unseen ones is told below, under the findings.

**Gates** (component 10) is the evaluator as pure operators: `Evaluate` gives the
set of results of one snapshot, each with gate, what it is about, and severity.
What the gates look up (targets, worn items, allocated skills, thresholds) are
operators of their own. Fractions are percentages and the multipliers of hit
points tenths, so that comparisons are exact where the code rounds floats; results
carry no text, numbers or Go names. The state is the submission judged last, and a
step is the next submission of the same run, under the same profile, playstyle and
overrides; `Null` is Go's nil. Unscored inputs are what the comment of `Inputs`
allows and the tests exercise; `submit_trajectory` judges scored snapshots only. Threats and worn items are sets: nothing
depends on their order or repetition. The gates are not composed with `Orchestrator`,
whose verdicts (`Outcome`) are arbitrary and so include these.

MC modules give model values and symmetry. Operators marked *Mutant* are
plausible bugs; each property is checked to fail when one replaces the original.

## Runs

| Run | Instance | Shows |
|---|---|---|
| `queue` | 3 rows, cap 2, 2 owners, 2 callers, 2 recoveries, 2 attempts, lease 2, lag 1 | the inductive invariant, cap, atomic completion, retry budget, finality, lease protection, refinement |
| `pool_fencing` | 2 pods with a worker each, 1 row, 2 attempts, a crash, a fault | a worker that lost its lease cannot end or store the job; the pool implements the queue's specification |
| `pool_recovery` | 1 pod, 2 rows, a crash, a fault, a stalled embedding, restart | every generation ends |
| `pool_doorbell` | 2 workers, 2 handlers, 2 rows, no poll, no retry, no save callback | the inductive invariant of the pool, and no wake-up is lost (`DoorbellInv`) |
| `pool_heartbeat` | 1 worker, 2 rows, 1 attempt, a fault, lease 3, lag 1, heartbeats on time, a drain at any point | a heartbeat keeps the lease; a drain ends and orphans no job |
| `shim_pool` | 2 first threads and 2 more, 2 callers, 2 crashes, breaker after 1 recovery | the inductive invariant, one request per thread (`ShimInv`), no orphan in the pending map, no idle worker while calls wait, no cold replacement when ready, no extra thread, every call settles |
| `orchestrator` | replies of both APIs, 2 rounds, turns of up to 2 calls, as calls or as markup, one invalid trajectory per check of `Validate`, a rebirth, alternatives, three gate verdicts | the inductive invariant, first clean wins, growth along an accepted path, every answer can be saved, well-formed conversations in the loop and on both wires, true results, outages surface |
| `tools` | a catalog of 3 items, 2 mobs, 7 skills and 6 classes that the builder makes, 16 requests, 25 setups of each class, batches of up to 4 with a limit of 3, 5 replies; 2 saved builds of 8 rows; 30 sets of sources; 2,084 inputs of the gates around every threshold | what the prompt offers is what scoring accepts, a preview asks what the submission will, batches are answered in place and report outages, caps told agree, only accepted builds are told of, catalogs are built faithfully; a better submission draws no new complaint from any gate; the loader names every threshold whose gap hides a complaint |
| `embedding` | 2 pods, 1 backfill, 1 build, 3 models of 2 dimensions | the inductive invariant, no stamp over and no drop of a vector that the bootstrap could see, every start gets its turn |

Bounds. Two of each actor give every pairwise race; the third row of `queue`
makes the cap bite while another row waits; in `shim_pool` two
callers wait while the two first threads warm up, so the queue grows past one. Two attempts are the smallest budget with a
retry (`pool_heartbeat` runs one, `pool_doorbell` zero). A lease never
counts below the point where every clock finds it expired (`Floor`), so time is
finite without bounding the length of a run. `MaxLife`, `MaxFaults`,
`MaxStalls` and `MaxCrashes` bound how often the environment misbehaves; a
crash and a fault combine in one run. In `orchestrator`, two rounds of two calls let a clean, a
warned and a failing submission follow each other in one batch and across
batches, before and after the lock. In `embedding` nothing is
bounded but the sets: stops, failures, saves and changes of the model repeat for
ever; two pods of any models compete for the lock with the backfill, and the third
model has another dimension. One build is enough to be written before the probe,
after it, or after the stamp; the theorems cover any number. `tools` checks four things that share nothing but the catalog
in one run (`MCNext`): the gates, the tools, retrieval and the builder. Each family of
inputs of the gates crosses what one gate reads, with values on both sides of each
boundary (one family crosses several gates); every ordered pair of inputs of one
request is a step. A batch of three has every order of its goroutines, and one of four
is over the limit. The catalog repeats an item and a skill, has a class under an alias,
one after rebirth, one with two parents, an innate buff, an endow and a skill without
a row; the profile changes a mob of the catalog and adds one. Two saved builds differ
in every field that a statement filters by, and distances lie on both sides of the
two thresholds. Each set of sources differs from a sound one in one file (the one with repeated rows in two). Deadlock is
checked except in the queue run (all rows may have ended), the shim runs (a terminated
pool stops) and `orchestrator` (a run ends).

Three runs find a state or step that contradicts what a comment says of the
code (`findings` in PROJECT.json):

* `shim_ready_empty`: when the breaker gives up on the last worker the pool is
  empty but `ready()` stays true, and calls wait forever.
* `shim_never_ready`: a crash during the first warm-ups leaves `ready()` false
  for good although the replacements have warmed up.
* `embedding_column`: a bootstrap that adds the column and stops before the stamp
  leaves a column of its dimension; a later one with another dimension never looks
  at the column, stamps its model and turns semantic mode on, and every save with
  a vector fails.

Smaller observations without a run. A hanging embedding call uses up the ten
seconds of the save (its client waits sixty), and a finished generation is marked
failed, although main.go:332-335 calls the embedding best-effort; `EmbedStalls` is
that step. server.go:86-89 says the evaluator falls back to canonical defaults when
`quality_gates` is absent *or partial*; `resolveQualityGates` replaces the block as
a whole, as its own comment says. That comment gives a zero EHP multiplier as a case
where any maxHp passes layer A; the one-shot floor still fails. Immunities that a
profile adds to items (`item_changes.grants_immunity`, server.go:293) are not read by
the gates. More dodge can switch the FLEE gate on, and more ATK can end the demotion
of the HIT gate: `RepairNeverHurts` excludes both (`SameFight`). `QualityGatesWarnings`
does not open the lists of a declared scenario. A worker may still claim one job after
`Shutdown`, when its select takes the doorbell (pool.go:184); the drain waits for
it. The log of a mismatch says that `backfill-embeddings` restores semantic
retrieval (embedding_bootstrap.go:82), but the command ends on a mismatch; vectors
have to be cleared first.

Two more of the embedding corpus, which `StampCoversSeen` and `BootKeepsSeen` leave
open because they are about `unseen` rows. Both properties are false without that
restriction. "Only reachable with no embeddings present" (embedding_bootstrap.go:103)
is what the probe found: in a change to a model of another dimension, a pod of the old
model that saves between the probe and `DROP COLUMN` loses its vector. And the stamp
does not stay true: pods of the old model, and a backfill that has listed its rows,
go on writing vectors after the new stamp, and one that saves between the probe and
the stamp has its vector stamped over; likewise the corpus of another model when the
query of the columns failed, although the next query fails safe (lines 69-75). If
the dimensions are equal the corpus then mixes two models under one stamp (migration
000002 calls it the model that produced the corpus), nothing at a later start notices,
and queries of one model are compared with vectors of the other. `BootInv` says what
remains: every vector has the dimension of the column.

Met while modelling the tools, and likewise without a run. orchestrator.go:705 says the
profile's level wins when it is set, but `ClassMaxLevelOverride` compares the spelling of
the class exactly (server.go:347) while the rest of the prompt ignores case and spaces:
asked for "Soul Linker" the model is told the catalog's cap, so `CapsToldAgree` is about
exact spellings; and the points of skills ignore the override altogether. After an
accepted submission a later one is acknowledged as if it counted
(submit_trajectory.go:295). `recoverToolCalls` numbers calls within a turn, so that ids
repeat across turns when the server sends no id for a reply; both APIs still pair calls
and results, since they do so turn by turn (`BothWiresAccepted`). The OpenAI client maps
calls that arrive with finish reason `stop` to an ended turn, and the loop drops them
(client.go:534). When the loop is exhausted after an accepted submission the last message
is a tool turn, whose text becomes the final text though the comment expects the
assistant's (orchestrator.go:562-565). With a vector for the query,
`get_similar_past_builds` answers nothing when no accepted build has one, rather than
falling back to recency; its description says an omitted class defaults to the
request's, the code defaults the server only. The API scores without a profile
(api/server.go:167), so a mob that only a server has is unknown there.
In the builder an overlay joins the last row of a repeated id while `Load` keeps the
first (catalog.go:96-97), which `RowsUnrepeated` excludes; the comment of
`flattenSkills` says higher classes overwrite lower levels, but the first occurrence,
the parent's, stays; a half-written catalog is said to surface in `go build`, but
`go:embed` does not parse, so it surfaces in `Load`; and trees or levels that do not
load are logged, and a catalog without them is written.

## Fairness

Safety runs use no fairness. `FairPoolSpec`: handlers, worker loops, `Run`,
sweeps, drain timeout, exit, boot and the clock are weakly fair: Go schedules
every goroutine, iterations and calls of a job are bounded by limits and
timeouts, the orchestrator restarts a stopped pod. `WakeDone` and
`SweeperStops` are strongly fair: they are one ready case of a select that runs
again and again, and Go picks among ready cases at random. Nothing is assumed
of heartbeats, faults, crashes or new requests. `FairSpec` of the shim pool:
the microtask queue is emptied (weak fairness of the continuations together),
every thread answers (strong: a score is a bounded computation, and the event
loop takes events in order, so that no answer is postponed forever by others),
and a terminated thread stops.
The orchestrator and the tools are checked for safety only: a run is one loop of at
most `MaxIters` rounds whose calls end by the deadline of the job.
`FairSpec` of the bootstrap: statements return, and PostgreSQL grants an advisory
lock to its waiters in turn (strong fairness of `Acquire`).

## Proofs

`Orchestrator_proofs` proves, for every set of submissions, turns and gate
verdicts and every cap of the loop (`OrchestratorAssumption`; the model writes
no canonical score; `NoAnswer` is no answer):

* `OrchestratorInvariant`: `Spec => []OrchestratorInv`, the inductive invariant;
* `FirstCleanSubmissionWins`, `ProviderAccepts`, `RunReturnsAnswer`: the safety
  invariants of the run, as consequences;
* `OutagesSurface`: the action property, with the fact that an outage is an error;
* `AnswersAreSavable`: since the type of the answer of record says that it is the
  stamp of a valid submission whose scoring neither failed nor was blocked;
* `AnswersGrow`: growth along an answer of any length (see the end of this section).

`OrchestratorInv` has the types, `FirstCleanWins` (inductive with `passed`),
`Conversation` and `ResultIsAnswer`. `Conversation` extends
`ConversationWellFormed` to the middle of a batch: the blocks of the open turn
and the prefix of them that is answered. The effects on the session are split
once (`SubmitCases`, `SessionCases`): a tool call either leaves it alone or hands
an answer that passed to `Accept`.

`Providers_proofs` proves `ProvidersRefineOrchestrator`, `PSpec => Spec`, for every set
of replies: whatever either API replies, with any status, finish reason or markup, the
loop does one of the things `Orchestrator` allows, so that all of the theorems above
hold of it. The lemma `AskIsStep` goes through the classes of a reply; a turn is used
only if it has calls, which is why recovered calls have to be a turn.

The module also proves `BothApisAccept` (`PSpec => []BothWiresAccepted`), for any number of
rounds, any number of calls in each, whatever turns have text and whatever replies had no
id. `Numbered`, an invariant of its own, says that the calls of a turn are numbered within
it: so they differ even where all of them got the id of no reply. From it
and `Conversation` follows that every conversation is a request and rounds
(`ConversationIsTold`). Anthropic is served message by message (`AnthropicIsServed`). For
OpenAI (`OpenAIIsServed`) it takes an induction over the rounds, since which message a tool
message answers depends on those between: what the API accepted so far it accepts with
another assistant message and a tool message for each of its calls (`TurnIsAccepted`), and
the calls told grow alike in both forms (`CallsJoin`). `Of` and `FlattenSeq` are recursive
functions: `OfIs` and `FlattenIs` show by `Upwards`, an induction over an interval, that
any function that goes on as their loops do is what they return.

`GenerationQueue_proofs` proves, for all values of the constants under
`QueueAssumption`:

* `TypeCorrect`: `Spec => []TypeOK`;
* `QueueInvariant`: `Spec => []QueueInv`, the inductive invariant;
* `CapHolds`, `CompletionIsAtomic`, `RetryBudgetHolds`: the safety invariants,
  as consequences of `QueueInv`;
* `TerminalHolds`, `LeaseHolds`: the action properties, from `QueueInv`;
* `Refinement`: the queue implements `GenerationLifecycle`.

`QueueInv` strengthens what the properties say by three facts. `RowInv` says
what the columns mean at each status: a queued row has an attempt left.
`EnqueueInv`: at most one caller is past the advisory lock, and what it counted
is still an upper bound when it inserts, since every other step can only lower
the number in flight. `SweepInv` carries the argument about the recovery: a row
that its first UPDATE has requeued is still running, expired and locked by it
alone, and every other row that its second UPDATE will find expired has no
attempt left. The last part needs the one clock reading of the transaction and
`2 * Lag <= LeaseTTL`: a row that is renewed or claimed after the first UPDATE
cannot look expired to the second. The proofs describe the effect of each
statement once (`ClaimEffect`, `RecoverEffect`, ...), split `Next` once
(`StepCases`) and then show one conjunct of the invariant per lemma.

`EmbeddingBootstrap_proofs` proves, for any processes, builds and models with
dimensions, whatever pods run side by side, stop or fail:

* `BootInvariant`: `Spec => []BootInv`, the inductive invariant;
* `StampsCoverSeen`: no bootstrap gives another stamp to a corpus in which it could
  see a vector of another model;
* `BootstrapKeepsSeen`: the only step of a process that loses a vector is the drop of
  a column by a bootstrap that knew of it, and it loses only what was written after
  its probe.

The argument: a process inside the bootstrap holds the lock, so the stamp it has read
is the present one. Past the probe a mismatch has seen no vector, and each vector
written since is `unseen` (`BootIsAlone`); a bootstrap without a stamp has no vectors
to cover, because only semantic processes write and none is before the first stamp.
That the vectors have the dimension of the column is needed for a column that is
absent or added: there is then no vector. `Fits` says what the
invariant asks of one process; `MoveStep`, `HolderStep` and `WriteStep` are the
three kinds of step.

`Gates_proofs` proves, for any catalog and any well-formed inputs
(`GatesAssumption`: the calculator's numbers, thresholds and cast times are natural
numbers, the WoE penalty at most the whole, which the profile's validation does not
check; a block of thresholds has the fields of the canonical one):

* `RepairsNeverHurt`: the action property `RepairNeverHurts`;
* `OverridesDropOnly`: overrides drop what they name and nothing else, for the inputs
  of any run (no run of TLC repeats it);
* `DisabledGatesAreNamed`: a partial block of thresholds hides no complaint of a gate
  that `QualityGatesWarnings` does not name.

For the first there is one lemma per gate: what it compares moves one way only, including
the products of the EHP gates and the truncated division of the cast time, and what
selects its thresholds is the same for both submissions (`SameLookups`). The last goes
the other way round: a gate reads no thresholds but its own (`ThresholdsAreLocal`), a
threshold that a partial block keeps is the canonical one unless it is named
(`UnnamedAreCanonical`), and on the same thresholds a gate says the same
(`SameThresholdsSameVerdict`).

`WorkerPool_proofs` proves, for any number of pods, workers, handlers and rows, any
number of restarts, faults and stalls, and any settings under the assumptions of the
two modules:

* `PoolRefinesQueue`: `PoolSpec => Spec`, so that the theorems of
  `GenerationQueue_proofs` hold of the pool; `PoolTypeCorrect`, its types;
* `FencingHolds` (`OnlyLastClaimEnds`), `DrainsOrphanNothing`;
* `HeartbeatsHold` (`HeartbeatKeepsLease`), under `ClocksAgree`: the error of the clock
  that renewed and of the one that recovers fit into what a beat leaves of the lease. The
  code sets a lease and a beat of a third of it and says nothing about clocks, so this is
  the condition on a deployment under which its heartbeat does what it is for. Where it is
  broken (a lease of 4 with an error of 2) TLC finds a healthy worker that loses its job;
* `BellIsKept` (`DoorbellInv`), under `OnlyPod`: the bell is a channel of one process, so
  that a row that another pod enqueued does wait for the poll.

The five kinds of goroutine write the same tables, so an invariant is not proved action
by action: `PoolMoves` classes every step once, by what it does to one worker, handler or
process, and each part of `PoolInv` is shown over these moves. `ControlInv` ties a worker
to its job; `FenceInv` says that a job the worker still owns in the table is of the
attempt it was claimed with, which is why a fence on the owner alone is enough; `LeaseInv`
counts down lease and heartbeat together; `StrayInv` charges every row that nobody works
on to one fault, and stands for the two cases of `Orphans` at once.

`ShimPool_proofs` proves, for any number of threads, callers and crashes and any limit of
the breaker: `OneJobAtATime` (`ShimInv`), `PendingIsHeld` (`NoOrphanedCall`),
`QueueIsServed` (`NoIdleWhileWaiting`), `ReadyMeansWarm` (`NoColdReplacementWhenReady`)
and `PoolDoesNotGrow` (`NoExtraThread`). None of them is inductive alone. `Bookkeeping`
makes them so: a job is in the inbox of one thread only, and that slot's `currentJob` is
the job (or a crash would reject the call of another slot); outside of `terminate()` an
inbox holds pending jobs only; a call between `acquire()` and its dispatch has its
slot, which is busy and empty, to itself; and the counter of recoveries is the number of
warm-ups in the pending map, so that ready means that all have answered. A dispatch, an
answer and a crash each break several conjuncts and mend them in the same step.

`Retrieval_proofs` proves, for any catalog, profiles and replies, batches and libraries of
any size, about `RunSpec`: the tools of a run and the seed, with saves, accepts and
backfills between any two of their steps (the run `tools` explores its parts one at a
time):

* `BatchesTellOutages` (`BatchTellsOutage`), from `CallInv`: a goroutine has written
  its own slot and recorded an outage by the time it ends, and none runs when the answer
  is put together;
* `PreviewsAreCanonical` (`PreviewIsCanonical`): the two ways to resolve buffs and attack
  skills come to the same request for what would be a valid snapshot;
* `ToldBuildsAreVetted` (`ToldIsVetted`), from `RetrievalInv`: what a statement has found
  stays accepted, and of its class and server, until another loads it, since the library
  only grows (`GrowthKeeps`);
* `PromptsAreTrue` (`PromptIsTrue`): a setup of the requested class becomes a request
  exactly when it declares what the prompt offers at its levels. Each half maps the facts
  of the prompt to rows of the class and back (`ResolvingBuffTold`, `ToldBuffResolves`,
  and the same for attacks). It assumes `MobsApart` and `InnateApart`: no two mobs of a
  profile share an id, and no innate buff of a class has the name of one that its skills
  give. No loader checks either;
* `CapsToldAgreed` (`CapsToldAgree`), under `ChangesApart`: a profile changes a class once,
  and its levels under a spelling that a request can have. Without it the property is
  false, as the observation about `ClassMaxLevelOverride` above says.

The run `tools` checks all three conditions on its data (`DataApart`). About `CatalogSpec`,
for any sources that are `Files`, of any size, the module proves

* `CatalogsAreFaithful` (`BuildsFaithfully`). `SiftedIs` says what a loop that keeps some
  rows keeps, `FlattenRange` and `FirstNamedIs` what a flattened list of skills has, and
  `MobsAre`, `ItemsAre` and `SkillsAre` what an overlay leaves of a row. For the trees there
  are two inductions. Over the file, `ClassMap`: a class is built from those before it, and
  nothing later touches it. Along the ways of inheritance, in `OneClass`: what a class
  offers came along a way on which no class drops it, and whatever has such a way arrives.
  `Way` says "along a way" without recursion, as what every set that is closed under the
  steps has, so that a way is extended (`WayGoesOn`) and taken apart (`WayComesFrom`) by
  instantiating such a set;
* `BuiltCatalogsAreReadable`: a file that is complete is `Readable`. So what the theorems
  about the tools assume of the catalog (`CatalogAssumption`) is what the validations of
  the builder bring about.

Recursion and induction. The recursive definitions here and those of the community modules
are recursive functions, and what they return is shown for every length in one way: any
function that goes on as the loop does agrees with it (`LoopRuns`, `LoopGoes`), by an
induction over an interval (`UpTo`). The library's induction theorems take an operator as a
parameter, which the installed provers cannot instantiate; the principle is proved for a
*set* of numbers, from the well-founded order of the naturals, whose theorem takes a set.
`AnswersGrow` (`AnswerGrows`), in `Orchestrator_proofs`, uses it likewise (`SetInduction`):
it speaks of any two snapshots where `Validate` compares neighbours.

Only model-checked are the liveness properties `EveryGenerationEnds`, `DrainEnds`,
`EveryCallSettles` and `BootEnds`: TLAPS proves neither fairness arguments nor ENABLED. Every
safety invariant, action property and refinement that a passing run checks is proved.

## Not modelled, and why

* The parameters of the vector index, the texts that are embedded, the wording of
  prompts, answers and acknowledgements, prompt caching and JSON: data that no property
  tells apart.
* Text formats: the tokenizer and parsers of the emulator's files, and the rows of
  items and mobs they fill field by field. The builder starts from decoded rows.
* The command-line tools that match names between the catalog and the calculator or
  measure it: heuristics over scraped text, reviewed by hand, without state.
* The calculator: third-party JavaScript inside one thread, with its adapter.
* HTTP layers, generated API code, configuration, manifests and scripts: no behaviour of
  their own beyond what the modelled parts do with a request.
* `Enqueue` without a cap and `Save` without a generation are called by tests and tools
  only. Rows of `generations` are never deleted by this code.

## Plan

1. Queue, life cycle, worker pool, their runs, and the proofs of the queue: done.
2. Shim pool, its runs and proofs: done.
3. `Trajectory`, `Orchestrator`, `Providers`, their run, proofs and refinement: done. Left:
   the acknowledgement of a submission after the lock, and the exception `AnswerIsSavable`
   names: a score the model wrote into a snapshot that is not a checkpoint survives,
   although `trajectory.go` says such snapshots have none, and the save refuses the
   accepted build.
4. `EmbeddingBootstrap`, its runs and proofs: done.
5. Catalog, profiles, prompt, requests, tools, retrieval, builder and their run: done.
6. Gates, their run and proofs: done.
7. Proofs about `WorkerPool`, `ToolCalls` and `Retrieval`: done.
8. `BothWiresAccepted` for any conversation, `PromptIsTrue` and `CapsToldAgree` for any
   profiles, `BuildsFaithfully` for any sources: done.
9. Left: one instance of `WorkerPool` with `Orchestrator` as its `Run`.
