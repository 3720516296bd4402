# Formal models of MoE inference

TLA+ models of this repository: the continuous-batching scheduler, the service
worker that drives it with its stop-sequence decoder, the preparation of requests
and the sampling of their tokens, the registry of loaded models, the streamed
execution of a batch, what a forward pass computes and leaves in the caches, the
conversion of checkpoints into packed ones and their loading, and the publication
of packed and encrypted directories. TLC checks every model on small instances;
TLAPS proves safety properties of eight of them, and one refinement, for every value
of their constants.

All paths below are relative to the repository's crate root
(`src/continuous/scheduler.rs` and so on).

## 1. The system

The crate runs mixture-of-experts language models whose expert weights stay in a
packed checkpoint and are staged on demand by Power, an external runtime.

| Part | State it keeps | Operations | Talks to |
|---|---|---|---|
| **Continuous scheduler** `continuous/` | behind a mutex: `in_step`, one session (cache, pending tokens, generated tokens, sampler) per member; Power's lifecycle beside it | `admit`, `cancel`, `step`, `finish`; clonable, called from any task | Power's `ExecutionBatchLifecycle`, the model adapter |
| **Generation worker** `service/worker.rs`, `stream.rs` | bounded request channel, map of active jobs, one bounded channel per request, shutdown token | `submit`, `shutdown`; the loop `run_worker` | one scheduler it alone uses, clients |
| **Model registry** `service/backend.rs`, `load.rs`, `source.rs` | name -> reference-counted model behind a read-write lock; an async load lock | `load`, `preload`, `unload`, lookups by `chat`/`complete` | checkpoint loaders on blocking threads, one worker per model |
| **Streaming expert execution** `*/streaming`, `*/batch.rs`, `*/mlp.rs` | next caches of the rows, per-layer contributions | `forward_batch` | Power's staged weight groups |
| **Packed records, conversion, publication** `packing.rs`, `*/streaming/packed.rs`, `*/packed_checkpoint` | a staging directory, collection digests, a completion manifest | `convert_to_packed`, `open`, `encode_raw`, `parse` | the file system |
| **Checkpoint index, configurations, family** `checkpoint.rs`, `*/checkpoint.rs`, `*/config.rs`, `family.rs` | none after opening | parsing, bounds and inventory checks | conversion, resident and streaming models |
| **Caches** `decoder/cache.rs`, `qwen3_5_moe/cache.rs` | per-layer keys/values or convolution and recurrent states, position | `append`, `commit`, `reset` | the layers of a forward pass |
| **Dense and resident models, GatedDeltaNet, router** `*/cpu`, `*/dense.rs`, `sparse/` | tensors | `forward`, `forward_batch`, `generate_greedy` | caches |
| **Sampler** `olmoe/sampling.rs` | a random generator per session | `validate`, `sample` | the scheduler |
| **Request preparation** `service/request.rs`, `config.rs` | none | token limits, prompts, seeds, stop sequences | tokenizer, worker |
| **Validation harness, binaries, tools** | files | sequential I/O | |

How a request travels: `MoeBackend::chat` looks its model up in the registry and
submits a job to that model's worker. The worker admits the job into the
scheduler, waiting for an admission permit; steps the scheduler; and turns each
row of a step into an event of the client's channel. The scheduler freezes the
roster of live members with Power, runs the model without holding its lock,
samples one token per row, commits the outcomes to Power and publishes the
advanced sessions.

### What is hard

* *The lock is released in the middle of a step.* `step` takes its members'
  sessions out of the table, computes without the mutex, and puts them back.
  Admissions, cancellations, `finish` and other `step` calls run meanwhile.
* *There are two tables.* Power knows which members are live and their
  positions; the coordinator holds their caches. They change under different
  locks, and `step` gives up if they disagree.
* *Every stage of a step can fail*, after working copies were advanced.
* *Cancellation has three forms*: a token that nobody else hears about until the
  next `begin_step`, an explicit `cancel`, and dropping a future at its await.
* *Channels are bounded in both directions.* The worker never waits for a
  client, but it does wait for permits only it can release.
* *A streamed step is one computation for many sessions.* Their positions are
  routed as one union, experts arrive in any order between awaits, and an error
  in any layer must leave every session's cache alone.
* *Checkpoints are large and a directory is not a transaction.* Conversions run
  for long between looking at a destination and renaming onto it; readers read
  several files from a path somebody may exchange.
* *A conversion works in a bounded buffer over sources it does not trust.* Shapes,
  scalar types, offsets and lengths come from files; layouts differ by family, and
  a directory may be edited between its publication and its use.
* *Two implementations of every model must agree*: the resident reference and the
  streamed one, which sees a sequence in pieces, with caches, in batches with
  others, and after steps that failed.
* *A request's seed promises the same tokens* whatever shares its steps, and the
  limits of manifest, service, model and request meet in one calculation.
* *Loads, unloads and requests share a name* while loads take seconds on another
  thread and unloads take no load lock.

### What makes each part correct

* Scheduler: steps are serialized; no live member is lost or diverges from
  Power's position; every token enters a cache exactly once and is delivered
  exactly once; no cache passes the context limit; a finished batch stays empty;
  a started step ends.
* Worker: every accepted stream ends, with an explained reason, and no token is
  skipped before its end; jobs and live sessions correspond; the worker never
  waits for a permit it cannot get; shutdown stops it.
* Registry: no running worker is unreachable; a name changes its model only
  through an unload; a successful load answers with what was asked for.
* Streaming batch: the result does not depend on the order experts arrive in;
  caches are committed together or not at all.
* Conversion: a reader finds a complete checkpoint or none; what was published can
  be used; what loads is what was converted; buffers stay within the budget.
* Forward pass: how a sequence is cut into steps, and what shares them, changes
  nothing; a failed step leaves the cache as it was.
* Sampling: a token's chance is its weight among the eligible ones; a seeded
  request is reproducible; what preparation lets through, admission takes.
* Stop-sequence decoding: no text that belongs to a stop sequence is streamed,
  whatever the chunking.

## 2. The modules

| Module | What it is | Code |
|---|---|---|
| `SessionLedger` | abstract specification: sessions advance by whole steps, one token per row | what `continuous/` promises |
| `ContinuousScheduler` | the scheduler, its callers and Power's lifecycle | `continuous/scheduler.rs` |
| `ContinuousSchedulerProofs` | theorems about its invariant and what callers see, and the refinement of `SessionLedger` | |
| `GenerationWorker` | the worker loop, its clients and channels, over the ledger's sessions | `service/worker.rs`, `service/stream.rs` |
| `GenerationWorkerProofs` | theorems about it, and about `StopDecoder`, the decoder of its jobs | |
| `MCGenerationWorker` | symmetry for its safety run | |
| `BackendRegistry` | loads, unloads, requests and worker lives | `service/backend.rs`, `load.rs` |
| `BackendRegistryProofs` | theorems about it | |
| `MCBackendRegistry` | symmetry for its run | |
| `StopDecoder` | the text of a job, what is streamed and what is held back | `IncrementalDecoder` of `service/worker.rs` |
| `MCStopDecoder` | the stop sequences of its run | |
| `StreamingBatch` | a batch step through the layers, at its awaits | `*/batch.rs`, `streaming/mlp.rs`, `decoder/cache.rs` |
| `StreamingBatchProofs` | theorems about it | |
| `DecoderStep` | what forward passes compute and cache in the three families | `decoder/`, `*/attention.rs`, `gated_delta_net.rs`, `*/mlp.rs`, `*/model.rs`, `sparse/` |
| `DecoderStepProofs` | theorems about it | |
| `MCDecoderStep` | the four models of its run | |
| `PackedRecord` | one packed expert: encoding and parsing | `olmoe/streaming/packed.rs` |
| `PackedLayout` | conversion of dense tensors and expert groups, manifests, opening a packed directory | `packing.rs`, `*/packed_checkpoint/` |
| `CheckpointIndex` | a checkpoint by its index, shards and tensor names | `checkpoint.rs`, `*/checkpoint.rs` |
| `OlmoeFamily`, `Qwen3Family`, `Qwen35Family` | what each family's configuration allows, names, demands and writes | `olmoe/`, `qwen3_moe/`, `qwen3_5_moe/` |
| `PackedConversion` | a checkpoint from its source to its use, resident and streamed | `*/packed_checkpoint/`, `service/load.rs`, `family.rs` |
| `PackedConversionProofs` | theorems about it and the modules below it | |
| `MCPackedConversion` | small checkpoints and the jobs to try on them | |
| `Sampler` | penalties, candidates and the weighted draw | `olmoe/sampling.rs` |
| `RequestPreparation` | from a request to what the worker is given | `service/request.rs`, `service/config.rs` |
| `SampledRequests` | requests prepared, admitted and sampled side by side | `continuous/scheduler.rs`, `service/backend.rs` |
| `SampledRequestsProofs` | theorems about it | |
| `MCSampledRequests` | services, requests and logits of its run | |
| `CheckpointPublish` | conversions, encryptions, crashes, readers | `olmoe/packed_checkpoint/` and the converters of the other families |
| `CheckpointPublishProofs` | theorems about it | |
| `MCCheckpointPublish` | symmetry for its run | |

`GenerationWorker` extends `SessionLedger`, the specification that
`ContinuousScheduler` is checked and proved to implement: the worker is composed
with the scheduler's promise rather than with its internals. `BackendRegistry`
sees of a worker only whether it runs. `SampledRequests` composes request
preparation, the sampler and the part of the scheduler that keeps a sampler and a
history per session; that the logits of a row depend on its own history alone is
what the theorems about `DecoderStep` and `StreamingBatch` establish. `PackedConversion` instantiates
the three families over `CheckpointIndex`, `PackedLayout` and `PackedRecord`, and
leaves to `CheckpointPublish` how its files come to be seen by others.

### ContinuousScheduler

`members` and `inStep` are the fields of `CoordinatorState`. Each caller of
`step` has a program counter and the function's locals: `working`, `originals`,
the prepared outcomes and the `active` list. An action is what the code does
between two points where another task can run: under the mutex from `lock` to
its release, or a call to Power, whose lifecycle has a lock of its own.

| Code | Action |
|---|---|
| `admit` up to `begin_wait` | `AcquirePermit`; then `AdmitMember` or `AdmitRefused` |
| `cancel` | `Cancel` |
| a request's token | `FireToken` |
| `step` to the release of the mutex | `BeginStep`, `BeginStepFails` |
| `forward_continuous_batch` | `Forward`, `ForwardFails`, `AbandonStep` |
| `prepare_commit`, the second cancellation check | `Prepare`, `PrepareFails` |
| `step.commit` | `Commit`, `CommitFails` |
| `active_member_ids` | `ReadActive` |
| publishing block, `restore_failed_step` | `Publish`, `Restore` |
| `finish` | `Finish` |

A session is the length of its prompt, its budget, its cache position, the number
of pending tokens and the number generated. Which token was sampled matters to
the scheduler only through the end-of-sequence test, so `Prepare` chooses the
rows that meet one.

*Power* is external. `power`, `cancelled`, `ended`, `frozen` and the counting of
permits are the weakest lifecycle the code is written against: `begin_step`
drops members whose token fired and freezes exactly the roster it is given;
`commit` applies all outcomes at once or none; a frozen row that is cancelled
leaves at once or when its step is over (both are allowed); dropping the step
thaws its rows; `finish` succeeds only without live members. A member identity
is used once: it is a digest of the request's identifiers, which the worker
makes unique with a counter.

### GenerationWorker

`wpc` walks through `run_worker`. The worker is one task, so its actions
interleave only with its clients and with shutdown; a step is two actions
because client tokens fire while the forward pass runs. `active`, `queue`,
`inputClosed`, `rows`, `remove` are the code's locals and channel; `sent` is the
content of every output channel since its creation and `unread` what the client
has not taken. Dropping a client's stream is two steps, as in the code: the token
fires in `drop`, and the receiver closes when the field is dropped.

The incremental decoder appears as a choice per row: text, a stop sequence, or an
error; `StopDecoder` is the decoder itself. Validation of the request appears as the choice to refuse.

### BackendRegistry

`lpc` walks through `load_spec_with`. The async load lock, the two reads of the
map, the blocking load, the insertion and the removal are separate actions. Models
are reference counted: an entry of the map and each running request hold one;
the last one to go fires the worker's shutdown token (`LoadedModel::drop`).
`Replace` is the environment: an operator changes what a checkpoint directory
holds. Contents are identified by their digest, and a trust anchor of an
encrypted source identifies the content it was issued for.

### StopDecoder

`decoded` and `emitted` are the decoder's strings, `stop` its stop sequences, and
`Push` is `push`: find the first stop sequence, otherwise hold back the longest
suffix that begins one, and stream what lies between `emitted` and that end.
`crossed` is the error the code returns when that end lies before text already
streamed. The client's job is over after a stop, the last token or an error
(`process_step`). Text is a sequence of letters; a token adds a chunk of it,
possibly empty, because the tokenizer's decode stream keeps incomplete characters
to itself.

### StreamingBatch

One call of `forward_batch` at a time, over any rows in any order, on caches that
live as long as the sessions. `work` is `next_caches`, `hidden` and `routes` the
function's locals, `layer` its loop. A routed layer is three kinds of action,
because other tasks run at its awaits: `RouteLayer` up to the staging request,
`GroupReady` for each delivered group, `ReduceLayer` after the last one. Numbers
are symbolic: what a position's output *is* is the list of experts added to it,
in order, since a floating-point sum depends on the order. A cache layer is the
list of tokens it took in. The router is external and may choose anything.
`CallFails` stands for every `?` and for a caller that drops the future.

### CheckpointPublish

`staging` and `dir` are directories, each a record of four parts (configuration,
manifest, dense and expert collection) and, when encrypted, the top manifest
(`seal`). A part is named by the conversion that wrote it: two parts have the
same digest exactly if they have the same name. `WritePart` copies one part; an
encryption reads the packed directory as it is at that moment. `HashConfig` and
`Seal` compute the digests of the metadata from the packed directory once more, one
file after the other, as the code does, and not from what was copied. `Publish` is the rename, which the operating
system refuses onto a directory that is not empty but not onto an empty one.
`MoveAway` and `MakeDirectory` are an operator; `Crash` leaves the staging
directory. There is no power failure: the code does not call fsync, and what
survives one is the file system's affair.

### PackedConversion and the modules below it

A *job* is a source checkpoint with what is wrong with it and the options of the
conversion. `OpenSource`, `ConvertDenseTensors`, one `ConvertGroupOfExperts` per
file of experts and `Publish` are `convert_to_packed` in the order of its checks
and its files; `LoadResident` is the reference model over the same source. `Edit`
is the environment: somebody changes `config.json`, the manifest, the tokenizer or
a collection. `Open` is `read_metadata` and `from_stores`, `Load` is `load_plain`.

A tensor is its scalar type, its shape and its bytes, and a byte is a value that
says which element of which tensor of which checkpoint it is: that two matrices
are equal means that they are the same bytes of the same source. A digest is the
content itself. What is kept is every size, offset and comparison: the header
fields of a record, checked sums and products below `Word` (standing for 2^64),
slices of fused arrays, what is buffered while a record is written and what the
report claims, names and shapes of all parameters of each family.

### DecoderStep

A call is `Forward` or `ForwardBatch` to start, one `RoutedLayer` or `DenseLayer` per
decoder layer on *copies* of the caches, and `StepReturns`; `StepFails` is any `?` in
between, `Reset` a cache made new.
Resident and streaming models share it, as they share the code of their dense
parts. `Generate`, `GenerateForward` and `GenerateNext` are the greedy loop, which keeps
a cache of its own. Numbers are symbolic, as above: equal values are computed from the same
operands in the same order. Attention lists the keys and values it may see, with
their rotary positions; the gated delta net lists the updates of its state and the
window of its convolution. The reference of the properties, `Reference`, computes a
whole sequence at once and without any cache.

### RequestPreparation, Sampler and SampledRequests

`Prepare` is `prepare_chat` and `prepare_completion`: refused controls, defaults of
manifest and service, the rendered prompt, token limits and seeds. A text is a
sequence of words with their bytes and tokens. `Sample` is the sampler's `sample`:
penalties over the last `repeat_last_n` tokens, greedy choice, or temperature,
`top_k`, `min_p`, `top_p` and a weighted draw. Logits are integers, controls are
fractions (a penalized logit is rounded down to an integer), and `exp` is a power of
two, so that weights are integers and sums are exact. `Sample` refuses an empty or
infinite row as the code does; the rows of its run are finite, and the failing step
that such a row would cause is `StepFails`. `SampledRequests` lets two requests go
through `Submit`, `Admit` and steps that copy every row's generator and history,
sample row after row (`SampleRow`), and publish the copies or restore the originals.

## 3. The runs

| Run | Configuration | Question |
|---|---|---|
| `scheduler` | 2 members, 2 stepping tasks, 2 admissions, 2 permits, prompts and budgets 1..2, context 3; step futures may be dropped | safety of the scheduler; it implements `SessionLedger` |
| `scheduler_liveness` | the same with one admission task and one request shape, no dropped futures | started steps end; fired tokens are noticed |
| `scheduler_retired` | as liveness, without fairness | **violated**: retired state stays behind |
| `worker` | 3 requests, 2 permits, queue 1, channels 1, batch window | safety of streams, jobs and permits |
| `worker_liveness` | 2 requests, 1 permit | streams end; shutdown is heard |
| `registry` | 1 name, 2 loads, 1 request, 1 directory, 2 contents, 2 policies, 2 allocations | registry safety |
| `stop_decoder` | 2 letters, every set of at most 2 stop sequences of at most 3 letters, texts of at most 5 letters, chunks of at most 2 | what is streamed and held back |
| `streaming_batch` | 2 rows, 3 layers of which the first and third are routed, 3 experts, top-2, context 2, joint input 3, widths 1..2 | rows in a batch compute what they would alone; caches are replaced together |
| `checkpoint_publish` | 2 conversions, 1 encryption, 1 reader, 2 operator moves | only complete checkpoints are seen |
| `packed_roundtrip` | 3 families, 2 layouts, 2-3 experts, 2 layers; one variation per job | conversion, edits, opening, loading; streamed experts are the resident ones |
| `decode_steps` | 4 models of 2 layers, 3 experts, 2 sessions, widths 1..3, 5 positions | steps, batches and caches change nothing |
| `request_sampling` | 2 requests, 4 services, 3 tokens, every control varied | preparation, admission, sampling, reproducibility |

What they show:

* `OneStepInFlight`: only one task is between freeze and publish although the
  mutex is released, and Power's frozen rows are exactly that task's.
* `NoLostMember`: the two internal errors of `step` ("lost an active member
  state", "cache position diverged from Power") are unreachable.
* `PositionsAccounted`: position plus pending equals prompt plus generated, in
  every state and after every failure.
* `WithinContext`: the check at admission bounds every cache, also the copies of
  a running step, and also those of a step whose future was dropped.
* `DeliveredOnce`: tokens handed to callers equal tokens Power accounts for,
  under failing commits and racing cancellations, and never exceed the budget.
* `FinishedIsEmpty`: after `finish` no session exists and no call is running.
* `ImplementsLedger`: seen from outside, all rows of a step advance at once.
* `StepEnds`, `CancelledReaped`: `in_step` is released on every path; members
  leave once their token fired.
* `StreamWellFormed`, `NoTokenSkipped`, `EndExplained`: a stream is tokens, then
  at most one closing event; a full channel ends the stream instead of skipping a
  token; a stream without a closing event has one of the reasons the code gives it.
* `JobsCoverBatch`: a live session always has a job of the worker.
* `AdmissionNeverBlocks`: whenever the worker waits for a permit, one is free.
* `StreamsEnd`, `ShutdownExits`: clients may stall or leave, and still every
  stream ends and shutdown stops the worker.
* `NoOrphanWorker`, `NeverReplaced`, `LoadHonest`: as in section 1.
* `NeverCrosses`, `NothingLeaks`: the decoder's own error is unreachable, and no
  letter of a stop sequence is streamed.
* `ChunksDoNotMatter`: a job's text ends where it would have ended letter by
  letter, unless one stop sequence lies inside another before its last letter.
  In that case it depends on the chunks: with stops `a` and `baa`, the text
  `baa` decoded letter by letter stops at `a` and shows `b`, decoded at once it
  stops at `baa` and shows nothing. Both are stops the request asked for; TLC
  finds this when the condition `Unnested` is dropped.
* `RowsAsIsolated`: sharing a step changes no row's experts, no order of
  additions and no reported route.
* `AllRowsOrNone`, `CachesCoherent`: a step that fails or is cancelled anywhere
  leaves all caches as they were; after any history every layer of a cache holds
  exactly its session's tokens.
* `DestinationComplete`, `PublishedStays`: as in section 1, also when two conversions saw a free destination and when the packed directory
  is exchanged while it is encrypted.
* `OpenedConsistent`: a reader that mixes parts of two checkpoints does not open.
  This is about the collections: nothing binds the `config.json` of a packed
  (not encrypted) checkpoint to its manifest except the geometry both declare.
* `PublishedCanBeUsed`: no source with a wrong expert shape, mixed scalar types or
  non-finite weights is published, and what is published opens and parses; with a
  tokenizer it loads whenever the reference model loads and the dense weights still
  have a size that fits a word once they are F32 (they are twice as long as in BF16; in
  `packed_roundtrip` they always fit).
* `StreamedIsResident`: for both source layouts, every packed expert parses to the
  three matrices the reference model computes that expert with.
* `BuffersWithinBudget`: the bytes held while experts are packed are at most the
  reported peak, and that is within the declared budget (`docs/validation.md`,
  237-238).
* `LoadedIsTheConverted`: a directory that somebody edited either does not load or
  is still the converted model: same parameters, same experts under their names.
* `LayoutFixesTheCache`: the state layout given to Power separates configurations
  whose session caches have different shapes.
* `StepsDoNotMatter`: hidden states and routes of a step are those of the whole
  sequence computed at once, whatever the cuts, batches, neighbours, failures and
  resets before.
* `CacheHoldsTheFed`: between steps a cache is exactly what its committed tokens
  determine, also the convolution and recurrent states, which are replaced rather
  than appended to.
* `GreedyIsTheReference`: cached greedy generation gives the tokens that recomputing
  everything for each token gives.
* `PreparedIsAdmitted`: a prepared request is not refused by the worker, except for
  a model with more positions than a `u32` counts: its manifest then has no context
  length and preparation lacks that limit.
* `Reproducible`: a request's tokens are those it would have drawn alone, after
  failed and retried steps too (`docs/validation.md`, 91-92; `docs/architecture.md`,
  242).
* `SamplesByWeight`: over all draws a token is chosen as often as its weight among
  the tokens `top_k`, `min_p` and `top_p` leave, and greedily the best token with
  the lowest identifier is.

**A limit that is checked twice.** `forward_batch` bounds the input of all rows
together (batch.rs:125), while a request is only checked by itself. Prompts that
were all accepted can therefore make a joint step fail, and the worker then ends
every active request (`fail_active`). `StreamingBatch` has the guard and
`GenerationWorker` the failing step; no property is stated, as the documentation
promises nothing about it.

**A penalty that overflows.** `repeat_penalty` may be any positive number. A tiny one
turns a positive logit of a repeated token into an infinity (sampling.rs:194);
sampling that row then fails, the whole step with it, and the worker ends every
active request. `Sampler` has the overflow and `SampledRequests` the failing step;
no property is stated, since nothing is promised about such a penalty.

**Where a wrong dense tensor is noticed.** The conversion copies dense tensors whole
and checks neither their shapes against `config.json` nor that the configuration's
head counts fit them; such a directory is published, opens, and fails only when its
model is loaded. `PublishedCanBeUsed` therefore asks that the *reference model* loads
before it asks that the packed one does. That is all it needs: `PublishedUsable` proves
that no other check of a streaming load can fail on what was just published.

**What the budget counts.** Copying a dense tensor keeps its header while a chunk of
up to the whole budget is read (packing.rs:277-296), so header and chunk together
may exceed it by the header, which the reported peak, a maximum and not a sum,
does not show. `docs/validation.md` (237-238) speaks of the experts' arrays, for
which the property holds; `docs/architecture.md` (116-119) of dense tensors.

**The violated run.** `step` (and `restore_failed_step`) read the active ids
*before* taking the mutex. A `cancel` of one of its rows in between succeeds and
finds nothing to remove; the step then inserts the session. The coordinator
keeps the retired member's cache until the next synchronization, where
`docs/architecture.md` (228-230) says cancelled slots are compacted.
`NoLostMember` and `DeliveredOnce` hold in the same model, so the leftover costs
memory and nothing else. The service worker, a single task, does not run into it.

**Bounds.** Two members, two steps and two admissions are the smallest instance
where a member is admitted during another's step, a second `step` call meets
`in_step`, and a failed step has a row that was cancelled next to one that was
not. Budgets 1 and 2 give sessions that end with their first token and sessions
that continue; prompts 1 and 2 with context 3 make one combination too long.
Three requests over two permits and one-place channels make the queue, the
channels and the permits all run full. Two loads of one name, with two
allocations, are the smallest race the load lock is there for. Nothing else is
bounded there: sessions end by their budgets, so no counter needs a cap. Two stop
sequences of three letters are the smallest that overlap and nest, and texts of
five letters hold one inside another with a letter to spare. Two rows with
widths 1 and 2 are ragged, a context of 2 lets a session take a second step, and
top-2 of 3 experts makes selections of neighbours overlap without being equal.
Two operator moves exchange a directory under an encryption or a reader: one
takes it away, and the second conversion publishes in its place.
`packed_roundtrip` varies one thing per job (a field of the configuration, a flaw of
the source, an option, the scalar type, what happens to the directory) against a
checkpoint of two layers and two or three experts, enough for a file with one
expert less than the others, and for a hidden size of 4, an intermediate one of 1;
`Word` = 4000 is above every size that occurs soundly and below those of the
configurations with a thousand experts or tokens. Only the directories of jobs
that are otherwise sound are edited, and only before they are opened.
`decode_steps` has five positions, so that a window of 2 and a convolution of 3
slide, a session takes up to five steps, and the context runs full; a session decodes
one sequence or a batch of two (`Batches`), and widths up to 3 pass the window; the generation
loop runs before the sessions feed anything, as its cache is its own.
`request_sampling` varies one control per request beside a fixed seeded one; three
tokens are enough for an eligible set that is neither one token nor all of them,
`MaxFinite` = 3 for an overflow, and `MaxU32` = 6 lies between the models with 6
and with 7 positions.

**Deadlock** is not checked where the system may rest: when every member
identity was used, the scheduler has nothing to do; likewise a worker that has
exited, a registry between calls, a decoder whose job ended, sessions whose
context is full, requests that are all over, and a file system on which all runs
are over. `packed_roundtrip` and `decode_steps` check it: a job ends in a state
that says how, and a session can always be reset.

**Fairness.** `scheduler_liveness` assumes that a step future that is being
polled makes progress (weak fairness of each caller's `StepPoint`) and that
somebody keeps stepping, which is what the worker's loop does. It assumes nothing
of `cancel`, of admissions or of which call steps. `worker_liveness` assumes
fairness of the worker task alone, which is tokio's guarantee for a task that
never blocks its thread: clients never have to read, leave or submit.

## 4. The proofs

`ContinuousSchedulerProofs` proves, for arbitrary sets of members, tasks,
prompt lengths and budgets, and with abandonment allowed or not:

* `TypesKept`: `Spec => []TypeOK`;
* `StepsSerialized`: `Spec => []OneStepInFlight`;
* `MembersKept`: `Spec => []NoLostMember`;
* `PositionsKept`: `Spec => []PositionsAccounted`.

None of these is inductive. The invariant has three parts, each proved to be kept
by every action given the ones before it.

1. `Exclusive`: at most one caller is away from `idle`, it holds `in_step`, and
   the frozen roster is empty or exactly its rows. It needs `AbandonStep` to
   leave `in_step` set, which is why that flag protects callers even after a
   future was dropped.
2. `Coherent`: where the state of each live member is. Outside a step
   (`in_step` false) it is in the table at Power's position; during one, a live
   member that is not a row of the step is still in the table, and a row's
   original carries the position Power knows; after the commit it is the working
   copy that does. `Agreement` says this for each point of the step; `Kept` says
   what the list of active ids read before the lock may be: stale, but a
   superset of the rows that are still live, since a member never becomes live
   again. That superset argument is the reason the race of the violated run is
   harmless to `NoLostMember`.
3. `Progress`: what is known of each row's originals and working copies at each
   point (fed or not, sampled or not), which gives `PositionsAccounted`.

It proves from that invariant:

* `FinishedStaysEmpty`: `Spec => []FinishedIsEmpty`;
* `ContextsBounded`: `Spec => []WithinContext`;
* `TokensDeliveredOnce`: `Spec => []DeliveredOnce`;
* `LedgerImplemented`: `Spec => ImplementsLedger`, the refinement itself.

The first two follow from `Exclusive`, and from positions, pending tokens and budgets
(`OutcomesCorrect` says what a step's outcomes are). The last two need `Delivery`, which
counts, for each row of the step in flight and at each point of it, the tokens Power
has and those the callers have, also for rows cancelled on the way. A commit splits
the members into those whose row ends, those that continue, those that are cancelled
and those that are no row (`CommitSplits`), and is one `LedgerStep` of all rows
together; every other action changes the phase of some sessions or is a stutter.

`GenerationWorkerProofs` proves for any number of requests and permits, any queue and
channel capacity and any behaviour of the clients: `TypeCorrect`, `JobsCover`,
`AdmissionNeverWaits`, `TokensDelivered`, `StreamsWellFormed` and `EndsExplained`. The
argument has three layers. `IndInv` is about permits: outside an admission every
session that holds one has a job (`Batch`), and the jobs together with the one being
admitted are never more than the permits, so the one waiting finds one free. `Delivery`
compares channels with the ledger: between its commit and its delivery a row's token
is the one its channel lacks. `Streams` is about endings: what closed a stream, or
made it end unclosed, is recorded in `reader`, `overrun` or the worker's exit.

`StreamingBatchProofs` proves `CachesAgree` (`CachesCoherent`) and `StepsAreWhole`
(`AllRowsOrNone`) for any sessions, layers, routing and order of arrival: all working copies have advanced through the same
layers, each by its row's width, and the hidden states carry the tokens that follow
the committed position, so the joint commit moves every layer of a cache by the same
tokens. `RowsAreIsolated` (`RowsAsIsolated`) needs `SharedInv` besides: after each layer
the hidden states and the routes of a row are those it would have alone, for the same
choices of the router. A dense layer keeps that because it looks at one position at a
time. A routed layer keeps it because the union holds the positions of a row from the
row's start on, whatever the widths of the rows before it, and is cut there again;
and because going through the experts of the union in canonical order and skipping
those a position did not select leaves that position's experts in canonical order
(`Added` over `Ascending`), however many others the rows brought along. The order in
which groups arrive appears in the model and nowhere in that argument.

`SampledRequestsProofs` proves `AdmissionTakesPrepared` (`PreparedIsAdmitted`) for any
services, requests and number of them: the least of the model's positions and the
service's limit, which preparation checks, bounds both numbers that admission checks,
and what is queued stays what was prepared. It assumes of the tokenizer that it
returns sequences of tokens (`TokenizerAssumption`) and of a loaded model that its
end-of-sequence tokens were validated (`ModelAssumption`). `TokensReproducible`
(`Reproducible`) rests on `AloneInv`: for every member, and for every working copy of a
step under way, the history is the one its request grows alone, by as many tokens as
it has generated, and the generator has made as many draws, or none if the request is
greedy. A step that fails throws copies away and so takes draws back with the tokens; a
step that publishes takes both over.

`DecoderStepProofs` proves for any models (layer kinds, sliding window, convolution
kernel, routing table, `top_k`), sessions, texts, batch sizes and step widths:
`DecoderInvariant` (the inductive invariant), `StepsAreTheReference`
(`StepsDoNotMatter`), `CachesAreTheReference` (`CacheHoldsTheFed`) and
`GenerationIsTheReference` (`GreedyIsTheReference`). None of the three properties is inductive: they
speak of a finished call, of the time between calls and of a finished generation. The
invariant says of a call that has reached layer *l* that its hidden states, routes
and copied caches are what `Reference`, which computes each whole sequence at once,
has up to *l*. One layer keeps it because

1. cached keys followed by new ones are the sequence's keys, each with the rotary
   position of its place, and the masks of causality and window leave a position
   exactly the keys the reference lets it see (also where a step of one
   token in a model without a window uses no mask);
2. the last `kernel - 1` inputs are all that the next convolution reads, and the
   state's updates continue where the previous step stopped, so cutting a sequence
   anywhere changes nothing, also before the convolution's window is full;
3. ranking, normalization, the union of the experts, the sums in their order and the
   cut back into sequences give each position its own experts, whoever shares the
   step.

At the end the copies replace all caches at once, or an error drops them. The greedy
loop is a second part of the invariant: its local cache is the one of the tokens fed so
far, and the next token the `ArgMax` of the reference. The induction theorems of the
library take an operator and cannot be used; `Least` and `UpTo` state induction for
sets of numbers, from the well-foundedness of `<`, and everything that is recursive in
the model (references, sums, flattened lists) is a recursive function unfolded with
them. `StreamingBatchProofs` and `SampledRequestsProofs` do the same.

`BackendRegistryProofs` proves for arbitrary names, loads, requests, directories,
contents and policies: `RegistryCorrect` (the inductive invariant, with types),
`WorkersReachable`, `LoadsHonest` and `ModelsNotReplaced`. The invariant says that
a load past the lock owns it, that at that point its name is still free (only the
owner inserts), and that an instance being spawned belongs to one load and is in
no entry of the map.

`GenerationWorkerProofs` also proves, of `StopDecoder` and for any alphabet, stop
sequences, texts and chunks: `TextCorrect`, `BufferingSafe` (`NeverCrosses`), `StopsHidden` (`NothingLeaks`)
and `CutDoesNotMatter` (`ChunksDoNotMatter`). The
invariant is `NothingLeaks` with types: streamed text ends
before every stop sequence that may have begun. The step from there is that a
stop sequence found in a longer text either lies in the new letters or had begun
in the old text, where `MayStop` held at its beginning; so its position is not
before the end of the streamed text, and neither is the suffix held back next.
For `CutDoesNotMatter` take the shortest beginning of the text with a stop sequence in
it: that stop sequence is at its end, and the first one of the whole text begins no
later; if it also ended later it would contain the other, which `Unnested` excludes.

`CheckpointPublishProofs` proves for any number of conversions, encryptions,
readers and operator moves: `NeverPartial` (`DestinationComplete`), `OpenedWhole`
(`OpenedConsistent`) and `NeverReplaced` (`PublishedStays`). The invariant adds
`Staged` (a conversion stages only its own parts, an encryption only parts of
finished conversions; what is ready is full and, encrypted, verified) and
`SeenDone` (readers met parts of finished conversions, and what opened has its
digests). It is needed because completeness of a destination is decided long
before the rename, by what the staging directory went through.

`PackedConversionProofs` proves for any checkpoints of the three families (any number of
layers, experts, heads and tokens, either layout of experts, any scalar type, sound or
with any of the flaws), any buffer limit and experts per file, and any edit of the
published directory: `PublishedUsable` (`PublishedCanBeUsed`), `StreamedMatches`
(`StreamedIsResident`), `BuffersBounded` (`BuffersWithinBudget`), `LayoutSuffices`
(`LayoutFixesTheCache`) and `LoadedConverted` (`LoadedIsTheConverted`). None of the five
is inductive; each compares something with a source that was read many actions ago. The
invariants that carry them are

* `SourceOpened` and `DirectoryStays` (`OrderCorrect`): the checkpoint at hand is the
  job's source under the job's configuration, and who opened the directory saw it as
  it still is;
* `DirectoryKept`: a published directory's manifest binds the files that were staged and
  declares the geometry that was packed; an edit changes the configuration, a
  collection, the tokenizer or the fields of the manifest nothing binds, and never the
  digests (they are what the packer reported);
* `BuffersKept`: the live bytes are below the peak, the peak is 0 or below the limit,
  and the groups still to be packed are groups of this job;
* `FilesKept`: each file of experts is the one its group must have, made of what is
  read of the source, all of one scalar type, and a group is waiting or has its file;
* `GroupsInOrder`: the files written and the groups that wait are, one after the other,
  the groups of the job in their order;
* `PublishedKept`: until it is edited, the published directory is what `Publish` made of
  the staged files, and its tokenizer fits the vocabulary;
* `ResidentKept`: the reference model holds the tensors of the same source.

TLC checked all of them on the states of `packed_roundtrip` before they were proved.
The arguments they feed:

1. *A record parses to what was encoded.* The header's sizes, scalar type and section
   lengths are read back, the three sections are cut at the offsets they were joined at,
   and every checked sum that `encode_raw` passed, `parse` passes.
2. *A slice of a fused array is an expert's matrix.* The bytes of a tensor are its
   elements in row-major order, so the range that `convert_fused_expert_tensors` computes
   for expert *e* is the one the reference model takes from the whole array, for the
   gate, the up and the down projection.
3. *Names do not collide.* Five decimal digits determine a number below 100000, and so a
   file or record name its layer and expert; what `OpenStore` finds under a name is the
   one tensor written under it, in whichever file.
4. *Groups cover.* Every expert of every sparse layer is in one of its layer's groups,
   also when the last group is shorter than the others.
5. *What loads was converted* (`LoadedModel`). The digests force both collections to be
   the staged ones. The dense names that `validate_dense_inventory` demands are then those
   of the original: from them and from the shapes that loading demands follow the
   layers, which of them are sparse, biases and tied embeddings, widths and head counts, as far as
   a parameter depends on them; so the parameters are the same ones, although the
   configuration beside them may have been exchanged. Record names give the
   experts. The size of each record, which `validate_expert_inventory` compares, is
   different for every scalar type a manifest may name instead (`SameScalar`), so also the
   scalar type is the original one, and the record is the one `StreamedMatches` is about.

6. *What is published passes every check* (`Usable`). A manifest names its files in the
   order they were written; a store lists them by name. The two are the same list
   (`ListedAsWritten`): zero-padded numbers compare as strings as they do as numbers
   (`DigitsPrecede` and the lemmas before it), layers ascend in every family, and so do the
   groups of a layer, so names are written in ascending order (`DenseInOrder`,
   `ExpertsInOrder`), and the n-th name of a directory is the one with n - 1 before it.
   The number of files is the one `validate_manifest` computes from the counts and the
   experts per file. The records stored are exactly one for each expert of each sparse layer
   (`PublishedNames`), as many as layers times experts (`CountNames`), and of the one size
   that the geometry and the scalar type give. The ranges of every dense tensor follow one
   another from its first byte to its last, an empty tensor included (`CopyIsWhole`). A
   streaming load asks for the shapes of `ModelParameters`; the reference model has them
   (`ResidentShapes`) and its tensors are those that were copied.

`BuffersBounded` follows what `AddRecord` adds up: the bytes kept of earlier records of the
file, those read for this one and those of its encoding, of which the length that
`encode_raw` writes is shown to be no more than what was compared with the limit.
`LayoutSuffices` compares, family by family, what the state layout names with what the
shape of a cache depends on.

Folds and `@@` of the community modules have no theorems in the library. The modules
this proof is about therefore compute products and the records of a file with
recursive functions (`Elements`, `GroupExperts`), sparse layers likewise
(`SparseLayers`), and join collections by name with `Joined`.

Assumptions used: the named ones in the modules (`SchedulerAssumption`,
`WorkerAssumption`, `RegistryAssumption`, `StopsAssumption`, `BoundsAssumption`,
`JobsAssumption`, `NamesAssumption`, `GeometryAssumption`, `DecoderAssumption`,
`RequestAssumption`, `ModelAssumption` and `TokenizerAssumption`), which say that limits
are natural numbers, that a model has finitely many experts, at least `top_k` of them, and
a row of router probabilities per token, that `None` is none of the values it stands apart from,
that conversions and encryptions are different runs, and that no stop sequence is empty
(`request.rs` refuses one). Of a job of `PackedConversion` they say that its tensors are
those of some valid configuration in one of the family's layouts, that whatever parses
as a `config.json` has fields of its types, and (`NamesAssumption`) that it has at most
100000 layers, experts and dense tensors: names are written with `{:05}`, and five
digits is all `DecimalDigits` has. (The code would go on with six; names would stay
different, but `OpenStore` would list them in another order.) TLC evaluates all of them in
the runs.

Only model-checked:

* liveness (`StepEnds`, `CancelledReaped`, `StreamsEnd`, `ShutdownExits`), which this
  prover cannot do;
* `SamplesByWeight`, which counts draws over all candidates: that a weighted draw
  meets each of them in proportion is a statement about sums over a sorted sequence of
  powers of two, and the provers know nothing of `^` (not even that `2^n` is positive).

## 5. Not modelled

* Power itself: its admission queue's order, memory reservations and accounting,
  transcripts, the format of an encrypted collection.
* The arithmetic of tensors: softmax, projections, normalization, rounding. The models
  say which operands meet in which order; `DecoderStep` is given the probabilities that
  experts are ranked by, ties among them. `Sampler` has exact sums, so the fallback
  to the last candidate after rounding (`sample`) is not reached.
* JSON and template engines, tokenization, file handles, logging, telemetry, evidence
  digests.
* Mutex poisoning: the code recovers the inner value, and the models have no panics.
* *Continuous model adapters* hand each call on and decide nothing.
* *Public validation harness* and *binaries*: sequential programs over the parts
  above, reading files, comparing numbers and printing. The dispatch of the packing
  tool on the family is in `PackedConversion`.

The parts marked *partly* in `PROJECT.json` say there what is left out of them.

## 6. Plan

In order of what they would add:

1. That a call of `StreamingBatch` implements the atomic `Forward`/`ForwardFails` of
   the scheduler, as a refinement.
2. `SamplesByWeight`, with the weights as a recursive function of the logit instead of
   `^`, and with the partial sums of the weights as the lemma.
3. A reader of the encrypted destination in `CheckpointPublish`, with the reservations
   that a loader makes with Power.
