# The Firestore client in TLA+

This directory holds TLA+ specifications of the Firestore client of the Firebase
Apple SDK (`src/Firestore/core`), the TLC configurations that check them on small
instances and TLAPS proofs of their main safety properties. The subject is the part
of the SDK where many things happen in an order nobody controls: local writes that
survive stream failures, user changes, network switches and restarts.

Paths below are relative to `src/Firestore/core/src`.

## 1. The system

### Parts

| Part | Source | State | Operations | Modelled in |
| --- | --- | --- | --- | --- |
| Stream | `remote/stream.cc` | state, close count, backoff, idle and health timers, pending credentials | Start, Stop, Close, MarkIdle, InhibitBackoff, timer and credentials callbacks | `Stream` |
| Write stream | `remote/write_stream.cc` | handshake flag, stream token | WriteHandshake, WriteMutations, NotifyStreamResponse, NotifyStreamClose | `WritePath` |
| RemoteStore, write side | `remote/remote_store.cc` | network flag, write pipeline | FillWritePipeline, stream callbacks, EnableNetwork, DisableNetwork, RestartNetwork | `WritePath` |
| SyncEngine, write side | `core/sync_engine.cc` | current user, callbacks of writes and of waitForPendingWrites | WriteMutations, RegisterPendingWritesCallback, HandleSuccessfulWrite, HandleRejectedWrite, HandleCredentialChange | `WritePath` |
| Mutation queues | `local/leveldb_mutation_queue.cc`, `local/memory_mutation_queue.cc` | batches per user, next batch id, stream token | Start, AddMutationBatch, RemoveMutationBatch, NextMutationBatchAfterBatchId, GetHighestUnacknowledgedBatchId | `WritePath` (order and ids) |
| FirestoreClient | `core/firestore_client.cc` | termination | Initialize, user calls, credential listener, Terminate | `WritePath` (without termination) |
| Watch stream, RemoteStore watch side | `remote/watch_stream.cc`, `remote/remote_store.cc` | listen targets | Listen, StopListening, OnWatchStreamChange, RaiseWatchSnapshot | planned |
| OnlineStateTracker | `remote/online_state_tracker.cc` | online state, failure count, timer | HandleWatchStreamStart, HandleWatchStreamFailure, UpdateState | planned |
| WatchChangeAggregator | `remote/remote_event.cc` | per-target state, pending requests, pending documents | HandleDocumentChange, HandleTargetChange, HandleExistenceFilter, CreateRemoteEvent | planned |
| SyncEngine, limbo resolution | `core/sync_engine.cc` | queued and active limbo documents, targets | Listen, StopListening, ApplyRemoteEvent, HandleRejectedListen, PumpEnqueuedLimboResolutions | planned |
| EventManager, QueryListener, View | `core/event_manager.cc`, `core/query_listener.cc`, `core/view.cc` | listeners, last snapshots, synced and limbo documents | AddQueryListener, OnViewSnapshots, ApplyChanges | planned |
| GrpcStream, GrpcCompletion | `remote/grpc_stream.cc`, `remote/grpc_completion.cc` | buffered writes, outstanding completions | Read, Write, FinishImmediately, OnOperationFailed | planned |
| AsyncQueue, Executor, Task | `util/async_queue.cc`, `util/executor_std.cc`, `util/task.cc` | mode, scheduled tasks, task states | Enqueue, EnqueueAfterDelay, Cancel, Dispose | planned |
| Transactions | `core/transaction.cc`, `core/transaction_runner.cc` | versions read, mutations, attempts | Lookup, Set, Commit, Run | planned |
| ExponentialBackoff | `remote/exponential_backoff.cc` | current base | BackoffAndRun | planned |
| LRU garbage collection | `local/lru_garbage_collector.cc` | sequence numbers | Collect | planned, last |

`PROJECT.json` lists also the parts that are not planned (pure functions on values and
bytes, API wrappers, the other products of the repository), with the reason for each.

### How the write path works

A call of `WriteMutations` puts a batch on the current user's mutation queue and
calls `FillWritePipeline`, which copies batches from the queue to the pipeline (at
most 10) and starts the write stream. The stream asks for credentials, opens, sends a
handshake, and after the response to it sends the whole pipeline. "Write responses
from the backend are linked to their originating request purely based on order"
(`remote/remote_store.h`): a response settles the front of the pipeline. An error
closes the stream: a permanent error rejects the front batch (after the handshake)
or clears the stream token (before it), any other error leaves the pipeline for the
next connection. With no writes left the stream is marked idle and a timer stops it.

All of this runs on one serial worker queue. Concurrency comes from what is *between*
its tasks: timers, credentials requests and gRPC completions that were started in one
state and arrive in another.

### What is hard

- A response has no batch id, so every path that changes the pipeline must keep it
  aligned with the messages in transit.
- Credentials and timers outlive the stream state in which they were requested.
- The handshake flag is reset *after* the close callback, which may already restart
  the stream and refill the pipeline.
- Batch ids are reused when a queue is empty; the callbacks are filed by batch id.
- The process may end between the success callback and the removal of the batch, or
  between the removal of a rejected batch and its callback.
- A response may be lost although it reached the client: it does not decode, or the
  final status of the stream overtakes it.
- The backend may process requests of a connection the client has given up.

The hazards are listed with their source lines in `PROJECT.json`.

## 2. Modules

| Module | Content |
| --- | --- |
| `Stream` | A stream as a record; one operator per method of class `Stream`. No variables: it is used by the modules that own a stream. |
| `WritePath` | The write path of the client, its connection and the backend. |
| `WriteQueue` | The abstract specification: a FIFO queue of writes per user. |
| `WritePathRefinement` | The refinement mapping from `WritePath` to `WriteQueue`. |
| `MCWritePath` | The instances for TLC. |
| `WritePathPipeline`, `WritePathProofs` | The inductive invariant, its lemmas and the theorems. |

### WritePath and the code

The variable `client` is a record with one field per field of the C++ objects
(`ClientType` gives the correspondence). Each C++ method is an operator that takes the
client and returns the client the method leaves behind *with all the calls it makes*.
An action is one task of the worker queue, that is, one entry point: a call of the
user (`WriteMutations`, `WaitForPendingWrites`, `UserEnablesNetwork`,
`UserDisablesNetwork`), a change from outside (`CredentialChange`,
`ConnectivityChange`), a timer (`BackoffTimer`, `IdleTimer`, `HealthTimer`), an answer
to a credentials request (`CredentialsArrive`, `CredentialsFail`) or a gRPC event
(`StreamRead`, `StreamReadFails`, `StreamFinish`). `Restart` ends the process and opens
the database again, also in the middle of `HandleSuccessfulWrite` and of
`HandleRejectedWrite`.

`StreamReadFails` is the response that does not decode. `WriteStream` notices this
before or after it has captured the token of the response; in both cases the stream
ends with DataLoss, a permanent error. `StreamFinish` may come while responses are
queued and drops them: when a write operation fails, `GrpcStream` turns the queued
completions into no-ops before it asks for the status
(`remote/grpc_stream.cc:231-252`).

A `HARD_ASSERT` is the operator `Check`: it records the name of an assertion that
does not hold and lets the method continue, so that `NoAssertionFails` shows all of
them.

Abstractions:

- A write is a number, in the order the application issued it. Its batch id is kept
  apart, because ids are reused.
- Three errors stand for the status codes: `"unavailable"` is retried, `"aborted"` is
  permanent for a handshake and not for a write, `"denied"` is permanent for both
  (PermissionDenied, DataLoss and the others `IsPermanentError` lists).
- A stream token is the number of the response that delivered it. Every response has a
  token of its own, and the numbers go on across restarts.
- Delays are not modelled: a scheduled timer fires at any time or never, unless it is
  cancelled.
- What a write does to documents and views is not modelled.

The history fields of `client.app` (`owner`, `outcome`, `told`, `fired`, `forgotten`)
record what the application saw; no guard depends on them, except that the length of
`owner` names the next write.

### External behaviour

The backend and the network are modelled from how the client uses them
(`ServerHandshake`, `ServerCommit`, `ServerCommitsLate`, `ServerRefuse`,
`ConnectionLost`):

- it reads the requests of a stream in order and answers each one; responses arrive
  in order. A broken connection loses any number of the last responses, and the
  requests it did not read;
- requests of a closed connection may be processed later, once, still in order within
  that connection; the requests of a stream the backend itself ended are not;
- it does not end a stream with status OK. If it did while the pipeline is not empty,
  the assertion in `OnWriteStreamClose` (`remote/remote_store.cc:482`) would fail.

## 3. Properties

Safety (checked by TLC; the first four are also proved):

- `TypeOK`.
- `NoAssertionFails`: no `HARD_ASSERT` of the write path fails.
- `PipelineIsQueuePrefix`: the pipeline is the beginning of the user's queue.
- `ResponsesMatchPipeline`: the messages in transit are the pipeline, in order.
- `OutcomesAreTrue`: a write is acknowledged, and reported as a success, only after the
  backend committed it. It is rejected, and reported as a failure, only if the backend
  refused it or in the very step that drops its response. This is weaker than "a
  rejected write was refused", which the code does not guarantee (`rejected_write`
  below); what it excludes is that an error or a response is charged to another write.
- `ReportedExactlyOnce`: each write of the running process is reported once, with its
  own outcome.
- `WaitsForPendingWrites`, `WaitersAreReachable`: `waitForPendingWrites` succeeds only
  after the writes it covers, and no waiter is left behind.
- `TokensAgree`: on a stream that can send writes, the token in use is that of the
  latest response, handshake or acknowledgement, and the stored one.
- `ImplementsWriteQueue`: refinement of `WriteQueue`. A write may be processed more
  than once by the backend, but never before an earlier write of the same user was, and
  the client settles a user's writes in order, each after it was processed: it
  acknowledges only committed writes, and rejects a committed or a refused one.

Liveness (TLC, under `FairSpec`): `WritesSettle`, `IdleStreamCloses`.

Not claimed: that the backend processes a write at most once (a lost response makes
the client send it again), or that a rejected write was never committed (a retry of a
committed write may be refused, and its response may be dropped).

### Fairness

`FairSpec` assumes that the worker queue eventually runs some task when one is
pending and that the backend eventually answers a request it has received. Both are
weak fairness of a disjunction of actions, written with explicit enabling predicates.
The first is what a serial queue does with the tasks it holds (timers fire, GetToken
calls back); the second is an assumption on the backend. Nothing is assumed of the
application, of connectivity, of errors or of restarts. Errors are finitely many
because `MaxCloses` bounds them: `WritesSettle` says that a write settles once the
errors stop.

## 4. Runs

| Run | Instance | Question |
| --- | --- | --- |
| `write_pipeline` | 1 user, pipeline of 2, 3 writes, 1 wait, 2 closes, 1 late commit, LevelDB | Do pipeline, responses, outcomes and waiters stay aligned, and is the FIFO queue implemented? |
| `write_restart` | 2 users, pipeline of 2, 2 writes, 1 close per process, 1 restart, 1 late commit, LevelDB | Are writes reported once, tokens stored and the FIFO queue implemented across user changes and a restart at any point? |
| `write_memory` | 2 users, pipeline of 2, 3 writes, 1 wait, 2 closes, memory | The same for the queues whose ids start again at 1, and for waiters at a user change. |
| `write_liveness` | 2 users, pipeline of 1, 2 writes, 2 closes | Do writes settle and unused streams close? |
| `rejected_write` | 1 user, 1 write, 2 closes | Is a rejected write one the backend refused, as a comment in `remote_store.cc` says? It is not. |
| `stop_from_error` | 1 user, 1 write, 2 closes | Does `Stop()` lead to state Initial, as the diagram in `stream.h` says? It does not. |

Bounds. In `write_pipeline`, `write_memory` and `write_liveness` the pipeline is
shorter than the number of writes, so that it is full, drains and is refilled;
`write_restart` has as many slots as writes, so that an acknowledgement can be followed
by another on the same connection and a crash can hit either. Two closes let one
connection fail, a second one carry the retry and fail too, with the credentials and
timers of the first still outstanding. Two users are enough for ids of one user to
collide with those of another. Users are interchangeable (`UserSymmetry`); the
liveness run does not use symmetry. No run disables the deadlock check: the
application may always switch the network on again.

`rejected_write` is expected to fail. `HandleWriteError` rejects the first batch of
the pipeline on every permanent error, because "If this was a permanent error, the
request itself was the problem" (`remote/remote_store.cc:538`). The counterexample
commits the write and delivers a response that does not decode. `WriteStream` reports
DataLoss, which is permanent (`remote/datastore.cc:411`), and the application hears
that a committed write failed. A refusal of the second write of a pipeline does the
same to the first when it overtakes the first one's response.

`stop_from_error` is expected to fail. `Stream::Close` returns early when a stream
that is not started is stopped gracefully (`remote/stream.cc:290`), so a stream in
state Error stays there and its next start backs off; the diagram
(`remote/stream.h:82`) says that `Stop()` leads from any state to INITIAL.

Every property of a passing run has a mutant: an operator marked *Faulty* in
`WritePath`, a plausible slip in the method it stands before, for which TLC finds the
property violated.

## 5. Proofs

`WritePathProofs` proves, for every set of users, every pipeline length, both kinds
of persistence and all values of the bounds:

    InvariantHolds           Spec => []IndInv
    TypeCorrect              Spec => []TypeOK
    AssertionsHold           Spec => []NoAssertionFails
    PipelineFollowsQueue     Spec => []PipelineIsQueuePrefix
    ResponsesFollowPipeline  Spec => []ResponsesMatchPipeline

from the assumptions that `Users` is not empty, `MaxPendingWrites` is positive,
`Persistence` is one of its two values and the bounds are natural numbers.

None of the properties is inductive alone. `IndInv` (module `WritePathPipeline`)
adds what they depend on:

- `QueueInv`: ids increase along each queue, and those of a queue that may be appended
  to are below its next id. For LevelDB this holds for the current user only, because
  `LoadNextBatchIdFromDb` recomputes the id at each user change; for memory
  persistence it holds for all users.
- `StreamInv`: a scheduled backoff timer implies state Backoff; credentials that are
  still current imply state Starting; an idle stream is open with its handshake done;
  only an open stream carries messages.
- `PipeInv`: the pipeline is a prefix of the queue within its bound, empty when the
  stream is idle or the network off, and not empty while the stream is on its way to
  the handshake.
- `WireInv`: before the handshake only the handshake is on the wire; afterwards the
  responses are the first batches of the pipeline and, unless the connection broke,
  the requests are the others.
- the handshake flag implies an open stream. This conjunct fails *inside* a step,
  between `OnWriteStreamClose` and the reset of the flag; `Base` is the invariant
  without it, and the lemmas on closing use `Base`.

There is one lemma per method, in the order in which methods call each other, then
one lemma per group of actions.

Only model-checked: the other safety properties, the refinement (a proof is planned,
see below), and liveness, which is out of the prover's reach.

## 6. Plan

In this order:

1. `WatchPath`: the watch stream (a second use of `Stream`), `listen_targets_` and
   `OnlineStateTracker`; properties: pending-response counts match the requests in
   transit, no snapshot for a target that is not listened to, the tracker reaches a
   definite state while the network is on.
2. `WatchChangeAggregator`: target states against late responses to earlier requests,
   existence filters and resets; checked against a definition of the documents a
   target matches. `WatchPath` composes it.
3. `LimboResolution`: the listen side of SyncEngine; at most
   `kMaxConcurrentLimboResolutions` active targets, every limbo document is
   eventually resolved or dropped, target ids of the two generators never clash.
4. `GrpcStream` and `AsyncQueue`: completions of the gRPC thread, task cancellation and
   termination; to discharge what `WritePath` assumes of them (serial tasks, no
   cancelled timer runs, responses in order).
5. `Transaction`: optimistic commits and retries against concurrent writers, with
   serializability as the abstract specification.
6. `EventManager` and `QueryListener`; `ExponentialBackoff` as a function; LRU
   collection.
7. Proofs: `OutcomesAreTrue` and `ReportedExactlyOnce`, the refinement of
   `WriteQueue`, then the invariants of the new modules.

## 7. Running

    tlc -workers 2 -config WritePipeline.cfg MCWritePath
    tlapm WritePathPipeline.tla
    tlapm WritePathProofs.tla
