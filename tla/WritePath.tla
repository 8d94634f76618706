----------------------------- MODULE WritePath -----------------------------
(***************************************************************************)
(* How a local write reaches the backend.  SyncEngine::WriteMutations puts *)
(* a mutation batch on the current user's mutation queue; the RemoteStore  *)
(* copies at most MaxPendingWrites batches into its write pipeline, sends  *)
(* them over the write stream after a handshake, and matches each response *)
(* with the front of the pipeline.  Streams fail and are restarted, the    *)
(* network is switched off and on, users change, and the process may be    *)
(* restarted.                                                              *)
(*                                                                         *)
(* All client code runs on one serial worker queue, so each task of that   *)
(* queue is one action.  Every operator with a parameter c is one method   *)
(* of the code: it takes the state of the client and returns the state the *)
(* method, with all the calls it makes, leaves behind.                     *)
(***************************************************************************)
EXTENDS Integers, Sequences, FiniteSetsExt, Stream

CONSTANTS Users,             \* the users that may be signed in
          MaxPendingWrites,  \* kMaxPendingWrites of remote_store.cc
          Persistence,       \* "leveldb" or "memory"
          MaxWrites,         \* bound: writes the application issues
          MaxWaits,          \* bound: calls of waitForPendingWrites
          MaxCloses,         \* bound: times one process closes the stream
          MaxRestarts,       \* bound: times the process is restarted
          MaxLate            \* bound: commits on connections already closed

ASSUME UsersAssumption == Users # {}
ASSUME PipelineAssumption == MaxPendingWrites \in Nat \ {0}
ASSUME PersistenceAssumption == Persistence \in {"leveldb", "memory"}
ASSUME BoundsAssumption ==
    /\ MaxWrites \in Nat /\ MaxWaits \in Nat /\ MaxCloses \in Nat
    /\ MaxRestarts \in Nat /\ MaxLate \in Nat

VARIABLES client,    \* the client and its connection (see ClientType)
          log,       \* the writes the backend committed, in commit order
          refused,   \* the writes the backend refused with a permanent error
          spent      \* how often each counted event has happened

vars == <<client, log, refused, spent>>

(* The errors that end a stream: those the client retries, those that are  *)
(* permanent for the handshake but not for a write (Aborted), and those    *)
(* that are permanent for both (PermissionDenied, DataLoss, ...).          *)
Error == {"unavailable", "aborted", "denied"}

IsPermanentError(e) == e \in {"aborted", "denied"}

IsPermanentWriteError(e) == IsPermanentError(e) /\ e # "aborted"

(* A write is named w by the order in which the application issued it; id  *)
(* is the batch id the mutation queue gives it, which may be reused once   *)
(* the batch is gone.                                                      *)
Batch == [id : Nat \ {0}, w : Nat \ {0}]

Writes(q) == [i \in DOMAIN q |-> q[i].w]

Back(q) == q[Len(q)]

(* On the wire 0 is the handshake and w > 0 is write w or its response. *)
Handshake == 0

kBatchIdUnknown == -1

Outcome == {"pending", "acked", "rejected"}

(* What SyncEngine keeps for the application, and what the application     *)
(* has seen: the last five fields only record history.                     *)
AppType ==
    [callbacks : [Users -> SUBSET Batch],              \* mutation_callbacks_
     waiters   : SUBSET [id : Nat, on : SUBSET Nat],   \* pending_writes_callbacks_
     owner     : Seq(Users),                           \* who issued each write
     outcome   : Seq(Outcome),                         \* what became of it
     told      : SUBSET [w : Nat, ok : BOOLEAN],       \* write callbacks run
     fired     : SUBSET [on : SUBSET Nat, ok : BOOLEAN],  \* wait callbacks run
     forgotten : SUBSET Nat]                           \* writes before a restart

ClientType ==
    [user       : Users,                   \* current_user_
     queue      : [Users -> Seq(Batch)],   \* the mutation queues
     nextId     : [Users -> Nat],          \* next_batch_id_
     savedToken : [Users -> Nat],          \* the queue's last_stream_token
     net        : BOOLEAN,                 \* is_network_enabled_
     pipe       : Seq(Batch),              \* write_pipeline_
     stream     : StreamType,              \* write_stream_
     handshake  : BOOLEAN,                 \* handshake_complete_
     token      : Nat,                     \* last_stream_token_
     toServer   : Seq(Nat),                \* requests in transit
     fromServer : Seq(Nat),                \* responses in transit
     fin        : Error \cup {"none"},     \* the status the stream ends with
     abandoned  : Seq(Seq(Nat)),           \* requests of closed connections
     failed     : SUBSET STRING,           \* HARD_ASSERTs that failed
     app        : AppType]

(* Records that the HARD_ASSERT called name does not hold. *)
Check(c, name, holds) ==
    IF holds THEN c ELSE [c EXCEPT !.failed = @ \cup {name}]
-----------------------------------------------------------------------------
(* The mutation queue: a table of batches ordered by batch id. *)

(* The number of leading batches of q whose id is smaller than id. *)
SeekIndex(q, id) ==
    CHOOSE k \in 0 .. Len(q) : /\ \A i \in 1 .. k : q[i].id < id
                               /\ k < Len(q) => q[k + 1].id >= id

BatchIds(queue) ==
    UNION {{queue[u][i].id : i \in 1 .. Len(queue[u])} : u \in Users}

LoadNextBatchIdFromDb(queue) == 1 + Max({0} \cup BatchIds(queue))

(* Faulty: the ids start again although the queue is not empty. *)
StartMutationQueueFromOne(c) == [c EXCEPT !.nextId[c.user] = 1]

StartMutationQueue(c) ==
    [c EXCEPT !.nextId[c.user] =
        IF Persistence = "leveldb" THEN LoadNextBatchIdFromDb(c.queue)
        ELSE IF c.queue[c.user] = <<>> THEN 1 ELSE @]

AddMutationBatch(c, w) ==
    LET q  == c.queue[c.user]
        id == c.nextId[c.user]
    IN  [Check(c, "batch ids increase", q = <<>> \/ Back(q).id < id)
         EXCEPT !.queue[c.user] = Append(@, [id |-> id, w |-> w]),
                !.nextId[c.user] = @ + 1]

RemoveMutationBatch(c, id) ==
    LET q == c.queue[c.user]
        k == SeekIndex(q, id) + 1
        found == k <= Len(q) /\ q[k].id = id
    IN  [Check(c, "removed batch is in the queue",
               found /\ (Persistence = "memory" => k = 1))
         EXCEPT !.queue[c.user] =
           IF found THEN SubSeq(@, 1, k - 1) \o SubSeq(@, k + 1, Len(@)) ELSE @]

(* Faulty: the lowest id instead of the highest. *)
GetLowestUnacknowledgedBatchId(c) ==
    LET q == c.queue[c.user] IN IF q = <<>> THEN kBatchIdUnknown ELSE Head(q).id

GetHighestUnacknowledgedBatchId(c) ==
    LET q == c.queue[c.user]
    IN  IF q = <<>> THEN kBatchIdUnknown
        ELSE IF Persistence = "leveldb" THEN Back(q).id
        ELSE c.nextId[c.user] - 1
-----------------------------------------------------------------------------
(* SyncEngine: what the application is told. *)

(* Faulty: the callback stays in the map after it ran. *)
NotifyUserWithoutErase(c, id, ok) ==
    LET mine == {b \in c.app.callbacks[c.user] : b.id = id}
    IN  [c EXCEPT !.app.told = @ \cup {[w |-> b.w, ok |-> ok] : b \in mine}]

(* Faulty: callbacks are looked up by batch id alone, for all users. *)
NotifyAnyUser(c, id, ok) ==
    LET mine(u) == {b \in c.app.callbacks[u] : b.id = id}
        all == UNION {mine(u) : u \in Users}
    IN  [c EXCEPT !.app = [@ EXCEPT !.told = @ \cup {[w |-> b.w, ok |-> ok] : b \in all},
                                    !.callbacks = [u \in Users |-> @[u] \ mine(u)]]]

NotifyUser(c, id, ok) ==
    LET a    == c.app
        mine == {b \in a.callbacks[c.user] : b.id = id}
        told == a.told \cup {[w |-> b.w, ok |-> ok] : b \in mine}
        left == [a.callbacks EXCEPT ![c.user] = @ \ mine]
    IN  [c EXCEPT !.app = [a EXCEPT !.told = told, !.callbacks = left]]

TriggerPendingWriteCallbacks(c, id) ==
    LET a     == c.app
        due   == {r \in a.waiters : r.id = id}
        fired == a.fired \cup {[on |-> r.on, ok |-> TRUE] : r \in due}
        left  == a.waiters \ due
    IN  [c EXCEPT !.app = [a EXCEPT !.fired = fired, !.waiters = left]]

FailOutstandingPendingWriteCallbacks(c) ==
    LET a     == c.app
        fired == a.fired \cup {[on |-> r.on, ok |-> FALSE] : r \in a.waiters}
    IN  [c EXCEPT !.app = [a EXCEPT !.fired = fired, !.waiters = {}]]

(* Faulty: the callback is also registered when nothing is pending. *)
RegisterAlways(c) ==
    [c EXCEPT !.app.waiters = @ \cup {[id |-> GetHighestUnacknowledgedBatchId(c),
                                       on |-> Range(Writes(c.queue[c.user]))]}]

RegisterPendingWritesCallback(c) ==
    LET id == GetHighestUnacknowledgedBatchId(c)
        on == Range(Writes(c.queue[c.user]))
    IN  IF id = kBatchIdUnknown
        THEN [c EXCEPT !.app.fired = @ \cup {[on |-> on, ok |-> TRUE]}]
        ELSE [c EXCEPT !.app.waiters = @ \cup {[id |-> id, on |-> on]}]

(* The callback of write w is filed under its batch id; the insert keeps   *)
(* an entry that is already there.                                         *)
RegisterWrite(c, b) ==
    LET a     == c.app
        taken == \E x \in a.callbacks[c.user] : x.id = b.id
        filed == IF taken THEN a.callbacks
                 ELSE [a.callbacks EXCEPT ![c.user] = @ \cup {b}]
    IN  [c EXCEPT !.app = [a EXCEPT !.owner = Append(a.owner, c.user),
                                    !.outcome = Append(a.outcome, "pending"),
                                    !.callbacks = filed]]

RecordOutcome(c, w, result) == [c EXCEPT !.app.outcome[w] = result]

(* The callbacks that HandleSuccessfulWrite runs before the batch leaves   *)
(* the mutation queue.                                                     *)
AnnounceSuccess(c, b) ==
    TriggerPendingWriteCallbacks(NotifyUser(c, b.id, TRUE), b.id)

(* Faulty: the token of the response is not stored with the acknowledgement. *)
HandleSuccessfulWriteWithoutToken(c, b) ==
    RemoveMutationBatch(RecordOutcome(AnnounceSuccess(c, b), b.w, "acked"), b.id)

(* The callbacks, then LocalStore::AcknowledgeBatch. *)
HandleSuccessfulWrite(c, b) ==
    LET d == RecordOutcome(AnnounceSuccess(c, b), b.w, "acked")
    IN  RemoveMutationBatch([d EXCEPT !.savedToken[c.user] = c.token], b.id)

(* LocalStore::RejectBatch. *)
RejectBatch(c, b) == RemoveMutationBatch(RecordOutcome(c, b.w, "rejected"), b.id)

(* Faulty: waitForPendingWrites is not triggered by a rejected write. *)
HandleRejectedWriteSilently(c, b) == NotifyUser(RejectBatch(c, b), b.id, FALSE)

HandleRejectedWrite(c, b) ==
    TriggerPendingWriteCallbacks(NotifyUser(RejectBatch(c, b), b.id, FALSE), b.id)
-----------------------------------------------------------------------------
(* RemoteStore and WriteStream: sending. *)

(* WriteStream::WriteMutations for each of the given batches. *)
SendMutations(c, batches) ==
    IF batches = <<>> THEN c
    ELSE [Check(c, "stream ready for mutations", IsOpen(c.stream) /\ c.handshake)
          EXCEPT !.stream = CancelIdleCheck(@),
                 !.toServer = @ \o Writes(batches)]

WriteHandshake(c) ==
    [Check(c, "stream ready for handshake", IsOpen(c.stream) /\ ~c.handshake)
     EXCEPT !.stream = CancelIdleCheck(@),
            !.toServer = Append(@, Handshake)]

ShouldStartWriteStream(c) == c.net /\ ~IsStarted(c.stream) /\ c.pipe # <<>>

StartWriteStream(c) ==
    [Check(c, "write stream may start", ShouldStartWriteStream(c) /\ CanStart(c.stream))
     EXCEPT !.stream = Start(@)]

MaybeStartWriteStream(c) ==
    IF ShouldStartWriteStream(c) THEN StartWriteStream(c) ELSE c

(* Faulty: batches are sent as soon as the stream is open. *)
AddBeforeHandshake(c, batches) ==
    LET d == [c EXCEPT !.pipe = @ \o batches]
    IN  IF IsOpen(c.stream) THEN SendMutations(d, batches) ELSE d

AddToWritePipeline(c, batches) ==
    LET d == [c EXCEPT !.pipe = @ \o batches]
    IN  IF IsOpen(c.stream) /\ c.handshake THEN SendMutations(d, batches) ELSE d

(* Faulty: the search starts at the last batch instead of after it. *)
NextBatchesFromLast(c) ==
    LET q    == c.queue[c.user]
        last == IF c.pipe = <<>> THEN kBatchIdUnknown ELSE Back(c.pipe).id
        from == SeekIndex(q, last)
        room == IF c.net THEN MaxPendingWrites - Len(c.pipe) ELSE 0
    IN  SubSeq(q, from + 1, Min({from + room, Len(q)}))

(* The batches the loop of FillWritePipeline fetches: those after the last *)
(* one of the pipeline, as many as there is room for.                      *)
NextBatches(c) ==
    LET q    == c.queue[c.user]
        last == IF c.pipe = <<>> THEN kBatchIdUnknown ELSE Back(c.pipe).id
        from == SeekIndex(q, last + 1)
        room == IF c.net THEN MaxPendingWrites - Len(c.pipe) ELSE 0
    IN  SubSeq(q, from + 1, Min({from + room, Len(q)}))

(* Faulty: an empty pipeline does not mark the stream idle. *)
FillWithoutMarkIdle(c) ==
    MaybeStartWriteStream(AddToWritePipeline(c, NextBatches(c)))

FillWritePipeline(c) ==
    LET d == AddToWritePipeline(c, NextBatches(c))
    IN  MaybeStartWriteStream(
            IF d.net /\ d.pipe = <<>> THEN [d EXCEPT !.stream = MarkIdle(@)] ELSE d)
-----------------------------------------------------------------------------
(* RemoteStore and WriteStream: closing. *)

HandleHandshakeError(c, status) ==
    IF IsPermanentError(status)
    THEN [c EXCEPT !.token = 0, !.savedToken[c.user] = 0]
    ELSE c

(* Faulty: the first batch is rejected whatever the error is. *)
RejectOnAnyError(c, status) ==
    FillWritePipeline(HandleRejectedWrite(
        [c EXCEPT !.pipe = Tail(@), !.stream = InhibitBackoff(@)], Head(c.pipe)))

HandleWriteError(c, status) ==
    IF ~IsPermanentWriteError(status) THEN c
    ELSE LET b == Head(c.pipe)
             d == [Check(c, "backoff inhibited when stopped", ~IsStarted(c.stream))
                   EXCEPT !.pipe = Tail(@), !.stream = InhibitBackoff(@)]
         IN  FillWritePipeline(HandleRejectedWrite(d, b))

(* Faulty: the stream is not started again after an error. *)
CloseWithoutRestart(c, status) ==
    LET d == Check(c, "write stream stopped while needed",
                   status = "ok" => ~ShouldStartWriteStream(c))
    IN  IF status = "ok" \/ c.pipe = <<>> THEN d
        ELSE IF c.handshake THEN HandleWriteError(d, status)
        ELSE HandleHandshakeError(d, status)

OnWriteStreamClose(c, status) ==
    LET d == Check(c, "write stream stopped while needed",
                   status = "ok" => ~ShouldStartWriteStream(c))
        e == IF status = "ok" \/ c.pipe = <<>> THEN d
             ELSE IF c.handshake THEN HandleWriteError(d, status)
             ELSE HandleHandshakeError(d, status)
    IN  MaybeStartWriteStream(e)

(* The write requests the backend has not read when the stream closes: it  *)
(* may still process them, unless it has itself ended the stream.          *)
Abandoned(c) ==
    IF c.handshake /\ c.toServer # <<>> /\ c.fin \in {"none", "unavailable"}
    THEN <<c.toServer>> ELSE <<>>

(* Faulty: handshake_complete_ is not reset. *)
CloseKeepingHandshake(c, status) ==
    IF status = "ok" /\ ~IsStarted(c.stream) THEN c
    ELSE OnWriteStreamClose(
             [c EXCEPT !.stream = Close(@, status = "ok"),
                       !.toServer = <<>>, !.fromServer = <<>>, !.fin = "none"], status)

(* Stream::Close with the notifications of WriteStream. *)
CloseWriteStream(c, status) ==
    IF status = "ok" /\ ~IsStarted(c.stream) THEN c
    ELSE LET d == [Check(c, "closed stream was started", IsStarted(c.stream))
                   EXCEPT !.stream = Close(@, status = "ok"),
                          !.abandoned = @ \o Abandoned(c),
                          !.toServer = <<>>, !.fromServer = <<>>, !.fin = "none"]
         IN  [OnWriteStreamClose(d, status) EXCEPT !.handshake = FALSE]

Stop(c) == CloseWriteStream(c, "ok")
-----------------------------------------------------------------------------
(* RemoteStore: switching the network on and off. *)

EnableNetwork(c) ==
    FillWritePipeline([c EXCEPT !.net = TRUE, !.token = c.savedToken[c.user]])

(* Faulty: is_network_enabled_ is cleared after the streams are stopped. *)
DisableAfterStop(c) == [Stop(c) EXCEPT !.pipe = <<>>, !.net = FALSE]

(* Faulty: the write pipeline is not cleared. *)
DisableKeepingPipeline(c) == Stop([c EXCEPT !.net = FALSE])

DisableNetwork(c) == [Stop([c EXCEPT !.net = FALSE]) EXCEPT !.pipe = <<>>]

RestartNetwork(c) ==
    LET d == DisableNetwork(c)
    IN  EnableNetwork([Check(d, "backoff inhibited when stopped", ~IsStarted(d.stream))
                       EXCEPT !.stream = InhibitBackoff(@)])

(* Faulty: callbacks of waitForPendingWrites survive a change of the user. *)
HandleCredentialChangeKeepingWaiters(c, u) ==
    LET d == IF u = c.user THEN c ELSE StartMutationQueue([c EXCEPT !.user = u])
    IN  IF d.net THEN RestartNetwork(d) ELSE d

HandleCredentialChange(c, u) ==
    LET d == IF u = c.user THEN c
             ELSE StartMutationQueue(
                      [FailOutstandingPendingWriteCallbacks(c) EXCEPT !.user = u])
    IN  IF d.net THEN RestartNetwork(d) ELSE d

(* FirestoreClient::Initialize on a database that holds the given mutation *)
(* queues and stream tokens.                                               *)
Initialize(u, queue, tokens, app) ==
    EnableNetwork(StartMutationQueue(
        [user |-> u, queue |-> queue, nextId |-> [v \in Users |-> 1],
         savedToken |-> tokens, net |-> FALSE, pipe |-> <<>>, stream |-> NewStream,
         handshake |-> FALSE, token |-> 0, toServer |-> <<>>, fromServer |-> <<>>,
         fin |-> "none", abandoned |-> <<>>, failed |-> {}, app |-> app]))

NewApp == [callbacks |-> [u \in Users |-> {}], waiters |-> {}, owner |-> <<>>,
           outcome |-> <<>>, told |-> {}, fired |-> {}, forgotten |-> {}]
-----------------------------------------------------------------------------
Init ==
    /\ \E u \in Users :
         client = Initialize(u, [v \in Users |-> <<>>], [v \in Users |-> 0], NewApp)
    /\ log = <<>>
    /\ refused = {}
    /\ spent = [waits |-> 0, restarts |-> 0, late |-> 0, reads |-> 0]

(* The bound on how often one process closes the stream. *)
MayClose == client.stream.closes < MaxCloses

(* Steps of the application and of the environment it runs in. *)

(* SyncEngine::WriteMutations. *)
WriteMutations ==
    LET w == Len(client.app.owner) + 1
        c == AddMutationBatch(client, w)
    IN  /\ w <= MaxWrites
        /\ client' = FillWritePipeline(RegisterWrite(c, Back(c.queue[c.user])))
        /\ UNCHANGED <<log, refused, spent>>

WaitForPendingWrites ==
    /\ spent.waits < MaxWaits
    /\ spent' = [spent EXCEPT !.waits = @ + 1]
    /\ client' = RegisterPendingWritesCallback(client)
    /\ UNCHANGED <<log, refused>>

UserEnablesNetwork ==
    /\ client' = EnableNetwork(client)
    /\ UNCHANGED <<log, refused, spent>>

UserDisablesNetwork ==
    /\ MayClose
    /\ client' = DisableNetwork(client)
    /\ UNCHANGED <<log, refused, spent>>

CredentialChange ==
    /\ MayClose
    /\ \E u \in Users : client' = HandleCredentialChange(client, u)
    /\ UNCHANGED <<log, refused, spent>>

(* The connectivity callback that RemoteStore::Start registers. *)
ConnectivityChange ==
    /\ MayClose
    /\ client.net
    /\ client' = RestartNetwork(client)
    /\ UNCHANGED <<log, refused, spent>>

(* Process d ends and a new one opens its database for user u; the         *)
(* mutation queues and the stream tokens are what survives.                *)
Reopened(d, u) ==
    [Initialize(u, d.queue, d.savedToken,
                [d.app EXCEPT !.callbacks = [v \in Users |-> {}], !.waiters = {},
                              !.forgotten = 1 .. Len(d.app.owner)])
     EXCEPT !.abandoned = d.abandoned \o Abandoned(d),
            !.failed = @ \cup d.failed]

(* The process may also end inside HandleSuccessfulWrite, between the      *)
(* callbacks and the transaction that removes the batch, and inside        *)
(* HandleRejectedWrite, where the transaction comes first.                 *)
Restart ==
    /\ Persistence = "leveldb"
    /\ spent.restarts < MaxRestarts
    /\ spent' = [spent EXCEPT !.restarts = @ + 1]
    /\ \E u \in Users :
         \/ client' = Reopened(client, u)
         \/ /\ client.fromServer # <<>> /\ client.handshake /\ client.pipe # <<>>
            /\ client' = Reopened(AnnounceSuccess(client, Head(client.pipe)), u)
         \/ /\ client.fromServer # <<>> \/ IsPermanentWriteError(client.fin)
            /\ client.handshake /\ client.pipe # <<>>
            /\ client' = Reopened(RejectBatch([client EXCEPT !.pipe = Tail(@)],
                                               Head(client.pipe)), u)
    /\ UNCHANGED <<log, refused>>
-----------------------------------------------------------------------------
(* Tasks of the worker queue: timers, credentials, gRPC events. *)

BackoffTimer ==
    /\ client.stream.backoff
    /\ client' = [Check(client, "backoff elapsed in Backoff", client.stream.state = "Backoff")
                  EXCEPT !.stream = BackoffElapsed(@)]
    /\ UNCHANGED <<log, refused, spent>>

IdleTimer ==
    /\ MayClose
    /\ client.stream.idle
    /\ client' = Stop([client EXCEPT !.stream.idle = FALSE])
    /\ UNCHANGED <<log, refused, spent>>

HealthTimer ==
    /\ client.stream.health
    /\ client' = [client EXCEPT !.stream = HealthCheck(@)]
    /\ UNCHANGED <<log, refused, spent>>

(* A credentials request is answered: with a token (status "ok") the gRPC  *)
(* stream starts and the handshake is sent, otherwise the stream closes.   *)
ResumeStartWithCredentials(n, status) ==
    LET c == [client EXCEPT !.stream.creds = @ \ {n}]
        d == Check(c, "credentials arrive while Starting", c.stream.state = "Starting")
    IN  /\ n \in client.stream.creds
        /\ client' = IF ~CredentialsCurrent(c.stream, n) THEN c
                     ELSE IF status = "ok"
                          THEN WriteHandshake([d EXCEPT !.stream = OnStreamStart(@)])
                          ELSE CloseWriteStream(d, status)
        /\ UNCHANGED <<log, refused, spent>>

CredentialsArrive == \E n \in client.stream.creds : ResumeStartWithCredentials(n, "ok")

CredentialsFail ==
    /\ MayClose
    /\ \E n \in client.stream.creds, e \in Error : ResumeStartWithCredentials(n, e)

OnWriteStreamHandshakeComplete(c) ==
    SendMutations([c EXCEPT !.savedToken[c.user] = c.token], c.pipe)

OnWriteStreamMutationResult(c) ==
    LET d == Check(c, "result for empty pipeline", c.pipe # <<>>)
    IN  IF c.pipe = <<>> THEN d
        ELSE FillWritePipeline(
                 HandleSuccessfulWrite([d EXCEPT !.pipe = Tail(@)], Head(c.pipe)))

(* The token of the response that is read next: each response has its own, *)
(* and they are numbered in the order in which they are read.              *)
NextToken == spent.reads + 1

(* OnStreamRead and WriteStream::NotifyStreamResponse. *)
StreamRead ==
    /\ client.fromServer # <<>>
    /\ LET c == [Check(client, "read on a started stream", IsStarted(client.stream))
                 EXCEPT !.fromServer = Tail(@), !.token = NextToken, !.handshake = TRUE]
       IN  client' = IF ~client.handshake THEN OnWriteStreamHandshakeComplete(c)
                     ELSE OnWriteStreamMutationResult(c)
    /\ spent' = [spent EXCEPT !.reads = @ + 1]
    /\ UNCHANGED <<log, refused>>

(* A response that cannot be decoded ends the stream with DataLoss: either *)
(* the whole message, or, once its token has been captured, the results of *)
(* a write.                                                                *)
StreamReadFails ==
    /\ MayClose
    /\ client.fromServer # <<>>
    /\ LET c == Check(client, "read on a started stream", IsStarted(client.stream))
       IN  \/ /\ client' = CloseWriteStream(c, "denied")
              /\ UNCHANGED spent
           \/ /\ client.handshake
              /\ client' = CloseWriteStream([c EXCEPT !.token = NextToken], "denied")
              /\ spent' = [spent EXCEPT !.reads = @ + 1]
    /\ UNCHANGED <<log, refused>>

(* gRPC reports the status of the stream.  Responses that are still queued *)
(* are lost: a write operation that fails makes GrpcStream turn them into  *)
(* no-ops before it asks for the status.                                   *)
StreamFinish ==
    /\ client.fin # "none"
    /\ client' = CloseWriteStream(client, client.fin)
    /\ UNCHANGED <<log, refused, spent>>
-----------------------------------------------------------------------------
(* The backend and the network (external). *)

ServerReady == client.fin = "none" /\ client.toServer # <<>>

ServerHandshake ==
    /\ ServerReady
    /\ Head(client.toServer) = Handshake
    /\ client' = [client EXCEPT !.toServer = Tail(@),
                                !.fromServer = Append(@, Handshake)]
    /\ UNCHANGED <<log, refused, spent>>

ServerCommit ==
    LET w == Head(client.toServer)
    IN  /\ ServerReady
        /\ w # Handshake
        /\ log' = Append(log, w)
        /\ client' = [client EXCEPT !.toServer = Tail(@),
                                    !.fromServer = Append(@, w)]
        /\ UNCHANGED <<refused, spent>>

(* The backend processes a request of a connection the client has closed. *)
ServerCommitsLate ==
    /\ spent.late < MaxLate
    /\ spent' = [spent EXCEPT !.late = @ + 1]
    /\ \E i \in DOMAIN client.abandoned :
         /\ client.abandoned[i] # <<>>
         /\ log' = Append(log, Head(client.abandoned[i]))
         /\ client' = [client EXCEPT !.abandoned[i] = Tail(@)]
    /\ UNCHANGED refused

(* The backend ends the stream because of the request it reads next. *)
ServerRefuse ==
    /\ MayClose
    /\ ServerReady
    /\ \E e \in {"aborted", "denied"} :
         /\ client' = [client EXCEPT !.fin = e]
         /\ refused' = IF e = "denied" /\ Head(client.toServer) # Handshake
                       THEN refused \cup {Head(client.toServer)} ELSE refused
    /\ UNCHANGED <<log, spent>>

(* The connection breaks; any number of the last responses are lost. *)
ConnectionLost ==
    /\ MayClose
    /\ IsOpen(client.stream)
    /\ client.fin = "none"
    /\ \E k \in 0 .. Len(client.fromServer) :
         client' = [client EXCEPT !.fin = "unavailable",
                                  !.fromServer = SubSeq(@, 1, k)]
    /\ UNCHANGED <<log, refused, spent>>

Next ==
    \/ WriteMutations \/ WaitForPendingWrites
    \/ UserEnablesNetwork \/ UserDisablesNetwork
    \/ CredentialChange \/ ConnectivityChange \/ Restart
    \/ BackoffTimer \/ IdleTimer \/ HealthTimer
    \/ CredentialsArrive \/ CredentialsFail
    \/ StreamRead \/ StreamReadFails \/ StreamFinish
    \/ ServerHandshake \/ ServerCommit \/ ServerCommitsLate
    \/ ServerRefuse \/ ConnectionLost

Spec == Init /\ [][Next]_vars

(***************************************************************************)
(* The worker queue runs the tasks it is given: scheduled timers,          *)
(* credentials, completions of gRPC.  The backend processes the requests   *)
(* it reads.  Nothing is assumed of the application, of connectivity, of   *)
(* errors or of restarts.                                                  *)
(***************************************************************************)
WorkerTask ==
    BackoffTimer \/ IdleTimer \/ CredentialsArrive \/ StreamRead \/ StreamFinish

TaskPending ==
    \/ client.stream.backoff \/ (client.stream.idle /\ MayClose)
    \/ client.stream.creds # {} \/ client.fromServer # <<>> \/ client.fin # "none"

BackendStep == ServerHandshake \/ ServerCommit

(* Weak fairness of WorkerTask and of BackendStep, with the predicates     *)
(* that enable them written out.                                           *)
Fairness ==
    /\ []<>~TaskPending \/ []<><<WorkerTask>>_vars
    /\ []<>~ServerReady \/ []<><<BackendStep>>_vars

FairSpec == Spec /\ Fairness
-----------------------------------------------------------------------------
(* Properties. *)

(* Every field of the client has its type; the backend's log and refusals  *)
(* hold writes.                                                            *)
TypeOK ==
    /\ client \in ClientType
    /\ log \in Seq(Nat)
    /\ refused \in SUBSET Nat
    /\ spent \in [waits : Nat, restarts : Nat, late : Nat, reads : Nat]

(* No HARD_ASSERT of the write path (remote_store.cc, stream.cc,           *)
(* write_stream.cc, the mutation queues) ever fails, whatever the order in *)
(* which timers, credentials, responses, errors and user calls arrive.     *)
NoAssertionFails == client.failed = {}

(* The write pipeline is the beginning of the current user's mutation      *)
(* queue: FillWritePipeline skips no batch and sends none twice, also      *)
(* after a user change and after a rejected batch.                         *)
PipelineIsQueuePrefix ==
    client.pipe = SubSeq(client.queue[client.user], 1, Len(client.pipe))

StartsWith(s, f) == \E k \in 0 .. Len(s) : f = SubSeq(s, 1, k)

(* "Write responses from the backend are linked to their originating       *)
(* request purely based on order" (remote_store.h): on an open stream the  *)
(* responses and the requests in transit, in this order, are exactly the   *)
(* pipeline, so a response settles the write it belongs to.                *)
ResponsesMatchPipeline ==
    LET c    == client
        wire == c.fromServer \o c.toServer
        sent == IF c.handshake THEN Writes(c.pipe) ELSE <<Handshake>>
    IN  IF IsOpen(c.stream)
        THEN IF c.fin = "unavailable" THEN StartsWith(sent, c.fromServer) ELSE wire = sent
        ELSE wire = <<>> /\ c.fin = "none"

(* The first response in transit, if any, belongs to write w. *)
IsNextResponse(w) == client.fromServer # <<>> /\ Head(client.fromServer) = w

(* What the client concludes about a write, and tells the application, is  *)
(* about that write: it is acknowledged only after the backend committed   *)
(* it, and rejected only if the backend refused it or in a step that drops *)
(* its response, unreadable or overtaken by the status of the stream.      *)
OutcomesAreTrue ==
    [][\A w \in DOMAIN client.app.outcome :
         LET settled(r)   == /\ client.app.outcome[w] = "pending"
                             /\ client'.app.outcome[w] = r
             reported(ok) == [w |-> w, ok |-> ok] \in client'.app.told \ client.app.told
         IN  /\ settled("acked") \/ reported(TRUE) => w \in Range(log)
             /\ settled("rejected") \/ reported(FALSE) =>
                   w \in refused \/ IsNextResponse(w)]_vars

(* "If this was a permanent error, the request itself was the problem"     *)
(* (remote_store.cc:538, HandleWriteError): the client rejects only writes *)
(* that the backend refused.                                               *)
RejectedWasRefused ==
    \A w \in DOMAIN client.app.outcome :
        client.app.outcome[w] = "rejected" => w \in refused

(* A write issued by this process either still has its callback in         *)
(* mutation_callbacks_ or has been reported exactly once, with its own     *)
(* outcome: reuse of batch ids and user changes lose and mix up none.      *)
ReportedExactlyOnce ==
    \A w \in DOMAIN client.app.outcome :
        LET reports == {t \in client.app.told : t.w = w}
            waiting == \E b \in client.app.callbacks[client.app.owner[w]] : b.w = w
        IN  /\ w \notin client.app.forgotten =>
                  IF client.app.outcome[w] = "pending" THEN waiting /\ reports = {}
                  ELSE ~waiting /\ reports = {[w |-> w, ok |-> client.app.outcome[w] = "acked"]}
            /\ w \in client.app.forgotten => ~waiting

(* When waitForPendingWrites succeeds, the backend has committed or        *)
(* refused every write that was pending when it was called.                *)
WaitsForPendingWrites ==
    \A f \in client.app.fired : f.ok => f.on \subseteq Range(log) \cup refused

(* A callback of waitForPendingWrites that has not run is filed under a    *)
(* batch id that is still in the current user's queue, with the last write *)
(* it waits for: it cannot be left behind.                                 *)
WaitersAreReachable ==
    \A r \in client.app.waiters :
        \E i \in DOMAIN client.queue[client.user] :
            LET b == client.queue[client.user][i]
            IN  b.id = r.id /\ b.w \in r.on /\ \A w \in r.on : w <= b.w

(* The token sent with a write is the one of the latest response, also     *)
(* that of an earlier write, and the one the mutation queue has stored for *)
(* the user: SetLastStreamToken and AcknowledgeBatch leave none behind.    *)
TokensAgree ==
    IsOpen(client.stream) /\ client.handshake =>
        /\ client.token = spent.reads
        /\ client.token = client.savedToken[client.user]

(* A write whose user stays signed in with the network enabled is          *)
(* eventually settled, however often the stream failed before.             *)
WritesSettle ==
    \A w \in 1 .. MaxWrites :
        <>[](w \in DOMAIN client.app.owner /\ client.net /\ client.user = client.app.owner[w])
            => <>(w \in DOMAIN client.app.outcome /\ client.app.outcome[w] # "pending")

(* "[any state] -> INITIAL: Stop() called or idle timer expired"           *)
(* (stream.h:82-84): once the network is disabled the stream is in state   *)
(* Initial, so that the next start does not back off.                      *)
StopLeadsToInitial ==
    [][UserDisablesNetwork => client'.stream.state = "Initial"]_vars

(* An open stream without writes does not stay open for ever: unless a new *)
(* write comes it is closed by the idle timer.                             *)
IdleStreamCloses ==
    [](IsOpen(client.stream) /\ client.pipe = <<>> /\ MayClose
        => <>(~IsOpen(client.stream) \/ client.pipe # <<>> \/ ~MayClose))
=============================================================================
