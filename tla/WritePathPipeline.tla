------------------------- MODULE WritePathPipeline --------------------------
(***************************************************************************)
(* The inductive invariant of the write path, and the lemmas on the        *)
(* operators that fill the write pipeline and that settle its first batch. *)
(*                                                                         *)
(* A step changes few fields of the client.  Each lemma therefore has the  *)
(* same shape: name the changed values, show that the new record has type  *)
(* ClientType and which fields it shares with the old one, and then derive *)
(* the conjuncts of the invariant from these equations alone.              *)
(***************************************************************************)
EXTENDS WritePath, TLAPS

(* Facts about sequences. *)

LEMMA LenProperties ==
  ASSUME NEW S, NEW s \in Seq(S)
  PROVE  /\ Len(s) \in Nat /\ DOMAIN s = 1 .. Len(s) /\ s \in [1 .. Len(s) -> S]
         /\ (s # <<>> => Len(s) > 0) /\ \A i \in 1 .. Len(s) : s[i] \in S
<1>1. ASSUME Len(s) = 0 PROVE s = <<>>
  BY <1>1
<1> QED  BY <1>1

LEMMA EmptySeq ==
  ASSUME NEW S
  PROVE  /\ <<>> \in Seq(S) /\ Len(<<>>) = 0
         /\ \A s \in Seq(S) : s # <<>> => Len(s) \in Nat \ {0}
  BY LenProperties

LEMMA AppendProperties ==
  ASSUME NEW S, NEW s \in Seq(S), NEW x \in S
  PROVE  /\ Append(s, x) \in Seq(S) /\ Len(Append(s, x)) = Len(s) + 1
         /\ \A i \in 1 .. Len(s) : Append(s, x)[i] = s[i]
         /\ Append(s, x)[Len(s) + 1] = x
  OBVIOUS

LEMMA HeadTailProperties ==
  ASSUME NEW S, NEW s \in Seq(S), s # <<>>
  PROVE  /\ Head(s) \in S /\ Tail(s) \in Seq(S) /\ Len(Tail(s)) = Len(s) - 1
         /\ \A i \in 1 .. Len(Tail(s)) : Tail(s)[i] = s[i + 1]
  OBVIOUS

LEMMA ConcatProperties ==
  ASSUME NEW S, NEW s \in Seq(S), NEW t \in Seq(S)
  PROVE  /\ s \o t \in Seq(S) /\ Len(s \o t) = Len(s) + Len(t)
         /\ \A i \in 1 .. Len(s) + Len(t) :
              (s \o t)[i] = IF i <= Len(s) THEN s[i] ELSE t[i - Len(s)]
  OBVIOUS

LEMMA ConcatEmptySeq ==
  ASSUME NEW S, NEW s \in Seq(S)
  PROVE  s \o <<>> = s /\ <<>> \o s = s
  OBVIOUS

LEMMA SeqEqual ==
  ASSUME NEW S, NEW s \in Seq(S), NEW t \in Seq(S),
         Len(s) = Len(t), \A i \in 1 .. Len(s) : s[i] = t[i]
  PROVE  s = t
  OBVIOUS
-----------------------------------------------------------------------------
(* What the type of the client says of its fields. *)
LEMMA FieldTypes ==
  ASSUME NEW c \in ClientType
  PROVE  /\ c.user \in Users /\ c.queue \in [Users -> Seq(Batch)]
         /\ c.nextId \in [Users -> Nat] /\ c.savedToken \in [Users -> Nat]
         /\ c.net \in BOOLEAN /\ c.pipe \in Seq(Batch) /\ c.stream \in StreamType
         /\ c.handshake \in BOOLEAN /\ c.token \in Nat
         /\ c.toServer \in Seq(Nat) /\ c.fromServer \in Seq(Nat)
         /\ c.fin \in Error \cup {"none"} /\ c.failed \in SUBSET STRING
         /\ c.abandoned \in Seq(Seq(Nat)) /\ c.app \in AppType
  BY DEF ClientType

LEMMA AppTypes ==
  ASSUME NEW a \in AppType
  PROVE  /\ a.callbacks \in [Users -> SUBSET Batch]
         /\ a.waiters \in SUBSET [id : Nat, on : SUBSET Nat]
         /\ a.owner \in Seq(Users) /\ a.outcome \in Seq(Outcome)
         /\ a.told \in SUBSET [w : Nat, ok : BOOLEAN]
         /\ a.fired \in SUBSET [on : SUBSET Nat, ok : BOOLEAN]
         /\ a.forgotten \in SUBSET Nat
  BY DEF AppType

(* d and c agree on everything the transport depends on but the queues. *)
SameLink(d, c) ==
    /\ d.user = c.user /\ d.net = c.net /\ d.pipe = c.pipe
    /\ d.stream = c.stream /\ d.handshake = c.handshake
    /\ d.toServer = c.toServer /\ d.fromServer = c.fromServer /\ d.fin = c.fin

(* d is a client that differs from c in what the application sees at most. *)
OnlyApp(d, c) ==
    /\ d \in ClientType
    /\ SameLink(d, c)
    /\ d.queue = c.queue /\ d.nextId = c.nextId /\ d.failed = c.failed
    /\ d.app.owner = c.app.owner

LEMMA OnlyAppTransitive ==
  ASSUME NEW c, NEW d, NEW e, OnlyApp(d, c), OnlyApp(e, d)
  PROVE  OnlyApp(e, c)
  BY DEF OnlyApp, SameLink

LEMMA AppUpdate ==
  ASSUME NEW c \in ClientType, NEW a \in AppType
  PROVE  /\ [c EXCEPT !.app = a] \in ClientType
         /\ [c EXCEPT !.app = a].app = a
         /\ a.owner = c.app.owner => OnlyApp([c EXCEPT !.app = a], c)
         /\ LET d == [c EXCEPT !.app = a]
            IN  /\ SameLink(d, c)
                /\ d.queue = c.queue /\ d.nextId = c.nextId /\ d.failed = c.failed
<1>1. [c EXCEPT !.app = a] \in ClientType
  BY Zenon DEF ClientType
<1>2. LET d == [c EXCEPT !.app = a]
      IN  /\ SameLink(d, c) /\ d.app = a
          /\ d.queue = c.queue /\ d.nextId = c.nextId /\ d.failed = c.failed
  BY SMT DEF ClientType, SameLink
<1> HIDE DEF SameLink
<1> QED  BY <1>1, <1>2 DEF OnlyApp

LEMMA NotifyUserFrame ==
  ASSUME NEW c \in ClientType, NEW id \in Nat, NEW ok \in BOOLEAN
  PROVE  OnlyApp(NotifyUser(c, id, ok), c)
<1> DEFINE a == c.app
           mine == {b \in a.callbacks[c.user] : b.id = id}
           told == a.told \cup {[w |-> b.w, ok |-> ok] : b \in mine}
           left == [a.callbacks EXCEPT ![c.user] = @ \ mine]
           new == [a EXCEPT !.told = told, !.callbacks = left]
<1>1. a \in AppType /\ c.user \in Users
  BY FieldTypes
<1> USE <1>1
<1>2. mine \subseteq Batch
  BY AppTypes
<1>3. told \in SUBSET [w : Nat, ok : BOOLEAN]
  BY <1>2, AppTypes DEF Batch
<1>4. left \in [Users -> SUBSET Batch]
  BY AppTypes
<1>5. NotifyUser(c, id, ok) = [c EXCEPT !.app = new]
  BY Zenon DEF NotifyUser
<1> HIDE DEF a, told, left
<1>6. new \in AppType /\ new.owner = a.owner
  BY <1>3, <1>4, Zenon DEF AppType
<1> HIDE DEF new
<1> QED  BY <1>5, <1>6, AppUpdate DEF a

LEMMA TriggerFrame ==
  ASSUME NEW c \in ClientType, NEW id \in Nat
  PROVE  OnlyApp(TriggerPendingWriteCallbacks(c, id), c)
<1> DEFINE a == c.app
           due == {r \in a.waiters : r.id = id}
           fired == a.fired \cup {[on |-> r.on, ok |-> TRUE] : r \in due}
           left == a.waiters \ due
           new == [a EXCEPT !.fired = fired, !.waiters = left]
<1>1. a \in AppType
  BY FieldTypes
<1> USE <1>1
<1>2. fired \in SUBSET [on : SUBSET Nat, ok : BOOLEAN]
  <2>1. ASSUME NEW r \in due PROVE [on |-> r.on, ok |-> TRUE] \in [on : SUBSET Nat, ok : BOOLEAN]
    BY AppTypes
  <2> QED  BY <2>1, AppTypes, Zenon
<1>3. left \in SUBSET [id : Nat, on : SUBSET Nat]
  BY AppTypes
<1>4. TriggerPendingWriteCallbacks(c, id) = [c EXCEPT !.app = new]
  BY Zenon DEF TriggerPendingWriteCallbacks
<1> HIDE DEF a, fired, left
<1>5. new \in AppType /\ new.owner = a.owner
  BY <1>2, <1>3, Zenon DEF AppType
<1> HIDE DEF new
<1> QED  BY <1>4, <1>5, AppUpdate DEF a

LEMMA AnnounceFrame ==
  ASSUME NEW c \in ClientType, NEW b \in Batch
  PROVE  OnlyApp(AnnounceSuccess(c, b), c)
<1> DEFINE n == NotifyUser(c, b.id, TRUE)
<1>1. b.id \in Nat
  BY DEF Batch
<1>2. OnlyApp(n, c)
  BY <1>1, NotifyUserFrame, Zenon
<1>3. n \in ClientType
  BY <1>2, Zenon DEF OnlyApp
<1>4. OnlyApp(TriggerPendingWriteCallbacks(n, b.id), n)
  BY <1>1, <1>3, TriggerFrame, Zenon
<1> QED  BY <1>2, <1>4, OnlyAppTransitive, Zenon DEF AnnounceSuccess

LEMMA FailWaitersFrame ==
  ASSUME NEW c \in ClientType
  PROVE  OnlyApp(FailOutstandingPendingWriteCallbacks(c), c)
<1> DEFINE a == c.app
           fired == a.fired \cup {[on |-> r.on, ok |-> FALSE] : r \in a.waiters}
           new == [a EXCEPT !.fired = fired, !.waiters = {}]
<1>1. a \in AppType
  BY FieldTypes
<1> USE <1>1
<1>2. fired \in SUBSET [on : SUBSET Nat, ok : BOOLEAN]
  <2>1. ASSUME NEW r \in a.waiters
        PROVE  [on |-> r.on, ok |-> FALSE] \in [on : SUBSET Nat, ok : BOOLEAN]
    BY AppTypes
  <2> QED  BY <2>1, AppTypes, Zenon
<1>3. {} \in SUBSET [id : Nat, on : SUBSET Nat]
  OBVIOUS
<1>4. FailOutstandingPendingWriteCallbacks(c) = [c EXCEPT !.app = new]
  BY Zenon DEF FailOutstandingPendingWriteCallbacks
<1> HIDE DEF a, fired
<1>5. new \in AppType /\ new.owner = a.owner
  BY <1>2, <1>3, Zenon DEF AppType
<1> HIDE DEF new
<1> QED  BY <1>4, <1>5, AppUpdate DEF a

LEMMA RecordOutcomeFrame ==
  ASSUME NEW c \in ClientType, NEW w \in Nat, NEW result \in Outcome
  PROVE  OnlyApp(RecordOutcome(c, w, result), c)
<1> DEFINE a == c.app
           outcome == [a.outcome EXCEPT ![w] = result]
           new == [a EXCEPT !.outcome = outcome]
<1>1. a \in AppType
  BY FieldTypes
<1>2. outcome \in Seq(Outcome)
  <2>1. a.outcome \in Seq(Outcome)
    BY <1>1, AppTypes
  <2> USE <2>1
  <2>2. CASE w \in 1 .. Len(a.outcome)
    BY <2>2
  <2>3. CASE w \notin 1 .. Len(a.outcome)
    <3>1. outcome = a.outcome
      BY <2>3, LenProperties, Zenon
    <3> QED  BY <3>1, Zenon
  <2> QED  BY <2>2, <2>3
<1>4. RecordOutcome(c, w, result) = [c EXCEPT !.app = new]
  BY Zenon DEF RecordOutcome
<1> HIDE DEF a, outcome
<1>5. new \in AppType /\ new.owner = a.owner
  BY <1>1, <1>2, Zenon DEF AppType
<1> HIDE DEF new
<1> QED  BY <1>4, <1>5, AppUpdate DEF a
-----------------------------------------------------------------------------
(* The mutation queues. *)

Ordered(q) == \A i, j \in 1 .. Len(q) : i < j => q[i].id < q[j].id

(* In every queue the ids increase; no id exceeds the number of writes     *)
(* issued, and the ids of a queue that is in use are below its next id.    *)
QueueInv(c) ==
    \A u \in Users :
        /\ Ordered(c.queue[u])
        /\ c.nextId[u] \in 1 .. Len(c.app.owner) + 1
        /\ \A i \in 1 .. Len(c.queue[u]) :
             /\ c.queue[u][i].id <= Len(c.app.owner)
             /\ u = c.user \/ Persistence = "memory" => c.queue[u][i].id < c.nextId[u]

LEMMA BatchSeq ==
  ASSUME NEW q \in Seq(Batch)
  PROVE  /\ Len(q) \in Nat
         /\ \A i \in 1 .. Len(q) : /\ q[i] \in Batch
                                   /\ q[i].id \in Nat /\ q[i].id > 0
                                   /\ q[i].w \in Nat /\ q[i].w > 0
<1>1. Len(q) \in Nat /\ \A i \in 1 .. Len(q) : q[i] \in Batch
  BY LenProperties
<1> QED  BY <1>1 DEF Batch

LEMMA BatchSeqHead ==
  ASSUME NEW q \in Seq(Batch), q # <<>>
  PROVE  Len(q) > 0 /\ Head(q) = q[1] /\ Head(q) \in Batch /\ Tail(q) \in Seq(Batch)
  BY HeadTailProperties, EmptySeq

(* In an ordered queue SeekIndex is the only position that splits the ids. *)
LEMMA SeekIndexIs ==
  ASSUME NEW q \in Seq(Batch), Ordered(q), NEW id \in Int, NEW k \in 0 .. Len(q),
         \A i \in 1 .. k : q[i].id < id,
         \A i \in 1 .. Len(q) : k < i => q[i].id >= id
  PROVE  SeekIndex(q, id) = k
<1> DEFINE P(m) == /\ \A i \in 1 .. m : q[i].id < id
                   /\ m < Len(q) => q[m + 1].id >= id
<1>1. Len(q) \in Nat /\ \A i \in 1 .. Len(q) : q[i].id \in Nat
  BY BatchSeq
<1> USE <1>1
<1>2. P(k)
  OBVIOUS
<1>3. ASSUME NEW m \in 0 .. Len(q), P(m) PROVE m = k
  <2>1. ~(m < k)
    <3>1. SUFFICES ASSUME m < k PROVE FALSE
      OBVIOUS
    <3>2. q[m + 1].id < id /\ q[m + 1].id >= id
      BY <1>3, <3>1
    <3> QED  BY <3>1, <3>2
  <2>2. ~(k < m)
    <3>1. SUFFICES ASSUME k < m PROVE FALSE
      OBVIOUS
    <3>2. q[k + 1].id < id /\ q[k + 1].id >= id
      BY <1>3, <3>1
    <3> QED  BY <3>1, <3>2
  <2> QED  BY <2>1, <2>2
<1>4. SeekIndex(q, id) = CHOOSE m \in 0 .. Len(q) : P(m)
  BY DEF SeekIndex
<1> HIDE DEF P
<1> QED  BY <1>2, <1>3, <1>4

(* The first batch of a queue is found and removed. *)
LEMMA RemoveHeadBatch ==
  ASSUME NEW c \in ClientType, QueueInv(c), c.queue[c.user] # <<>>
  PROVE  RemoveMutationBatch(c, Head(c.queue[c.user]).id)
           = [c EXCEPT !.queue[c.user] = Tail(c.queue[c.user])]
<1> DEFINE q == c.queue[c.user]
           id == Head(q).id
<1>1. q \in Seq(Batch) /\ Ordered(q) /\ q # <<>>
  BY FieldTypes DEF QueueInv
<1> HIDE DEF q
<1> USE <1>1
<1>2. id \in Int /\ Len(q) \in Nat /\ Len(q) > 0 /\ q[1].id = id
  BY BatchSeq, BatchSeqHead
<1> USE <1>2
<1>3. \A i \in 1 .. Len(q) : q[i].id \in Nat /\ q[i].id >= id
  BY BatchSeq DEF Ordered
<1> HIDE DEF id
<1>4. SeekIndex(q, id) = 0
  <2>1. 0 \in 0 .. Len(q) /\ \A i \in 1 .. 0 : q[i].id < id
    OBVIOUS
  <2> QED  BY <1>3, <2>1, SeekIndexIs
<1>5. SubSeq(q, 1, 1 - 1) \o SubSeq(q, 1 + 1, Len(q)) = Tail(q)
  <2>1. SubSeq(q, 1, 0) = <<>>
    OBVIOUS
  <2>2. SubSeq(q, 2, Len(q)) = Tail(q) /\ Tail(q) \in Seq(Batch)
    OBVIOUS
  <2>3. <<>> \o Tail(q) = Tail(q)
    BY <2>2, ConcatEmptySeq
  <2>4. 1 - 1 = 0 /\ 1 + 1 = 2
    OBVIOUS
  <2> QED  BY <2>1, <2>2, <2>3, <2>4, Zenon
<1>6. RemoveMutationBatch(c, id)
        = [c EXCEPT !.queue[c.user] = SubSeq(q, 1, 1 - 1) \o SubSeq(q, 1 + 1, Len(q))]
  <2>1. SeekIndex(q, id) + 1 = 1 /\ 1 <= Len(q) /\ q[1].id = id
    BY <1>4
  <2> QED  BY <2>1, Zenon DEF RemoveMutationBatch, Check, q
<1>7. RemoveMutationBatch(c, id) = [c EXCEPT !.queue[c.user] = Tail(q)]
  BY <1>5, <1>6, Zenon
<1> QED  BY <1>7 DEF q, id
-----------------------------------------------------------------------------
(* The inductive invariant. *)

(* A scheduled backoff timer and credentials that are still current tell   *)
(* the state of the stream; only an open stream carries messages.          *)
StreamInv(c) ==
    /\ c.stream.backoff => c.stream.state = "Backoff"
    /\ \A n \in c.stream.creds :
         n <= c.stream.closes /\ (n = c.stream.closes => c.stream.state = "Starting")
    /\ c.stream.idle => IsOpen(c.stream) /\ c.handshake
    /\ ~IsOpen(c.stream) => c.toServer = <<>> /\ c.fromServer = <<>> /\ c.fin = "none"

(* The pipeline is the beginning of the queue. *)
PipePrefix(pipe, q) ==
    /\ Len(pipe) <= Len(q)
    /\ \A i \in 1 .. Len(pipe) : pipe[i] = q[i]

(* The pipeline has at most its maximal length; the stream is stopped when *)
(* the network is off, idle only when the pipeline is empty, and on its    *)
(* way to the handshake only when it is not.                               *)
PipeInv(c) ==
    /\ PipePrefix(c.pipe, c.queue[c.user])
    /\ Len(c.pipe) <= MaxPendingWrites
    /\ c.stream.idle => c.pipe = <<>>
    /\ IsStarted(c.stream) /\ ~(IsOpen(c.stream) /\ c.handshake) => c.pipe # <<>>
    /\ ~c.net => ~IsStarted(c.stream) /\ c.pipe = <<>>

(* Before the handshake is complete only the handshake is on the wire.     *)
WireBefore(from, to, fin) ==
    /\ Len(from) <= 1
    /\ \A i \in 1 .. Len(from) : from[i] = Handshake
    /\ fin # "unavailable" =>
         /\ Len(from) + Len(to) = 1
         /\ \A i \in 1 .. Len(to) : to[i] = Handshake

(* Afterwards the responses belong to the first batches of the pipeline,   *)
(* and unless the connection broke the requests are the rest of it.        *)
Answers(pipe, from) ==
    /\ Len(from) <= Len(pipe)
    /\ \A i \in 1 .. Len(from) : from[i] = pipe[i].w

Requests(pipe, from, to) ==
    /\ Len(from) + Len(to) = Len(pipe)
    /\ \A i \in 1 .. Len(to) : to[i] = pipe[Len(from) + i].w

WireInv(c) ==
    IsOpen(c.stream) =>
        IF c.handshake
        THEN /\ Answers(c.pipe, c.fromServer)
             /\ c.fin # "unavailable" => Requests(c.pipe, c.fromServer, c.toServer)
        ELSE WireBefore(c.fromServer, c.toServer, c.fin)

(* What holds also while the stream is being closed. *)
Base(c) ==
    /\ c \in ClientType
    /\ c.failed = {}
    /\ QueueInv(c)
    /\ StreamInv(c)
    /\ PipeInv(c)
    /\ WireInv(c)

ClientInv(c) == Base(c) /\ (c.handshake => IsOpen(c.stream))

(* The inductive invariant of the specification. *)
IndInv == TypeOK /\ ClientInv(client)
-----------------------------------------------------------------------------
(* Removing the first batch of the queue. *)

LEMMA QueueInvFrame ==
  ASSUME NEW c, NEW d, QueueInv(c), d.user = c.user, d.queue = c.queue,
         d.nextId = c.nextId, d.app.owner = c.app.owner
  PROVE  QueueInv(d)
  BY DEF QueueInv

(* d is c without the first batch of its queue. *)
Popped(d, c) ==
    /\ d \in ClientType
    /\ SameLink(d, c)
    /\ d.queue = [c.queue EXCEPT ![c.user] = Tail(c.queue[c.user])]
    /\ d.nextId = c.nextId /\ d.failed = c.failed
    /\ d.app.owner = c.app.owner

LEMMA RemoveIsPop ==
  ASSUME NEW c \in ClientType, QueueInv(c), c.queue[c.user] # <<>>
  PROVE  Popped(RemoveMutationBatch(c, Head(c.queue[c.user]).id), c)
<1> DEFINE q == [c.queue EXCEPT ![c.user] = Tail(c.queue[c.user])]
           d == [c EXCEPT !.queue = q]
<1>1. RemoveMutationBatch(c, Head(c.queue[c.user]).id) = d
  BY RemoveHeadBatch
<1>2. q \in [Users -> Seq(Batch)]
  <2>1. c.user \in Users /\ c.queue \in [Users -> Seq(Batch)]
    BY FieldTypes
  <2>2. Tail(c.queue[c.user]) \in Seq(Batch)
    BY <2>1, BatchSeqHead
  <2> QED  BY <2>1, <2>2
<1>3. d.queue = q
  BY SMT DEF ClientType
<1> HIDE DEF q
<1>4. d \in ClientType
  BY <1>2, Zenon DEF ClientType
<1>5. SameLink(d, c) /\ d.nextId = c.nextId /\ d.failed = c.failed /\ d.app = c.app
  BY SMT DEF ClientType, SameLink
<1> HIDE DEF d
<1> QED  BY <1>1, <1>3, <1>4, <1>5 DEF Popped, q

LEMMA PopOfSame ==
  ASSUME NEW c, NEW d, NEW e, OnlyApp(d, c), Popped(e, d)
  PROVE  Popped(e, c)
  BY DEF OnlyApp, Popped, SameLink

LEMMA SameOfPop ==
  ASSUME NEW c, NEW d, NEW e, Popped(d, c), OnlyApp(e, d)
  PROVE  Popped(e, c)
  BY DEF OnlyApp, Popped, SameLink

LEMMA SuccessIsPop ==
  ASSUME NEW c \in ClientType, QueueInv(c), c.queue[c.user] # <<>>
  PROVE  Popped(HandleSuccessfulWrite(c, Head(c.queue[c.user])), c)
<1> DEFINE b == Head(c.queue[c.user])
           a == AnnounceSuccess(c, b)
           d == RecordOutcome(a, b.w, "acked")
           t == [d.savedToken EXCEPT ![c.user] = c.token]
           e == [d EXCEPT !.savedToken = t]
<1>1. b \in Batch /\ b.w \in Nat
  <2>1. b \in Batch
    BY FieldTypes, BatchSeqHead
  <2> QED  BY <2>1 DEF Batch
<1>2. OnlyApp(a, c)
  BY <1>1, AnnounceFrame
<1>3. OnlyApp(d, c)
  <2>1. a \in ClientType /\ "acked" \in Outcome
    BY <1>2 DEF OnlyApp, Outcome
  <2>2. OnlyApp(d, a)
    BY <1>1, <2>1, RecordOutcomeFrame
  <2> QED  BY <1>2, <2>2, OnlyAppTransitive, ZenonT(30)
<1> HIDE DEF d
<1>4. OnlyApp(e, c)
  <2>1. d \in ClientType
    BY <1>3 DEF OnlyApp
  <2> USE <2>1
  <2>2. t \in [Users -> Nat]
    BY FieldTypes
  <2> HIDE DEF t
  <2>3. e \in ClientType
    BY <2>2, Zenon DEF ClientType
  <2>4. SameLink(e, d) /\ e.queue = d.queue /\ e.nextId = d.nextId
        /\ e.failed = d.failed /\ e.app = d.app
    BY SMT DEF ClientType, SameLink
  <2> HIDE DEF e
  <2>5. OnlyApp(e, d)
    BY <2>3, <2>4 DEF OnlyApp
  <2> QED  BY <1>3, <2>5, OnlyAppTransitive
<1>5. HandleSuccessfulWrite(c, b) = RemoveMutationBatch(e, b.id)
  BY DEF HandleSuccessfulWrite, d
<1> HIDE DEF e
<1>6. e \in ClientType /\ QueueInv(e) /\ e.queue[e.user] # <<>> /\ b = Head(e.queue[e.user])
  <2>1. e.user = c.user /\ e.queue = c.queue /\ e \in ClientType
        /\ e.nextId = c.nextId /\ e.app.owner = c.app.owner
    BY <1>4 DEF OnlyApp, SameLink
  <2> QED  BY <2>1, QueueInvFrame
<1> HIDE DEF b
<1> QED  BY <1>4, <1>5, <1>6, RemoveIsPop, PopOfSame DEF b

LEMMA RejectBatchIsPop ==
  ASSUME NEW c \in ClientType, QueueInv(c), c.queue[c.user] # <<>>
  PROVE  Popped(RejectBatch(c, Head(c.queue[c.user])), c)
<1> DEFINE b == Head(c.queue[c.user])
           a == RecordOutcome(c, b.w, "rejected")
           d == RemoveMutationBatch(a, b.id)
<1>1. b.w \in Nat
  <2>1. b \in Batch
    BY FieldTypes, BatchSeqHead
  <2> QED  BY <2>1 DEF Batch
<1>2. OnlyApp(a, c)
  BY <1>1, RecordOutcomeFrame DEF Outcome
<1>3. a \in ClientType /\ QueueInv(a) /\ a.queue[a.user] # <<>> /\ b = Head(a.queue[a.user])
  <2>1. a.user = c.user /\ a.queue = c.queue /\ a \in ClientType
        /\ a.nextId = c.nextId /\ a.app.owner = c.app.owner
    BY <1>2, Zenon DEF OnlyApp, SameLink
  <2> HIDE DEF a
  <2> QED  BY <2>1, QueueInvFrame
<1> HIDE DEF b, a
<1>4. Popped(d, c)
  BY <1>2, <1>3, RemoveIsPop, PopOfSame
<1>5. RejectBatch(c, b) = d
  BY DEF RejectBatch, a
<1> QED  BY <1>4, <1>5 DEF b

LEMMA RejectIsPop ==
  ASSUME NEW c \in ClientType, QueueInv(c), c.queue[c.user] # <<>>
  PROVE  Popped(HandleRejectedWrite(c, Head(c.queue[c.user])), c)
<1> DEFINE b == Head(c.queue[c.user])
           d == RejectBatch(c, b)
           n == NotifyUser(d, b.id, FALSE)
<1>1. b.id \in Nat
  <2>1. b \in Batch
    BY FieldTypes, BatchSeqHead
  <2> QED  BY <2>1 DEF Batch
<1>2. Popped(d, c)
  BY RejectBatchIsPop
<1> HIDE DEF b, d
<1>3. OnlyApp(n, d)
  BY <1>1, <1>2, NotifyUserFrame, Zenon DEF Popped
<1> HIDE DEF n
<1>4. OnlyApp(TriggerPendingWriteCallbacks(n, b.id), n)
  BY <1>1, <1>3, TriggerFrame, Zenon DEF OnlyApp
<1>5. HandleRejectedWrite(c, b) = TriggerPendingWriteCallbacks(n, b.id)
  BY DEF HandleRejectedWrite, n, d
<1> QED  BY <1>2, <1>3, <1>4, <1>5, SameOfPop DEF b

LEMMA PoppedQueueInv ==
  ASSUME NEW c \in ClientType, QueueInv(c), c.queue[c.user] # <<>>, NEW d, Popped(d, c)
  PROVE  /\ QueueInv(d)
         /\ Len(d.queue[c.user]) = Len(c.queue[c.user]) - 1
         /\ \A i \in 1 .. Len(d.queue[c.user]) : d.queue[c.user][i] = c.queue[c.user][i + 1]
<1> DEFINE q == c.queue[c.user]
<1>1. c.user \in Users /\ c.queue \in [Users -> Seq(Batch)] /\ q \in Seq(Batch)
      /\ c.nextId \in [Users -> Nat]
  BY FieldTypes
<1>2. /\ Len(q) \in Nat /\ Len(Tail(q)) = Len(q) - 1
      /\ \A i \in 1 .. Len(Tail(q)) : Tail(q)[i] = q[i + 1]
  BY <1>1, HeadTailProperties, LenProperties
<1>3. d.user = c.user /\ d.nextId = c.nextId /\ d.app.owner = c.app.owner
      /\ d.queue[c.user] = Tail(q)
      /\ \A u \in Users : u # c.user => d.queue[u] = c.queue[u]
  BY <1>1 DEF Popped, SameLink
<1> USE <1>2, <1>3
<1>4. QueueInv(d)
  <2> SUFFICES ASSUME NEW u \in Users
               PROVE /\ Ordered(d.queue[u])
                     /\ d.nextId[u] \in 1 .. Len(d.app.owner) + 1
                     /\ \A i \in 1 .. Len(d.queue[u]) :
                          /\ d.queue[u][i].id <= Len(d.app.owner)
                          /\ u = d.user \/ Persistence = "memory" => d.queue[u][i].id < d.nextId[u]
    BY DEF QueueInv
  <2>1. CASE u # c.user
    BY <2>1 DEF QueueInv
  <2>2. CASE u = c.user
    <3>1. Ordered(q) /\ \A i \in 1 .. Len(q) : q[i].id <= Len(c.app.owner) /\ q[i].id < c.nextId[u]
      BY <2>2 DEF QueueInv
    <3> HIDE DEF q
    <3>2. Ordered(Tail(q))
      BY <3>1 DEF Ordered
    <3>3. \A i \in 1 .. Len(Tail(q)) : Tail(q)[i].id <= Len(c.app.owner)
                                       /\ Tail(q)[i].id < c.nextId[u]
      BY <3>1
    <3>4. c.nextId[u] \in 1 .. Len(c.app.owner) + 1
      BY DEF QueueInv
    <3> QED  BY <2>2, <3>2, <3>3, <3>4, Zenon
  <2> QED  BY <2>1, <2>2
<1> HIDE DEF q
<1> QED  BY <1>4 DEF q
-----------------------------------------------------------------------------
(* The stream. *)

LEMMA StreamFields ==
  ASSUME NEW s \in StreamType
  PROVE  /\ s.state \in StreamState /\ s.closes \in Nat /\ s.creds \in SUBSET Nat
         /\ s.backoff \in BOOLEAN /\ s.idle \in BOOLEAN /\ s.health \in BOOLEAN
  BY DEF StreamType

LEMMA CancelIdleFields ==
  ASSUME NEW s \in StreamType
  PROVE  LET r == CancelIdleCheck(s)
         IN  /\ r \in StreamType /\ r.idle = FALSE /\ r.state = s.state
             /\ r.closes = s.closes /\ r.creds = s.creds /\ r.backoff = s.backoff
  BY Zenon DEF StreamType, CancelIdleCheck

LEMMA MarkIdleFields ==
  ASSUME NEW s \in StreamType
  PROVE  LET r == MarkIdle(s)
         IN  /\ r \in StreamType /\ r.state = s.state
             /\ r.closes = s.closes /\ r.creds = s.creds /\ r.backoff = s.backoff
             /\ r.idle => s.idle \/ IsOpen(s)
<1> DEFINE i == s.idle \/ IsOpen(s)
           r == [s EXCEPT !.idle = i]
<1>1. i \in BOOLEAN
  OBVIOUS
<1>2. MarkIdle(s) = r
  BY DEF MarkIdle
<1> HIDE DEF i
<1>3. /\ r \in StreamType /\ r.state = s.state /\ r.idle = i
      /\ r.closes = s.closes /\ r.creds = s.creds /\ r.backoff = s.backoff
  BY <1>1 DEF StreamType
<1> HIDE DEF r
<1> QED  BY <1>2, <1>3, Zenon DEF i

LEMMA StartFields ==
  ASSUME NEW s \in StreamType
  PROVE  LET r == Start(s)
         IN  /\ r \in StreamType /\ r.closes = s.closes /\ r.idle = s.idle
             /\ s.state = "Error" =>
                  r.state = "Backoff" /\ r.creds = s.creds /\ r.backoff = TRUE
             /\ s.state # "Error" => /\ r.state = "Starting" /\ r.backoff = s.backoff
                                     /\ r.creds = s.creds \cup {s.closes}
<1>1. CASE s.state = "Error"
  <2>1. Start(s) = [s EXCEPT !.state = "Backoff", !.backoff = TRUE]
    BY <1>1 DEF Start, BackoffAndTryRestarting
  <2> QED  BY <1>1, <2>1, Zenon DEF StreamType, StreamState
<1>2. CASE s.state # "Error"
  <2> DEFINE n == s.creds \cup {s.closes}
             t == [s EXCEPT !.state = "Starting"]
  <2>1. n \in SUBSET Nat
    BY StreamFields
  <2>2. t \in StreamType /\ t.closes = s.closes /\ t.creds = s.creds /\ t.idle = s.idle
        /\ t.backoff = s.backoff /\ t.state = "Starting"
    BY DEF StreamType, StreamState
  <2> USE <2>2
  <2>3. Start(s) = [t EXCEPT !.creds = n]
    BY <1>2 DEF Start, RequestCredentials
  <2> HIDE DEF n, t
  <2>4. LET r == [t EXCEPT !.creds = n]
        IN  r \in StreamType /\ r.closes = t.closes /\ r.creds = n /\ r.idle = t.idle
            /\ r.backoff = t.backoff /\ r.state = t.state
    BY <2>1 DEF StreamType
  <2> QED  BY <1>2, <2>3, <2>4 DEF n
<1> QED  BY <1>1, <1>2, Zenon

LEMMA StreamUpdate ==
  ASSUME NEW c \in ClientType, NEW s \in StreamType
  PROVE  LET d == [c EXCEPT !.stream = s]
         IN  /\ d \in ClientType /\ d.stream = s
             /\ d.user = c.user /\ d.queue = c.queue /\ d.nextId = c.nextId
             /\ d.savedToken = c.savedToken /\ d.net = c.net /\ d.pipe = c.pipe
             /\ d.handshake = c.handshake /\ d.token = c.token
             /\ d.toServer = c.toServer /\ d.fromServer = c.fromServer /\ d.fin = c.fin
             /\ d.abandoned = c.abandoned /\ d.failed = c.failed /\ d.app = c.app
<1>1. [c EXCEPT !.stream = s] \in ClientType
  BY Zenon DEF ClientType
<1>2. LET d == [c EXCEPT !.stream = s]
      IN  /\ d.stream = s
          /\ d.user = c.user /\ d.queue = c.queue /\ d.nextId = c.nextId
          /\ d.savedToken = c.savedToken /\ d.net = c.net /\ d.pipe = c.pipe
          /\ d.handshake = c.handshake /\ d.token = c.token
          /\ d.toServer = c.toServer /\ d.fromServer = c.fromServer /\ d.fin = c.fin
          /\ d.abandoned = c.abandoned /\ d.failed = c.failed /\ d.app = c.app
  BY SMT DEF ClientType
<1> QED  BY <1>1, <1>2
-----------------------------------------------------------------------------
(* Filling the write pipeline. *)

LEMMA MinPair ==
  ASSUME NEW a \in Int, NEW b \in Int
  PROVE  Min({a, b}) = IF a <= b THEN a ELSE b
  BY DEF Min

(* FillWritePipeline fetches the batches that follow the pipeline. *)
LEMMA NextBatchesFollow ==
  ASSUME NEW c \in ClientType, QueueInv(c), PipePrefix(c.pipe, c.queue[c.user]),
         Len(c.pipe) <= MaxPendingWrites
  PROVE  \E r \in Len(c.pipe) .. Len(c.queue[c.user]) :
            /\ NextBatches(c) = SubSeq(c.queue[c.user], Len(c.pipe) + 1, r)
            /\ r <= MaxPendingWrites
            /\ ~c.net => r = Len(c.pipe)
<1> DEFINE q == c.queue[c.user]
           n == Len(c.pipe)
           last == IF c.pipe = <<>> THEN kBatchIdUnknown ELSE Back(c.pipe).id
           room == IF c.net THEN MaxPendingWrites - n ELSE 0
           r == Min({n + room, Len(q)})
<1>1. q \in Seq(Batch) /\ c.pipe \in Seq(Batch) /\ Ordered(q) /\ c.net \in BOOLEAN
  BY FieldTypes DEF QueueInv
<1> USE <1>1
<1>2. n \in Nat /\ Len(q) \in Nat /\ n <= Len(q)
  BY LenProperties DEF PipePrefix
<1>3. \A i \in 1 .. Len(q) : q[i].id \in Nat /\ q[i].id > 0
  BY BatchSeq
<1> USE <1>2, <1>3
<1>5. last + 1 \in Int /\ SeekIndex(q, last + 1) = n
  <2>1. CASE c.pipe = <<>>
    <3>1. n = 0 /\ last + 1 = 0
      BY <2>1 DEF kBatchIdUnknown
    <3> HIDE DEF last
    <3> USE <3>1
    <3>2. \A i \in 1 .. n : q[i].id < last + 1
      OBVIOUS
    <3>3. \A i \in 1 .. Len(q) : n < i => q[i].id >= last + 1
      OBVIOUS
    <3> QED  BY <3>2, <3>3, SeekIndexIs
  <2>2. CASE c.pipe # <<>>
    <3>1. n > 0
      BY <2>2, EmptySeq
    <3> USE <3>1
    <3>2. last = q[n].id
      BY <2>2 DEF Back, PipePrefix
    <3> HIDE DEF last, q, n
    <3> USE <3>2
    <3>3. \A i \in 1 .. n : q[i].id < last + 1
      BY DEF Ordered
    <3>4. \A i \in 1 .. Len(q) : n < i => q[i].id >= last + 1
      BY DEF Ordered
    <3>5. last + 1 \in Int /\ n \in 0 .. Len(q)
      OBVIOUS
    <3> QED  BY <3>3, <3>4, <3>5, SeekIndexIs, Zenon
  <2> QED  BY <2>1, <2>2
<1>6. NextBatches(c) = SubSeq(q, n + 1, r)
  BY <1>5, Zenon DEF NextBatches
<1>7. r \in n .. Len(q) /\ r <= MaxPendingWrites /\ (~c.net => r = n)
  <2>1. n + room \in Int /\ n + room >= n /\ n + room <= MaxPendingWrites
        /\ (~c.net => n + room = n)
    <3>1. MaxPendingWrites \in Nat /\ n <= MaxPendingWrites
      BY PipelineAssumption
    <3>2. CASE c.net
      <4>1. room = MaxPendingWrites - n
        BY <3>2
      <4> HIDE DEF room, n
      <4> QED  BY <3>1, <3>2, <4>1
    <3>3. CASE ~c.net
      <4>1. room = 0
        BY <3>3
      <4> HIDE DEF room, n
      <4> QED  BY <3>1, <3>3, <4>1
    <3> QED  BY <3>2, <3>3
  <2> HIDE DEF room, n, q
  <2> USE <2>1
  <2>2. r = IF n + room <= Len(q) THEN n + room ELSE Len(q)
    BY MinPair
  <2> HIDE DEF r
  <2>3. CASE n + room <= Len(q)
    BY <2>2, <2>3
  <2>4. CASE n + room > Len(q)
    BY <2>2, <2>4, PipelineAssumption
  <2> QED  BY <2>3, <2>4
<1> HIDE DEF r
<1> QED  BY <1>6, <1>7, Zenon

LEMMA SameInterval ==
  ASSUME NEW a \in Nat, NEW b \in Nat, 1 .. a = 1 .. b
  PROVE  a = b
<1>1. ASSUME a < b PROVE FALSE
  <2>1. b \in 1 .. b /\ b \notin 1 .. a
    BY <1>1
  <2> QED  BY <2>1
<1>2. ASSUME b < a PROVE FALSE
  <2>1. a \in 1 .. a /\ a \notin 1 .. b
    BY <1>2
  <2> QED  BY <2>1
<1> QED  BY <1>1, <1>2

LEMMA WritesAre ==
  ASSUME NEW q \in Seq(Batch)
  PROVE  /\ Writes(q) \in Seq(Nat) /\ Len(Writes(q)) = Len(q)
         /\ \A i \in 1 .. Len(q) : Writes(q)[i] = q[i].w
<1>1. Len(q) \in Nat /\ DOMAIN q = 1 .. Len(q) /\ \A i \in 1 .. Len(q) : q[i].w \in Nat
  BY BatchSeq, LenProperties
<1> USE <1>1
<1>2. Writes(q) = [i \in 1 .. Len(q) |-> q[i].w]
  BY DEF Writes
<1>3. Writes(q) \in [1 .. Len(q) -> Nat]
  BY <1>2
<1>4. Writes(q) \in Seq(Nat)
  BY <1>3
<1>5. DOMAIN Writes(q) = 1 .. Len(Writes(q)) /\ Len(Writes(q)) \in Nat
  BY <1>4, LenProperties
<1>6. 1 .. Len(Writes(q)) = 1 .. Len(q)
  BY <1>3, <1>5
<1>7. Len(Writes(q)) = Len(q)
  BY <1>5, <1>6, SameInterval, Zenon
<1> QED  BY <1>2, <1>4, <1>7

(* The pipeline with the batches that follow it is still the beginning of  *)
(* the queue.                                                              *)
LEMMA ExtendPipe ==
  ASSUME NEW p \in Seq(Batch), NEW q \in Seq(Batch), Len(p) <= Len(q),
         \A i \in 1 .. Len(p) : p[i] = q[i], NEW r \in Len(p) .. Len(q)
  PROVE  LET b == SubSeq(q, Len(p) + 1, r)
         IN  /\ b \in Seq(Batch) /\ Len(b) = r - Len(p)
             /\ p \o b \in Seq(Batch) /\ Len(p \o b) = r
             /\ \A i \in 1 .. r : (p \o b)[i] = q[i]
             /\ \A i \in 1 .. Len(b) : b[i] = q[Len(p) + i]
<1> DEFINE b == SubSeq(q, Len(p) + 1, r)
<1>1. Len(p) \in Nat /\ Len(q) \in Nat /\ \A i \in 1 .. Len(q) : q[i] \in Batch
  BY BatchSeq
<1> USE <1>1
<1>2. \A i \in Len(p) + 1 .. r : q[i] \in Batch
  OBVIOUS
<1>3. /\ b \in Seq(Batch) /\ Len(b) = IF Len(p) + 1 <= r THEN r - (Len(p) + 1) + 1 ELSE 0
      /\ \A i \in 1 .. r - (Len(p) + 1) + 1 : b[i] = q[Len(p) + 1 + i - 1]
  BY <1>2
<1> HIDE DEF b
<1> USE <1>3
<1>4. Len(b) = r - Len(p) /\ \A i \in 1 .. Len(b) : b[i] = q[Len(p) + i]
  <2>1. Len(b) = r - Len(p)
    OBVIOUS
  <2>2. ASSUME NEW i \in 1 .. Len(b) PROVE b[i] = q[Len(p) + i]
    <3>1. i \in 1 .. r - (Len(p) + 1) + 1 /\ Len(p) + 1 + i - 1 = Len(p) + i
      BY <2>1
    <3> QED  BY <3>1
  <2> QED  BY <2>1, <2>2
<1>5. /\ p \o b \in Seq(Batch) /\ Len(p \o b) = Len(p) + Len(b)
      /\ \A i \in 1 .. Len(p) + Len(b) : (p \o b)[i] = IF i <= Len(p) THEN p[i] ELSE b[i - Len(p)]
  BY ConcatProperties, Zenon
<1> USE <1>4, <1>5
<1>6. Len(p \o b) = r
  OBVIOUS
<1>7. ASSUME NEW i \in 1 .. r PROVE (p \o b)[i] = q[i]
  <2>1. CASE i <= Len(p)
    BY <2>1
  <2>2. CASE i > Len(p)
    <3>1. i - Len(p) \in 1 .. Len(b) /\ Len(p) + (i - Len(p)) = i
      BY <2>2
    <3>2. b[i - Len(p)] = q[i]
      BY <3>1
    <3>3. i \in 1 .. Len(p) + Len(b) /\ ~(i <= Len(p))
      BY <2>2, <1>6
    <3>4. (p \o b)[i] = b[i - Len(p)]
      BY <3>3, Zenon
    <3> QED  BY <3>2, <3>4, Zenon
  <2>3. i <= Len(p) \/ i > Len(p)
    OBVIOUS
  <2> QED  BY <2>1, <2>2, <2>3, Zenon
<1> QED  BY <1>6, <1>7 DEF b

(* The requests for batches added to the pipeline follow those in transit. *)
LEMMA SendExtends ==
  ASSUME NEW pipe \in Seq(Batch), NEW b \in Seq(Batch), NEW from \in Seq(Nat),
         NEW to \in Seq(Nat), Answers(pipe, from)
  PROVE  /\ to \o Writes(b) \in Seq(Nat)
         /\ Answers(pipe \o b, from)
         /\ Requests(pipe, from, to) => Requests(pipe \o b, from, to \o Writes(b))
<1> DEFINE p == pipe \o b
           w == Writes(b)
           t == to \o w
           k == Len(pipe)
           l == Len(b)
           m == Len(from)
           n == Len(to)
<1>1. k \in Nat /\ l \in Nat /\ m \in Nat /\ n \in Nat
  BY LenProperties
<1>2. /\ Len(p) = k + l
      /\ \A i \in 1 .. k + l : p[i] = IF i <= k THEN pipe[i] ELSE b[i - k]
  BY ConcatProperties
<1>3. w \in Seq(Nat) /\ Len(w) = l /\ \A i \in 1 .. l : w[i] = b[i].w
  BY WritesAre
<1> HIDE DEF w
<1> USE <1>3
<1>4. /\ t \in Seq(Nat) /\ Len(t) = n + Len(w)
      /\ \A i \in 1 .. n + Len(w) : t[i] = IF i <= n THEN to[i] ELSE w[i - n]
  BY ConcatProperties, Zenon
<1>5. Len(t) = n + l /\ \A i \in 1 .. n + l : t[i] = IF i <= n THEN to[i] ELSE w[i - n]
  BY <1>4
<1>6. m <= k /\ \A i \in 1 .. m : from[i] = pipe[i].w
  BY Zenon DEF Answers
<1> HIDE DEF p, t, k, l, m, n
<1> USE <1>1, <1>2
<1>7. Answers(p, from)
  <2>1. m <= Len(p) /\ \A i \in 1 .. m : i \in 1 .. k + l /\ i <= k
    BY <1>6
  <2>2. \A i \in 1 .. m : from[i] = p[i].w
    BY <1>6, <2>1, Zenon
  <2> QED  BY <2>1, <2>2 DEF Answers, m
<1> USE <1>5
<1>8. ASSUME Requests(pipe, from, to) PROVE Requests(p, from, t)
  <2>1. m + n = k /\ \A i \in 1 .. n : to[i] = pipe[m + i].w
    BY <1>8 DEF Requests, m, n, k
  <2> USE <2>1
  <2>2. m + Len(t) = Len(p)
    OBVIOUS
  <2>3. ASSUME NEW i \in 1 .. Len(t) PROVE t[i] = p[m + i].w
    <3>1. i \in 1 .. n + l /\ m + i \in 1 .. k + l
      OBVIOUS
    <3> USE <3>1
    <3>2. CASE i <= n
      <4>1. i \in 1 .. n /\ m + i <= k
        BY <3>2
      <4> QED  BY <3>2, <4>1, Zenon
    <3>3. CASE ~(i <= n)
      <4>1. i - n \in 1 .. l /\ ~(m + i <= k) /\ (m + i) - k = i - n
        BY <3>3
      <4>2. t[i] = w[i - n] /\ w[i - n] = b[i - n].w
        BY <3>3, <4>1
      <4>3. ASSUME NEW j \in 1 .. k + l, ~(j <= k), j - k = i - n PROVE p[j] = b[i - n]
        BY <4>3, Zenon
      <4>4. p[m + i] = b[i - n]
        BY <4>1, <4>3, Zenon
      <4> QED  BY <4>2, <4>4
    <3> QED  BY <3>2, <3>3
  <2> QED  BY <2>2, <2>3, Zenon DEF Requests, m
<1> QED  BY <1>4, <1>7, <1>8 DEF p, t, w

(* Adding the batches that follow the pipeline: they are sent when the     *)
(* handshake is complete, and only wait in the pipeline before that.       *)
LEMMA AddKeepsBase ==
  ASSUME NEW c, Base(c)
  PROVE  LET d == AddToWritePipeline(c, NextBatches(c))
         IN  /\ Base(d)
             /\ d.net = c.net /\ d.handshake = c.handshake
             /\ d.stream.state = c.stream.state
<1> DEFINE q == c.queue[c.user]
           b == NextBatches(c)
           n == Len(c.pipe)
           p == c.pipe \o b
           d == AddToWritePipeline(c, b)
<1>1. c \in ClientType /\ QueueInv(c) /\ PipePrefix(c.pipe, q) /\ n <= MaxPendingWrites
  BY DEF Base, PipeInv
<1>2. PICK r \in n .. Len(q) :
             b = SubSeq(q, n + 1, r) /\ r <= MaxPendingWrites /\ (~c.net => r = n)
  BY <1>1, NextBatchesFollow, Zenon
<1>3. q \in Seq(Batch) /\ c.pipe \in Seq(Batch) /\ c.stream \in StreamType
      /\ c.toServer \in Seq(Nat) /\ c.fromServer \in Seq(Nat)
  BY <1>1, FieldTypes
<1>4. /\ b \in Seq(Batch) /\ p \in Seq(Batch) /\ Len(p) = r
      /\ \A i \in 1 .. r : p[i] = q[i]
  <2>1. n <= Len(q) /\ \A i \in 1 .. n : c.pipe[i] = q[i]
    BY <1>1 DEF PipePrefix
  <2> HIDE DEF q, b
  <2> QED  BY <1>2, <1>3, <2>1, ExtendPipe, Zenon
<1>5. n \in Nat /\ Len(q) \in Nat
  BY <1>3, LenProperties
<1> HIDE DEF q, b, p, n
<1>6. PipePrefix(p, q) /\ Len(p) <= MaxPendingWrites
  <2>1. Len(p) <= Len(q)
    BY <1>2, <1>4, <1>5
  <2> QED  BY <1>2, <1>4, <2>1 DEF PipePrefix
<1>7. p = <<>> => c.pipe = <<>>
  <2>1. Len(<<>>) = 0 /\ (c.pipe # <<>> => n > 0)
    BY <1>3, EmptySeq DEF n
  <2> QED  BY <1>2, <1>4, <1>5, <2>1
<1>8. ASSUME ~c.net PROVE p = <<>> /\ ~IsStarted(c.stream)
  <2>1. c.pipe = <<>> /\ ~IsStarted(c.stream)
    BY <1>8 DEF Base, PipeInv
  <2>2. n = 0
    BY <2>1 DEF n
  <2> QED  BY <1>2, <1>4, <1>8, <2>1, <2>2, EmptySeq
<1>9. CASE b = <<>> \/ ~(IsOpen(c.stream) /\ c.handshake)
  <2>1. d = [c EXCEPT !.pipe = p]
    BY <1>9 DEF AddToWritePipeline, SendMutations, p
  <2>2. d \in ClientType
    BY <1>1, <1>4, <2>1, Zenon DEF ClientType
  <2>3. /\ d.pipe = p /\ d.stream = c.stream /\ d.toServer = c.toServer
        /\ d.user = c.user /\ d.queue = c.queue /\ d.nextId = c.nextId
        /\ d.net = c.net /\ d.handshake = c.handshake
        /\ d.fromServer = c.fromServer /\ d.fin = c.fin
        /\ d.failed = c.failed /\ d.app = c.app
    BY <1>1, <2>1, SMT DEF ClientType
  <2> HIDE DEF d
  <2>4. QueueInv(d)
    BY <1>1, <2>3, QueueInvFrame
  <2>5. StreamInv(d)
    BY <2>3 DEF Base, StreamInv
  <2>6. IsOpen(c.stream) /\ c.handshake => p = c.pipe
    BY <1>3, <1>9, ConcatEmptySeq DEF p
  <2>7. PipeInv(d)
    <3>1. d.stream.idle => d.pipe = <<>>
      BY <2>3, <2>6 DEF Base, StreamInv, PipeInv
    <3>2. IsStarted(d.stream) /\ ~(IsOpen(d.stream) /\ d.handshake) => d.pipe # <<>>
      BY <1>7, <2>3 DEF Base, PipeInv
    <3>3. ~d.net => ~IsStarted(d.stream) /\ d.pipe = <<>>
      BY <1>8, <2>3
    <3> QED  BY <1>6, <2>3, <3>1, <3>2, <3>3 DEF PipeInv, q
  <2>8. WireInv(d)
    BY <2>3, <2>6 DEF Base, WireInv
  <2> QED  BY <2>2, <2>3, <2>4, <2>5, <2>7, <2>8 DEF Base, d, b
<1>10. CASE b # <<>> /\ IsOpen(c.stream) /\ c.handshake
  <2> DEFINE s == CancelIdleCheck(c.stream)
             t == c.toServer \o Writes(b)
  <2>1. d = [c EXCEPT !.pipe = p, !.stream = s, !.toServer = t]
    BY <1>1, <1>10 DEF AddToWritePipeline, SendMutations, Check, p, ClientType
  <2>2. /\ s \in StreamType /\ s.idle = FALSE /\ s.state = c.stream.state
        /\ s.closes = c.stream.closes /\ s.creds = c.stream.creds
        /\ s.backoff = c.stream.backoff
    BY <1>3, CancelIdleFields, Zenon
  <2>3. Answers(c.pipe, c.fromServer)
    BY <1>10 DEF Base, WireInv
  <2>4. /\ t \in Seq(Nat) /\ Answers(p, c.fromServer)
        /\ Requests(c.pipe, c.fromServer, c.toServer) => Requests(p, c.fromServer, t)
    BY <1>3, <1>4, <2>3, SendExtends DEF p
  <2> HIDE DEF s, t
  <2>5. d \in ClientType
    BY <1>1, <1>4, <2>1, <2>2, <2>4, Zenon DEF ClientType
  <2>6. /\ d.stream = s /\ d.pipe = p /\ d.toServer = t
        /\ d.user = c.user /\ d.queue = c.queue /\ d.nextId = c.nextId
        /\ d.net = c.net /\ d.handshake = c.handshake
        /\ d.fromServer = c.fromServer /\ d.fin = c.fin
        /\ d.failed = c.failed /\ d.app = c.app
    BY <1>1, <2>1, SMT DEF ClientType
  <2> HIDE DEF d
  <2>7. QueueInv(d)
    BY <1>1, <2>6, QueueInvFrame
  <2>8. IsOpen(d.stream) /\ IsStarted(d.stream)
    BY <1>10, <2>2, <2>6 DEF IsOpen, IsStarted
  <2>9. StreamInv(d)
    BY <1>10, <2>2, <2>6, <2>8 DEF Base, StreamInv
  <2>10. PipeInv(d)
    <3>1. c.net
      BY <1>10 DEF Base, PipeInv, IsStarted
    <3> QED  BY <1>6, <1>10, <2>2, <2>6, <2>8, <3>1 DEF PipeInv, q
  <2>11. WireInv(d)
    BY <1>10, <2>4, <2>6 DEF Base, WireInv
  <2> QED  BY <2>2, <2>5, <2>6, <2>7, <2>9, <2>10, <2>11 DEF Base, d, b
<1> QED  BY <1>9, <1>10 DEF d, b

(* Marking the stream idle when the pipeline is empty. *)
LEMMA MarkIdleKeepsBase ==
  ASSUME NEW c, Base(c), c.net, c.pipe = <<>>
  PROVE  LET d == [c EXCEPT !.stream = MarkIdle(c.stream)]
         IN  /\ Base(d)
             /\ d.net = c.net /\ d.handshake = c.handshake
             /\ d.stream.state = c.stream.state
<1> DEFINE s == MarkIdle(c.stream)
           d == [c EXCEPT !.stream = s]
<1>1. c \in ClientType /\ c.stream \in StreamType
  BY FieldTypes DEF Base
<1>2. /\ s \in StreamType /\ s.state = c.stream.state
      /\ s.closes = c.stream.closes /\ s.creds = c.stream.creds
      /\ s.backoff = c.stream.backoff
      /\ s.idle => c.stream.idle \/ IsOpen(c.stream)
  BY <1>1, MarkIdleFields
<1> HIDE DEF s
<1> USE <1>2
<1>3. /\ d \in ClientType /\ d.stream = s
      /\ d.user = c.user /\ d.queue = c.queue /\ d.nextId = c.nextId
      /\ d.net = c.net /\ d.pipe = c.pipe /\ d.handshake = c.handshake
      /\ d.toServer = c.toServer /\ d.fromServer = c.fromServer /\ d.fin = c.fin
      /\ d.failed = c.failed /\ d.app = c.app
  BY <1>1, StreamUpdate, ZenonT(30)
<1> HIDE DEF d
<1> USE <1>3
<1>4. QueueInv(d)
  BY QueueInvFrame DEF Base
<1>5. (IsOpen(d.stream) <=> IsOpen(c.stream)) /\ (IsStarted(d.stream) <=> IsStarted(c.stream))
  BY DEF IsOpen, IsStarted
<1>6. s.idle => IsOpen(c.stream) /\ c.handshake
  BY DEF Base, StreamInv, PipeInv, IsStarted
<1> USE <1>5
<1>7. StreamInv(d)
  BY <1>6 DEF Base, StreamInv
<1>8. PipeInv(d)
  BY DEF Base, PipeInv
<1>9. WireInv(d)
  BY DEF Base, WireInv
<1> QED  BY <1>4, <1>7, <1>8, <1>9, Zenon DEF Base, d, s

(* Starting the stream when it is needed. *)
LEMMA MaybeStartKeepsBase ==
  ASSUME NEW c, Base(c)
  PROVE  LET d == MaybeStartWriteStream(c)
         IN  /\ Base(d)
             /\ d.net = c.net /\ d.handshake = c.handshake
             /\ IsOpen(d.stream) <=> IsOpen(c.stream)
<1> DEFINE d == MaybeStartWriteStream(c)
<1>1. CASE ~ShouldStartWriteStream(c)
  BY <1>1 DEF MaybeStartWriteStream
<1>2. CASE ShouldStartWriteStream(c)
  <2> DEFINE s == Start(c.stream)
  <2>1. c \in ClientType /\ c.stream \in StreamType /\ c.stream.state \in StreamState
    BY FieldTypes, StreamFields DEF Base
  <2>2. c.net /\ ~IsStarted(c.stream) /\ c.pipe # <<>>
    BY <1>2 DEF ShouldStartWriteStream
  <2>3. CanStart(c.stream) /\ ~IsOpen(c.stream)
    BY <2>1, <2>2 DEF CanStart, IsStarted, IsOpen, StreamState
  <2>4. d = [c EXCEPT !.stream = s]
    BY <1>2, <2>3 DEF MaybeStartWriteStream, StartWriteStream, Check
  <2>5. /\ s \in StreamType /\ s.closes = c.stream.closes /\ s.idle = c.stream.idle
        /\ c.stream.state = "Error" =>
             s.state = "Backoff" /\ s.creds = c.stream.creds /\ s.backoff = TRUE
        /\ c.stream.state # "Error" =>
             /\ s.state = "Starting" /\ s.backoff = c.stream.backoff
             /\ s.creds = c.stream.creds \cup {c.stream.closes}
    BY <2>1, StartFields, Zenon
  <2> HIDE DEF s
  <2>6. /\ d \in ClientType /\ d.stream = s
        /\ d.user = c.user /\ d.queue = c.queue /\ d.nextId = c.nextId
        /\ d.net = c.net /\ d.pipe = c.pipe /\ d.handshake = c.handshake
        /\ d.toServer = c.toServer /\ d.fromServer = c.fromServer /\ d.fin = c.fin
        /\ d.failed = c.failed /\ d.app = c.app
    BY <2>1, <2>4, <2>5, StreamUpdate
  <2> HIDE DEF d
  <2>7. ~IsOpen(d.stream)
    BY <2>5, <2>6 DEF IsOpen
  <2>8. QueueInv(d)
    BY <2>6, QueueInvFrame DEF Base
  <2>9. StreamInv(d)
    <3>1. ~c.stream.idle /\ ~c.stream.backoff
      BY <2>2, <2>3 DEF Base, StreamInv, IsStarted
    <3>2. \A n \in c.stream.creds : n \in Nat /\ n <= c.stream.closes /\ n # c.stream.closes
      BY <2>1, <2>2, StreamFields DEF Base, StreamInv, IsStarted
    <3>3. c.stream.closes \in Nat
      BY <2>1, StreamFields, Zenon
    <3>4. CASE c.stream.state = "Error"
      BY <2>3, <2>5, <2>6, <2>7, <3>1, <3>2, <3>4, Zenon DEF Base, StreamInv
    <3>5. CASE c.stream.state # "Error"
      BY <2>3, <2>5, <2>6, <2>7, <3>1, <3>2, <3>3, <3>5 DEF Base, StreamInv
    <3> QED  BY <3>4, <3>5
  <2>10. PipeInv(d)
    BY <2>2, <2>5, <2>6 DEF Base, PipeInv
  <2>11. WireInv(d)
    BY <2>7 DEF WireInv
  <2> QED  BY <2>3, <2>6, <2>7, <2>8, <2>9, <2>10, <2>11 DEF Base, d
<1> QED  BY <1>1, <1>2

LEMMA FillKeepsBase ==
  ASSUME NEW c, Base(c)
  PROVE  LET d == FillWritePipeline(c)
         IN  /\ Base(d)
             /\ d.net = c.net /\ d.handshake = c.handshake
             /\ IsOpen(d.stream) <=> IsOpen(c.stream)
<1> DEFINE d == AddToWritePipeline(c, NextBatches(c))
           e == IF d.net /\ d.pipe = <<>> THEN [d EXCEPT !.stream = MarkIdle(d.stream)] ELSE d
           f == MaybeStartWriteStream(e)
<1>1. Base(d) /\ d.net = c.net /\ d.handshake = c.handshake
      /\ d.stream.state = c.stream.state
  BY AddKeepsBase
<1>2. FillWritePipeline(c) = f
  BY DEF FillWritePipeline
<1> HIDE DEF d
<1> USE <1>1
<1>3. Base(e) /\ e.net = d.net /\ e.handshake = d.handshake
      /\ e.stream.state = d.stream.state
  BY MarkIdleKeepsBase
<1> HIDE DEF e
<1> USE <1>3
<1>4. Base(f) /\ f.net = e.net /\ f.handshake = e.handshake
      /\ (IsOpen(f.stream) <=> IsOpen(e.stream))
  BY MaybeStartKeepsBase
<1> HIDE DEF f
<1>5. IsOpen(e.stream) <=> IsOpen(c.stream)
  BY DEF IsOpen
<1> QED  BY <1>2, <1>4, <1>5
-----------------------------------------------------------------------------
(* Settling the first batch of the pipeline. *)

LEMMA OnlyAppBase ==
  ASSUME NEW c, Base(c), NEW d, OnlyApp(d, c)
  PROVE  Base(d) /\ d.handshake = c.handshake /\ d.stream = c.stream /\ d.net = c.net
<1>1. d \in ClientType /\ SameLink(d, c) /\ d.queue = c.queue /\ d.nextId = c.nextId
      /\ d.failed = c.failed /\ d.app.owner = c.app.owner
  BY DEF OnlyApp
<1> USE <1>1
<1>2. QueueInv(d)
  BY QueueInvFrame DEF Base, SameLink
<1>3. StreamInv(d)
  BY DEF Base, StreamInv, SameLink
<1>4. PipeInv(d)
  BY Zenon DEF Base, PipeInv, SameLink
<1>5. WireInv(d)
  BY DEF Base, WireInv, SameLink
<1> QED  BY <1>2, <1>3, <1>4, <1>5 DEF Base, SameLink

LEMMA PrefixHead ==
  ASSUME NEW p \in Seq(Batch), NEW q \in Seq(Batch), PipePrefix(p, q), p # <<>>
  PROVE  /\ q # <<>> /\ Head(p) = Head(q)
         /\ PipePrefix(Tail(p), Tail(q)) /\ Tail(p) \in Seq(Batch)
         /\ Len(Tail(p)) <= Len(p)
<1> DEFINE k == Len(p)
           l == Len(q)
<1>1. k \in Nat /\ l \in Nat /\ k > 0 /\ k <= l /\ \A i \in 1 .. k : p[i] = q[i]
  BY BatchSeqHead, BatchSeq DEF PipePrefix
<1> USE <1>1
<1>2. q # <<>>
  <2>1. Len(<<>>) = 0
    BY EmptySeq
  <2> QED  BY <2>1
<1> USE <1>2
<1>3. /\ Tail(p) \in Seq(Batch) /\ Len(Tail(p)) = k - 1 /\ Len(Tail(q)) = l - 1
      /\ \A i \in 1 .. k - 1 : Tail(p)[i] = p[i + 1]
      /\ \A i \in 1 .. l - 1 : Tail(q)[i] = q[i + 1]
  BY HeadTailProperties
<1>4. Head(p) = p[1] /\ Head(q) = q[1]
  BY BatchSeqHead
<1> HIDE DEF k, l
<1>5. Head(p) = Head(q)
  BY <1>4
<1> USE <1>3
<1>6. ASSUME NEW i \in 1 .. k - 1 PROVE Tail(p)[i] = Tail(q)[i]
  <2>1. i \in 1 .. l - 1 /\ i + 1 \in 1 .. k
    OBVIOUS
  <2> QED  BY <2>1
<1>7. PipePrefix(Tail(p), Tail(q))
  <2>1. k - 1 <= l - 1
    OBVIOUS
  <2> QED  BY <1>6, <2>1 DEF PipePrefix
<1>8. Len(Tail(p)) <= k
  OBVIOUS
<1> QED  BY <1>5, <1>7, <1>8 DEF k

LEMMA AnswersHead ==
  ASSUME NEW p \in Seq(Batch), NEW from \in Seq(Nat), NEW to \in Seq(Nat),
         Answers(p, from), from # <<>>
  PROVE  /\ p # <<>> /\ Tail(from) \in Seq(Nat)
         /\ Answers(Tail(p), Tail(from))
         /\ Requests(p, from, to) => Requests(Tail(p), Tail(from), to)
<1> DEFINE k == Len(p)
           m == Len(from)
           n == Len(to)
<1>1. k \in Nat /\ m \in Nat /\ n \in Nat /\ m > 0
  BY LenProperties, EmptySeq
<1>2. m <= k /\ \A i \in 1 .. m : from[i] = p[i].w
  BY DEF Answers
<1> USE <1>1, <1>2
<1>3. p # <<>>
  <2>1. Len(<<>>) = 0
    BY EmptySeq
  <2> HIDE DEF m
  <2> QED  BY <2>1
<1>4. /\ Tail(from) \in Seq(Nat) /\ Len(Tail(from)) = m - 1 /\ Len(Tail(p)) = k - 1
      /\ \A i \in 1 .. k - 1 : Tail(p)[i] = p[i + 1]
      /\ \A i \in 1 .. m - 1 : Tail(from)[i] = from[i + 1]
  BY <1>3, HeadTailProperties
<1> HIDE DEF k, m, n
<1> USE <1>4
<1>5. Answers(Tail(p), Tail(from))
  <2>1. m - 1 <= k - 1
    OBVIOUS
  <2>2. ASSUME NEW i \in 1 .. m - 1 PROVE Tail(from)[i] = Tail(p)[i].w
    <3>1. i \in 1 .. k - 1 /\ i + 1 \in 1 .. m
      OBVIOUS
    <3> QED  BY <3>1
  <2> QED  BY <2>1, <2>2 DEF Answers
<1>6. ASSUME Requests(p, from, to) PROVE Requests(Tail(p), Tail(from), to)
  <2>1. m + n = k /\ \A i \in 1 .. n : to[i] = p[m + i].w
    BY <1>6 DEF Requests, m, n, k
  <2> USE <2>1
  <2>2. (m - 1) + n = k - 1
    OBVIOUS
  <2>3. ASSUME NEW i \in 1 .. n PROVE to[i] = Tail(p)[(m - 1) + i].w
    <3>1. (m - 1) + i \in 1 .. k - 1 /\ ((m - 1) + i) + 1 = m + i
      OBVIOUS
    <3>2. Tail(p)[(m - 1) + i] = p[m + i]
      BY <3>1
    <3> QED  BY <3>2, Zenon
  <2> QED  BY <2>2, <2>3, Zenon DEF Requests, n
<1> QED  BY <1>3, <1>5, <1>6

(* c is d with its pipeline already shortened and its first batch still in *)
(* the queue; e is c without it.                                           *)
LEMMA PoppedBase ==
  ASSUME NEW c \in ClientType, c.failed = {}, QueueInv(c), StreamInv(c), WireInv(c),
         c.queue[c.user] # <<>>, PipePrefix(c.pipe, Tail(c.queue[c.user])),
         Len(c.pipe) <= MaxPendingWrites, ~c.stream.idle, c.net,
         ~IsStarted(c.stream) \/ (IsOpen(c.stream) /\ c.handshake),
         NEW e, Popped(e, c)
  PROVE  Base(e) /\ e.handshake = c.handshake /\ e.stream = c.stream /\ e.net = c.net
<1>1. e \in ClientType /\ SameLink(e, c) /\ e.failed = {}
  BY DEF Popped
<1>2. QueueInv(e)
  BY PoppedQueueInv
<1>3. e.queue[e.user] = Tail(c.queue[c.user])
  <2>1. c.user \in Users /\ c.queue \in [Users -> Seq(Batch)]
    BY FieldTypes
  <2> QED  BY <2>1 DEF Popped, SameLink
<1> USE <1>1
<1>4. StreamInv(e)
  BY Zenon DEF StreamInv, SameLink
<1>5. WireInv(e)
  BY DEF WireInv, SameLink
<1>6. PipeInv(e)
  BY <1>3 DEF PipeInv, SameLink
<1> QED  BY <1>2, <1>4, <1>5, <1>6 DEF Base, SameLink
-----------------------------------------------------------------------------
(* Closing the stream. *)

LEMMA CloseFields ==
  ASSUME NEW s \in StreamType, NEW graceful \in BOOLEAN
  PROVE  LET r == Close(s, graceful)
         IN  /\ r \in StreamType /\ r.closes = s.closes + 1 /\ r.creds = s.creds
             /\ r.idle = FALSE /\ r.backoff = FALSE
             /\ r.state = IF graceful THEN "Initial" ELSE "Error"
<1> DEFINE st == IF graceful THEN "Initial" ELSE "Error"
           n == s.closes + 1
           r == [s EXCEPT !.idle = FALSE, !.backoff = FALSE, !.health = FALSE,
                          !.closes = n, !.state = st]
<1>1. st \in StreamState /\ n \in Nat
  BY StreamFields DEF StreamState
<1>2. Close(s, graceful) = r
  BY DEF Close, StreamType
<1> HIDE DEF st, n
<1>3. r \in StreamType /\ r.closes = n /\ r.creds = s.creds /\ r.idle = FALSE
      /\ r.backoff = FALSE /\ r.state = st
  BY <1>1, Zenon DEF StreamType
<1> HIDE DEF r
<1> QED  BY <1>2, <1>3 DEF st, n

LEMMA InhibitFields ==
  ASSUME NEW s \in StreamType
  PROVE  LET r == InhibitBackoff(s)
         IN  /\ r \in StreamType /\ r.state = "Initial" /\ r.closes = s.closes
             /\ r.creds = s.creds /\ r.idle = s.idle /\ r.backoff = s.backoff
  BY DEF InhibitBackoff, StreamType, StreamState

LEMMA NotOpen ==
  ASSUME NEW s, s.state \in {"Initial", "Error"}
  PROVE  ~IsOpen(s) /\ ~IsStarted(s)
  BY DEF IsOpen, IsStarted

LEMMA InhibitKeepsStreamInv ==
  ASSUME NEW c, NEW d, StreamInv(c), c.stream \in StreamType, ~IsStarted(c.stream),
         d.stream = InhibitBackoff(c.stream), d.toServer = c.toServer,
         d.fromServer = c.fromServer, d.fin = c.fin
  PROVE  StreamInv(d) /\ ~IsStarted(d.stream) /\ ~IsOpen(d.stream) /\ ~d.stream.idle
<1> DEFINE s == InhibitBackoff(c.stream)
<1>1. /\ s \in StreamType /\ s.state = "Initial" /\ s.closes = c.stream.closes
      /\ s.creds = c.stream.creds /\ s.idle = c.stream.idle
      /\ s.backoff = c.stream.backoff
  BY InhibitFields
<1>2. d.stream = s
  OBVIOUS
<1> HIDE DEF s
<1>3. ~IsStarted(d.stream) /\ ~IsOpen(d.stream)
  BY <1>1, <1>2, NotOpen
<1>4. ~IsOpen(c.stream) /\ c.stream.state \notin {"Starting", "Backoff"}
  BY DEF IsStarted
<1> QED  BY <1>1, <1>2, <1>3, <1>4 DEF StreamInv

(* What Close leaves behind before the subclass is notified. *)
Closed(c, graceful) ==
    [c EXCEPT !.stream = Close(c.stream, graceful),
              !.abandoned = c.abandoned \o Abandoned(c),
              !.toServer = <<>>, !.fromServer = <<>>, !.fin = "none"]

LEMMA AbandonedType ==
  ASSUME NEW c, c.toServer \in Seq(Nat), NEW a \in Seq(Seq(Nat))
  PROVE  a \o Abandoned(c) \in Seq(Seq(Nat))
<1>1. <<>> \in Seq(Seq(Nat)) /\ <<c.toServer>> \in Seq(Seq(Nat))
  OBVIOUS
<1>2. Abandoned(c) \in Seq(Seq(Nat))
  BY <1>1, Zenon DEF Abandoned
<1> QED  BY <1>2, ConcatProperties

LEMMA ClosedFields ==
  ASSUME NEW c \in ClientType, StreamInv(c), NEW graceful \in BOOLEAN
  PROVE  LET d == Closed(c, graceful)
         IN  /\ d \in ClientType /\ StreamInv(d)
             /\ d.stream = Close(c.stream, graceful)
             /\ ~IsStarted(d.stream) /\ ~IsOpen(d.stream) /\ ~d.stream.idle
             /\ d.user = c.user /\ d.queue = c.queue /\ d.nextId = c.nextId
             /\ d.net = c.net /\ d.pipe = c.pipe /\ d.handshake = c.handshake
             /\ d.toServer = <<>> /\ d.fromServer = <<>> /\ d.fin = "none"
             /\ d.failed = c.failed /\ d.app = c.app
<1> DEFINE s == Close(c.stream, graceful)
           a == c.abandoned \o Abandoned(c)
           d == [c EXCEPT !.stream = s, !.abandoned = a,
                          !.toServer = <<>>, !.fromServer = <<>>, !.fin = "none"]
<1>1. c.stream \in StreamType /\ c.abandoned \in Seq(Seq(Nat))
      /\ c.toServer \in Seq(Nat)
  BY FieldTypes
<1> USE <1>1
<1>2. /\ s \in StreamType /\ s.closes = c.stream.closes + 1 /\ s.creds = c.stream.creds
      /\ s.idle = FALSE /\ s.backoff = FALSE
      /\ s.state = IF graceful THEN "Initial" ELSE "Error"
  BY CloseFields, Zenon
<1>3. a \in Seq(Seq(Nat))
  BY AbandonedType
<1>4. Closed(c, graceful) = d
  BY DEF Closed
<1>5. <<>> \in Seq(Nat) /\ "none" \in Error \cup {"none"}
  BY EmptySeq
<1> HIDE DEF s, a
<1> USE <1>2
<1>6. d \in ClientType
  BY <1>3, <1>5, Zenon DEF ClientType
<1>7. /\ d.stream = s
      /\ d.user = c.user /\ d.queue = c.queue /\ d.nextId = c.nextId
      /\ d.net = c.net /\ d.pipe = c.pipe /\ d.handshake = c.handshake
      /\ d.toServer = <<>> /\ d.fromServer = <<>> /\ d.fin = "none"
      /\ d.failed = c.failed /\ d.app = c.app
  BY SMT DEF ClientType
<1> HIDE DEF d
<1> USE <1>7
<1>8. ~IsStarted(d.stream) /\ ~IsOpen(d.stream)
  BY NotOpen
<1>9. StreamInv(d)
  <2>1. \A n \in c.stream.creds : n \in Nat /\ n <= c.stream.closes
    BY StreamFields DEF StreamInv
  <2>2. c.stream.closes \in Nat
    BY StreamFields
  <2>3. \A n \in d.stream.creds : n <= d.stream.closes /\ n # d.stream.closes
    BY <2>1, <2>2
  <2> QED  BY <2>3 DEF StreamInv
<1> QED  BY <1>4, <1>6, <1>8, <1>9 DEF s

LEMMA HandshakeReset ==
  ASSUME NEW c \in ClientType
  PROVE  LET d == [c EXCEPT !.handshake = FALSE]
         IN  /\ d \in ClientType /\ d.handshake = FALSE /\ d.stream = c.stream
             /\ d.user = c.user /\ d.queue = c.queue /\ d.nextId = c.nextId
             /\ d.net = c.net /\ d.pipe = c.pipe
             /\ d.toServer = c.toServer /\ d.fromServer = c.fromServer /\ d.fin = c.fin
             /\ d.failed = c.failed /\ d.app = c.app
<1>1. [c EXCEPT !.handshake = FALSE] \in ClientType
  BY Zenon DEF ClientType
<1>2. LET d == [c EXCEPT !.handshake = FALSE]
      IN  /\ d.handshake = FALSE /\ d.stream = c.stream
          /\ d.user = c.user /\ d.queue = c.queue /\ d.nextId = c.nextId
          /\ d.net = c.net /\ d.pipe = c.pipe
          /\ d.toServer = c.toServer /\ d.fromServer = c.fromServer /\ d.fin = c.fin
          /\ d.failed = c.failed /\ d.app = c.app
  BY SMT DEF ClientType
<1> QED  BY <1>1, <1>2

(* Stop leaves the stream stopped, provided that it is not needed: the     *)
(* network is off or the pipeline is empty.                                *)
LEMMA StopStops ==
  ASSUME NEW c \in ClientType, StreamInv(c), c.handshake => IsOpen(c.stream),
         ~c.net \/ c.pipe = <<>>
  PROVE  LET d == Stop(c)
         IN  /\ d \in ClientType /\ StreamInv(d)
             /\ ~IsStarted(d.stream) /\ ~IsOpen(d.stream) /\ ~d.stream.idle
             /\ d.user = c.user /\ d.queue = c.queue /\ d.nextId = c.nextId
             /\ d.net = c.net /\ d.pipe = c.pipe /\ d.handshake = FALSE
             /\ d.failed = c.failed /\ d.app = c.app
<1>1. CASE ~IsStarted(c.stream)
  <2> USE <1>1
  <2>1. Stop(c) = c
    BY DEF Stop, CloseWriteStream
  <2>2. ~IsOpen(c.stream)
    BY DEF IsStarted
  <2> USE <2>2
  <2>3. c.handshake = FALSE
    BY FieldTypes
  <2>4. ~c.stream.idle
    BY DEF StreamInv
  <2> QED  BY <2>1, <2>3, <2>4
<1>2. CASE IsStarted(c.stream)
  <2> DEFINE d == Closed(c, TRUE)
             e == [d EXCEPT !.handshake = FALSE]
  <2>1. /\ d \in ClientType /\ StreamInv(d)
        /\ ~IsStarted(d.stream) /\ ~IsOpen(d.stream) /\ ~d.stream.idle
        /\ d.user = c.user /\ d.queue = c.queue /\ d.nextId = c.nextId
        /\ d.net = c.net /\ d.pipe = c.pipe /\ d.handshake = c.handshake
        /\ d.toServer = <<>> /\ d.fromServer = <<>> /\ d.fin = "none"
        /\ d.failed = c.failed /\ d.app = c.app
    BY ClosedFields, ZenonT(30)
  <2>2. CloseWriteStream(c, "ok") = [OnWriteStreamClose(d, "ok") EXCEPT !.handshake = FALSE]
    BY <1>2, Zenon DEF CloseWriteStream, Check, Closed
  <2> HIDE DEF d
  <2> USE <2>1
  <2>3. ~ShouldStartWriteStream(d)
    BY DEF ShouldStartWriteStream
  <2>4. OnWriteStreamClose(d, "ok") = d
    BY <2>3, Zenon DEF OnWriteStreamClose, Check, MaybeStartWriteStream
  <2>5. Stop(c) = e
    BY <2>2, <2>4 DEF Stop
  <2>6. /\ e \in ClientType /\ e.handshake = FALSE /\ e.stream = d.stream
        /\ e.user = d.user /\ e.queue = d.queue /\ e.nextId = d.nextId
        /\ e.net = d.net /\ e.pipe = d.pipe
        /\ e.toServer = d.toServer /\ e.fromServer = d.fromServer /\ e.fin = d.fin
        /\ e.failed = d.failed /\ e.app = d.app
    BY HandshakeReset, Zenon
  <2> HIDE DEF e
  <2>7. StreamInv(e)
    BY <2>6 DEF StreamInv
  <2> QED  BY <2>5, <2>6, <2>7
<1> QED  BY <1>1, <1>2, Zenon

LEMMA HandshakeErrorFrame ==
  ASSUME NEW c \in ClientType, NEW status
  PROVE  OnlyApp(HandleHandshakeError(c, status), c)
<1>1. CASE ~IsPermanentError(status)
  BY <1>1 DEF HandleHandshakeError, OnlyApp, SameLink
<1>2. CASE IsPermanentError(status)
  <2> DEFINE t == [c.savedToken EXCEPT ![c.user] = 0]
             d == [c EXCEPT !.token = 0, !.savedToken = t]
  <2>1. t \in [Users -> Nat]
    BY FieldTypes
  <2>2. HandleHandshakeError(c, status) = d
    BY <1>2, SMT DEF HandleHandshakeError, ClientType
  <2> HIDE DEF t
  <2>3. d \in ClientType
    BY <2>1, Zenon DEF ClientType
  <2>4. SameLink(d, c) /\ d.queue = c.queue /\ d.nextId = c.nextId
        /\ d.failed = c.failed /\ d.app = c.app
    BY SMT DEF ClientType, SameLink
  <2> HIDE DEF d
  <2> QED  BY <2>2, <2>3, <2>4 DEF OnlyApp
<1> QED  BY <1>1, <1>2

(* What HandleWriteError does before the batch is rejected. *)
Shortened(c) == [c EXCEPT !.pipe = Tail(c.pipe), !.stream = InhibitBackoff(c.stream)]

LEMMA ShortenedFields ==
  ASSUME NEW c \in ClientType, Tail(c.pipe) \in Seq(Batch)
  PROVE  LET d == Shortened(c)
         IN  /\ d \in ClientType
             /\ d.stream = InhibitBackoff(c.stream) /\ d.pipe = Tail(c.pipe)
             /\ d.toServer = c.toServer
             /\ d.user = c.user /\ d.queue = c.queue /\ d.nextId = c.nextId
             /\ d.net = c.net /\ d.handshake = c.handshake
             /\ d.fromServer = c.fromServer /\ d.fin = c.fin
             /\ d.failed = c.failed /\ d.app = c.app
<1> DEFINE p == Tail(c.pipe)
           s == InhibitBackoff(c.stream)
           d == [c EXCEPT !.pipe = p, !.stream = s]
<1>1. p \in Seq(Batch) /\ s \in StreamType
  BY FieldTypes, InhibitFields
<1>2. Shortened(c) = d
  BY DEF Shortened
<1> HIDE DEF p, s
<1>3. d \in ClientType
  BY <1>1, Zenon DEF ClientType
<1>4. /\ d.stream = s /\ d.pipe = p /\ d.toServer = c.toServer
      /\ d.user = c.user /\ d.queue = c.queue /\ d.nextId = c.nextId
      /\ d.net = c.net /\ d.handshake = c.handshake
      /\ d.fromServer = c.fromServer /\ d.fin = c.fin
      /\ d.failed = c.failed /\ d.app = c.app
  BY SMT DEF ClientType
<1> HIDE DEF d
<1> QED  BY <1>2, <1>3, <1>4 DEF p, s

(* A permanent error settles the first batch of the pipeline. *)
LEMMA WriteErrorKeepsBase ==
  ASSUME NEW c, Base(c), ~IsStarted(c.stream), c.pipe # <<>>, c.net, NEW status
  PROVE  LET d == HandleWriteError(c, status)
         IN  Base(d) /\ ~IsOpen(d.stream)
<1>1. ~IsOpen(c.stream)
  BY DEF IsStarted
<1>2. CASE ~IsPermanentWriteError(status)
  BY <1>1, <1>2, Zenon DEF HandleWriteError
<1>3. CASE IsPermanentWriteError(status)
  <2> DEFINE b == Head(c.pipe)
             p == Tail(c.pipe)
             d == Shortened(c)
             e == HandleRejectedWrite(d, b)
  <2>1. /\ c \in ClientType /\ c.pipe \in Seq(Batch) /\ c.queue[c.user] \in Seq(Batch)
        /\ c.stream \in StreamType /\ c.failed = {} /\ QueueInv(c) /\ StreamInv(c)
        /\ PipePrefix(c.pipe, c.queue[c.user]) /\ Len(c.pipe) <= MaxPendingWrites
        /\ Len(c.pipe) \in Nat
    BY FieldTypes, LenProperties DEF Base, PipeInv
  <2> USE <2>1
  <2>2. /\ c.queue[c.user] # <<>> /\ b = Head(c.queue[c.user])
        /\ PipePrefix(p, Tail(c.queue[c.user])) /\ p \in Seq(Batch)
        /\ Len(p) <= Len(c.pipe)
    BY PrefixHead
  <2>3. HandleWriteError(c, status) = FillWritePipeline(e)
    BY <1>3, SMT DEF HandleWriteError, Check, ClientType, Shortened
  <2> HIDE DEF b
  <2> USE <2>2
  <2>4. /\ d \in ClientType
        /\ d.stream = InhibitBackoff(c.stream) /\ d.pipe = p /\ d.toServer = c.toServer
        /\ d.user = c.user /\ d.queue = c.queue /\ d.nextId = c.nextId
        /\ d.net = c.net /\ d.handshake = c.handshake
        /\ d.fromServer = c.fromServer /\ d.fin = c.fin
        /\ d.failed = c.failed /\ d.app = c.app
    BY ShortenedFields, ZenonT(30)
  <2> HIDE DEF d, p
  <2> USE <2>4
  <2>5. StreamInv(d) /\ ~IsStarted(d.stream) /\ ~IsOpen(d.stream) /\ ~d.stream.idle
    BY InhibitKeepsStreamInv, Zenon
  <2>6. QueueInv(d) /\ WireInv(d)
    BY <2>5, QueueInvFrame DEF WireInv
  <2>7. Len(d.pipe) <= MaxPendingWrites
    BY LenProperties, PipelineAssumption
  <2>8. Popped(e, d)
    BY <2>6, RejectIsPop
  <2> HIDE DEF e
  <2>9. Base(e) /\ ~IsOpen(e.stream)
    BY <2>5, <2>6, <2>7, <2>8, PoppedBase, Zenon
  <2> QED  BY <2>3, <2>9, FillKeepsBase, ZenonT(30)
<1> QED  BY <1>2, <1>3

LEMMA ResetGivesInv ==
  ASSUME NEW c, Base(c), ~IsOpen(c.stream)
  PROVE  ClientInv([c EXCEPT !.handshake = FALSE])
<1> DEFINE d == [c EXCEPT !.handshake = FALSE]
<1>1. /\ d \in ClientType /\ d.handshake = FALSE /\ d.stream = c.stream
      /\ d.user = c.user /\ d.queue = c.queue /\ d.nextId = c.nextId
      /\ d.net = c.net /\ d.pipe = c.pipe
      /\ d.toServer = c.toServer /\ d.fromServer = c.fromServer /\ d.fin = c.fin
      /\ d.failed = c.failed /\ d.app = c.app
  BY HandshakeReset DEF Base
<1> HIDE DEF d
<1> USE <1>1
<1>2. QueueInv(d)
  BY QueueInvFrame DEF Base
<1>3. StreamInv(d)
  BY DEF Base, StreamInv
<1>4. PipeInv(d)
  BY DEF Base, PipeInv
<1>5. WireInv(d)
  BY DEF WireInv
<1> QED  BY <1>2, <1>3, <1>4, <1>5 DEF Base, ClientInv, d

(* An error closes the stream and starts it again when it is needed. *)
LEMMA CloseOnError ==
  ASSUME NEW c, ClientInv(c), IsStarted(c.stream), NEW status \in Error
  PROVE  ClientInv(CloseWriteStream(c, status))
<1> DEFINE d == Closed(c, FALSE)
           e == IF d.pipe = <<>> THEN d
                ELSE IF d.handshake THEN HandleWriteError(d, status)
                ELSE HandleHandshakeError(d, status)
           f == MaybeStartWriteStream(e)
<1>1. c \in ClientType /\ StreamInv(c) /\ PipeInv(c) /\ c.net /\ status # "ok"
  BY DEF ClientInv, Base, PipeInv, Error
<1> USE <1>1
<1>2. /\ d \in ClientType /\ StreamInv(d)
      /\ ~IsStarted(d.stream) /\ ~IsOpen(d.stream) /\ ~d.stream.idle
      /\ d.user = c.user /\ d.queue = c.queue /\ d.nextId = c.nextId
      /\ d.net = c.net /\ d.pipe = c.pipe /\ d.handshake = c.handshake
      /\ d.toServer = <<>> /\ d.fromServer = <<>> /\ d.fin = "none"
      /\ d.failed = c.failed /\ d.app = c.app
  BY ClosedFields, Zenon
<1>3. CloseWriteStream(c, status) = [OnWriteStreamClose(d, status) EXCEPT !.handshake = FALSE]
  BY Zenon DEF CloseWriteStream, Check, Closed
<1> HIDE DEF d
<1> USE <1>2
<1>4. Base(d)
  <2>1. QueueInv(d)
    BY QueueInvFrame DEF ClientInv, Base
  <2>2. PipeInv(d)
    BY Zenon DEF PipeInv
  <2>3. WireInv(d)
    BY DEF WireInv
  <2> QED  BY <2>1, <2>2, <2>3 DEF Base, ClientInv
<1>5. OnWriteStreamClose(d, status) = f
  BY Zenon DEF OnWriteStreamClose, Check
<1> USE <1>4
<1>6. Base(e) /\ ~IsOpen(e.stream)
  <2>1. CASE d.pipe = <<>>
    BY <2>1
  <2>2. CASE d.pipe # <<>> /\ d.handshake
    BY <2>2, WriteErrorKeepsBase, Zenon
  <2>3. CASE d.pipe # <<>> /\ ~d.handshake
    <3>1. OnlyApp(HandleHandshakeError(d, status), d)
      BY HandshakeErrorFrame
    <3> QED  BY <2>3, <3>1, OnlyAppBase, Zenon
  <2> QED  BY <2>1, <2>2, <2>3
<1> HIDE DEF e
<1>7. Base(f) /\ ~IsOpen(f.stream)
  BY <1>6, MaybeStartKeepsBase
<1> HIDE DEF f
<1> QED  BY <1>3, <1>5, <1>7, ResetGivesInv
-----------------------------------------------------------------------------
(* Switching the network on and off. *)

(* After a user change the pipeline may belong to another user's queue: it *)
(* is emptied by DisableNetwork before it is used again.                   *)
Weak(c) ==
    /\ c \in ClientType
    /\ c.failed = {}
    /\ QueueInv(c)
    /\ StreamInv(c)
    /\ c.handshake => IsOpen(c.stream)

LEMMA EmptyPrefix ==
  ASSUME NEW q \in Seq(Batch)
  PROVE  PipePrefix(<<>>, q) /\ Len(<<>>) <= MaxPendingWrites
<1>1. Len(q) \in Nat /\ Len(<<>>) = 0 /\ MaxPendingWrites \in Nat
  BY LenProperties, EmptySeq, PipelineAssumption, Zenon
<1> QED  BY <1>1 DEF PipePrefix

LEMMA DisableGivesInv ==
  ASSUME NEW c, Weak(c)
  PROVE  LET d == DisableNetwork(c)
         IN  /\ ClientInv(d) /\ ~d.net /\ ~IsStarted(d.stream)
             /\ d.handshake = FALSE /\ d.user = c.user
<1> DEFINE n == [c EXCEPT !.net = FALSE]
           s == Stop(n)
           d == [s EXCEPT !.pipe = <<>>]
<1>1. c \in ClientType /\ c.failed = {} /\ QueueInv(c) /\ StreamInv(c)
      /\ (c.handshake => IsOpen(c.stream))
  BY DEF Weak
<1> USE <1>1
<1>2. n \in ClientType
  BY Zenon DEF ClientType
<1>3. /\ n.net = FALSE /\ n.stream = c.stream /\ n.handshake = c.handshake
      /\ n.user = c.user /\ n.queue = c.queue /\ n.nextId = c.nextId
      /\ n.toServer = c.toServer /\ n.fromServer = c.fromServer /\ n.fin = c.fin
      /\ n.failed = c.failed /\ n.app = c.app
  BY SMT DEF ClientType
<1>4. DisableNetwork(c) = d
  BY DEF DisableNetwork
<1> HIDE DEF n
<1> USE <1>3
<1>5. StreamInv(n)
  BY DEF StreamInv
<1>6. /\ s \in ClientType /\ StreamInv(s)
      /\ ~IsStarted(s.stream) /\ ~IsOpen(s.stream) /\ ~s.stream.idle
      /\ s.user = n.user /\ s.queue = n.queue /\ s.nextId = n.nextId
      /\ s.net = n.net /\ s.handshake = FALSE
      /\ s.failed = n.failed /\ s.app = n.app
  BY <1>2, <1>5, StopStops, Zenon
<1> HIDE DEF s
<1>7. <<>> \in Seq(Batch)
  BY EmptySeq
<1> USE <1>6
<1>8. d \in ClientType
  BY <1>7, Zenon DEF ClientType
<1>9. /\ d.pipe = <<>> /\ d.net = s.net /\ d.stream = s.stream
      /\ d.handshake = s.handshake
      /\ d.user = s.user /\ d.queue = s.queue /\ d.nextId = s.nextId
      /\ d.toServer = s.toServer /\ d.fromServer = s.fromServer /\ d.fin = s.fin
      /\ d.failed = s.failed /\ d.app = s.app
  BY SMT DEF ClientType
<1> HIDE DEF d
<1> USE <1>9
<1>10. QueueInv(d)
  BY QueueInvFrame, Zenon
<1>11. StreamInv(d)
  BY Zenon DEF StreamInv
<1>12. PipeInv(d)
  <2>1. d.queue[d.user] \in Seq(Batch)
    BY <1>8, FieldTypes, Zenon
  <2> QED  BY <2>1, EmptyPrefix, Zenon DEF PipeInv
<1>13. WireInv(d)
  BY Zenon DEF WireInv
<1> QED  BY <1>4, <1>8, <1>10, <1>11, <1>12, <1>13, Zenon DEF ClientInv, Base

LEMMA EnableKeepsInv ==
  ASSUME NEW c, ClientInv(c)
  PROVE  ClientInv(EnableNetwork(c))
<1> DEFINE t == c.savedToken[c.user]
           d == [c EXCEPT !.net = TRUE, !.token = t]
           f == FillWritePipeline(d)
<1>1. c \in ClientType /\ t \in Nat
  BY FieldTypes DEF ClientInv, Base
<1>2. EnableNetwork(c) = f
  BY DEF EnableNetwork
<1> HIDE DEF t
<1>3. d \in ClientType
  BY <1>1, Zenon DEF ClientType
<1>4. /\ d.net = TRUE /\ d.pipe = c.pipe /\ d.stream = c.stream
      /\ d.handshake = c.handshake
      /\ d.user = c.user /\ d.queue = c.queue /\ d.nextId = c.nextId
      /\ d.toServer = c.toServer /\ d.fromServer = c.fromServer /\ d.fin = c.fin
      /\ d.failed = c.failed /\ d.app = c.app
  BY <1>1, SMT DEF ClientType
<1> HIDE DEF d
<1> USE <1>4
<1>5. Base(d)
  <2>1. QueueInv(d)
    BY QueueInvFrame, Zenon DEF ClientInv, Base
  <2>2. StreamInv(d)
    BY Zenon DEF ClientInv, Base, StreamInv
  <2>3. PipeInv(d)
    BY DEF ClientInv, Base, PipeInv
  <2>4. WireInv(d)
    BY DEF ClientInv, Base, WireInv
  <2> QED  BY <1>3, <2>1, <2>2, <2>3, <2>4, Zenon DEF ClientInv, Base
<1>6. Base(f) /\ f.handshake = d.handshake /\ (IsOpen(f.stream) <=> IsOpen(d.stream))
  BY <1>5, FillKeepsBase
<1> HIDE DEF f
<1> QED  BY <1>2, <1>6 DEF ClientInv

LEMMA RestartGivesInv ==
  ASSUME NEW c, Weak(c)
  PROVE  ClientInv(RestartNetwork(c))
<1> DEFINE d == DisableNetwork(c)
           s == InhibitBackoff(d.stream)
           e == [d EXCEPT !.stream = s]
<1>1. ClientInv(d) /\ ~d.net /\ ~IsStarted(d.stream) /\ d.handshake = FALSE
  BY DisableGivesInv, Zenon
<1> USE <1>1
<1>2. RestartNetwork(c) = EnableNetwork(e)
  BY Zenon DEF RestartNetwork, Check
<1> HIDE DEF d
<1>3. d \in ClientType /\ d.stream \in StreamType /\ s \in StreamType /\ StreamInv(d)
  BY FieldTypes, InhibitFields DEF ClientInv, Base
<1> HIDE DEF s
<1>4. /\ e \in ClientType /\ e.stream = s
      /\ e.user = d.user /\ e.queue = d.queue /\ e.nextId = d.nextId
      /\ e.net = d.net /\ e.pipe = d.pipe /\ e.handshake = d.handshake
      /\ e.toServer = d.toServer /\ e.fromServer = d.fromServer /\ e.fin = d.fin
      /\ e.failed = d.failed /\ e.app = d.app
  BY <1>3, StreamUpdate
<1> HIDE DEF e
<1> USE <1>4
<1>5. StreamInv(e) /\ ~IsStarted(e.stream) /\ ~IsOpen(e.stream) /\ ~e.stream.idle
  BY <1>3, InhibitKeepsStreamInv, Zenon DEF s
<1> USE <1>5
<1>6. QueueInv(e) /\ WireInv(e)
  BY QueueInvFrame, Zenon DEF ClientInv, Base, WireInv
<1>7. PipeInv(e)
  BY Zenon DEF ClientInv, Base, PipeInv
<1>8. ClientInv(e)
  BY <1>6, <1>7 DEF ClientInv, Base
<1> QED  BY <1>2, <1>8, EnableKeepsInv
-----------------------------------------------------------------------------
(* Timers and credentials. *)

(* An update of the stream that keeps it open or not open. *)
LEMMA StreamStep ==
  ASSUME NEW c, ClientInv(c), NEW s \in StreamType,
         IsOpen(s) <=> IsOpen(c.stream), IsStarted(s) <=> IsStarted(c.stream),
         s.idle => c.stream.idle,
         s.backoff => s.state = "Backoff",
         \A n \in s.creds : n <= s.closes /\ (n = s.closes => s.state = "Starting")
  PROVE  ClientInv([c EXCEPT !.stream = s])
<1> DEFINE d == [c EXCEPT !.stream = s]
<1>1. c \in ClientType /\ c.failed = {} /\ QueueInv(c) /\ StreamInv(c) /\ PipeInv(c)
      /\ WireInv(c) /\ (c.handshake => IsOpen(c.stream))
  BY DEF ClientInv, Base
<1> USE <1>1
<1>2. /\ d \in ClientType /\ d.stream = s
      /\ d.user = c.user /\ d.queue = c.queue /\ d.nextId = c.nextId
      /\ d.net = c.net /\ d.pipe = c.pipe /\ d.handshake = c.handshake
      /\ d.toServer = c.toServer /\ d.fromServer = c.fromServer /\ d.fin = c.fin
      /\ d.failed = c.failed /\ d.app = c.app
  BY StreamUpdate, ZenonT(30)
<1> HIDE DEF d
<1> USE <1>2
<1>3. QueueInv(d)
  BY QueueInvFrame, Zenon
<1>4. StreamInv(d)
  BY Zenon DEF StreamInv
<1>5. PipeInv(d)
  BY Zenon DEF PipeInv
<1>6. WireInv(d)
  BY DEF WireInv
<1> QED  BY <1>3, <1>4, <1>5, <1>6, Zenon DEF ClientInv, Base, d

LEMMA BackoffTimerKeepsInv ==
  ASSUME NEW c, ClientInv(c), c.stream.backoff
  PROVE  ClientInv([Check(c, "backoff elapsed in Backoff", c.stream.state = "Backoff")
                    EXCEPT !.stream = BackoffElapsed(@)])
<1> DEFINE t == [c.stream EXCEPT !.state = "Initial", !.backoff = FALSE]
           s == Start(t)
<1>1. c.stream \in StreamType /\ c.stream.state = "Backoff" /\ StreamInv(c)
  BY FieldTypes DEF ClientInv, Base, StreamInv
<1> USE <1>1
<1>2. /\ t \in StreamType /\ t.state = "Initial" /\ t.backoff = FALSE
      /\ t.closes = c.stream.closes /\ t.creds = c.stream.creds /\ t.idle = c.stream.idle
  BY Zenon DEF StreamType, StreamState
<1>3. [Check(c, "backoff elapsed in Backoff", c.stream.state = "Backoff")
       EXCEPT !.stream = BackoffElapsed(@)] = [c EXCEPT !.stream = s]
  BY DEF Check, BackoffElapsed
<1> HIDE DEF t
<1> USE <1>2
<1>4. /\ s \in StreamType /\ s.closes = t.closes /\ s.idle = t.idle
      /\ s.state = "Starting" /\ s.backoff = t.backoff /\ s.creds = t.creds \cup {t.closes}
  BY StartFields, Zenon
<1> HIDE DEF s
<1> USE <1>4
<1>5. (IsOpen(s) <=> IsOpen(c.stream)) /\ (IsStarted(s) <=> IsStarted(c.stream))
  BY DEF IsOpen, IsStarted
<1>6. \A n \in s.creds : n <= s.closes /\ (n = s.closes => s.state = "Starting")
  <2>1. \A n \in c.stream.creds : n <= c.stream.closes
    BY DEF StreamInv
  <2>2. c.stream.closes <= c.stream.closes
    BY StreamFields
  <2> QED  BY <2>1, <2>2
<1>7. ClientInv([c EXCEPT !.stream = s])
  BY <1>5, <1>6, StreamStep
<1> QED  BY <1>3, <1>7, Zenon

LEMMA HealthTimerKeepsInv ==
  ASSUME NEW c, ClientInv(c)
  PROVE  ClientInv([c EXCEPT !.stream = HealthCheck(@)])
<1> DEFINE st == IF IsOpen(c.stream) THEN "Healthy" ELSE c.stream.state
           s == [c.stream EXCEPT !.health = FALSE, !.state = st]
<1>1. c.stream \in StreamType /\ StreamInv(c)
  BY FieldTypes DEF ClientInv, Base
<1> USE <1>1
<1>2. st \in StreamState
  BY StreamFields DEF StreamState
<1>3. HealthCheck(c.stream) = s
  BY SMT DEF HealthCheck, StreamType
<1>4. (st \in {"Open", "Healthy"} <=> IsOpen(c.stream))
      /\ (~IsOpen(c.stream) => st = c.stream.state)
  BY DEF IsOpen
<1> HIDE DEF st
<1>5. /\ s \in StreamType /\ s.state = st /\ s.closes = c.stream.closes
      /\ s.creds = c.stream.creds /\ s.idle = c.stream.idle /\ s.backoff = c.stream.backoff
  BY <1>2, Zenon DEF StreamType
<1> HIDE DEF s
<1> USE <1>4, <1>5
<1>6. (IsOpen(s) <=> IsOpen(c.stream)) /\ (IsStarted(s) <=> IsStarted(c.stream))
  BY DEF IsOpen, IsStarted
<1>7. IsOpen(c.stream) => c.stream.state # "Backoff" /\ c.stream.state # "Starting"
  BY DEF IsOpen
<1>8. s.backoff => s.state = "Backoff"
  BY <1>7 DEF StreamInv
<1>9. \A n \in s.creds : n <= s.closes /\ (n = s.closes => s.state = "Starting")
  BY <1>7 DEF StreamInv
<1>10. ClientInv([c EXCEPT !.stream = s])
  BY <1>6, <1>8, <1>9, StreamStep
<1> QED  BY <1>3, <1>10

LEMMA IdleTimerKeepsInv ==
  ASSUME NEW c, ClientInv(c), c.stream.idle
  PROVE  ClientInv(Stop([c EXCEPT !.stream.idle = FALSE]))
<1> DEFINE s == CancelIdleCheck(c.stream)
           d == [c EXCEPT !.stream = s]
           e == Stop(d)
<1>1. c \in ClientType /\ c.stream \in StreamType /\ StreamInv(c) /\ c.pipe = <<>>
  BY FieldTypes DEF ClientInv, Base, PipeInv
<1>2. [c EXCEPT !.stream.idle = FALSE] = d
  BY DEF CancelIdleCheck
<1> USE <1>1
<1>3. /\ s \in StreamType /\ s.idle = FALSE /\ s.state = c.stream.state
      /\ s.closes = c.stream.closes /\ s.creds = c.stream.creds
      /\ s.backoff = c.stream.backoff
  BY CancelIdleFields, Zenon
<1> HIDE DEF s
<1> USE <1>3
<1>4. (IsOpen(s) <=> IsOpen(c.stream)) /\ (IsStarted(s) <=> IsStarted(c.stream))
  BY DEF IsOpen, IsStarted
<1>5. s.backoff => s.state = "Backoff"
  BY DEF StreamInv
<1>6. \A n \in s.creds : n <= s.closes /\ (n = s.closes => s.state = "Starting")
  BY DEF StreamInv
<1>7. ClientInv(d)
  BY <1>4, <1>5, <1>6, StreamStep
<1>8. d.pipe = <<>>
  BY StreamUpdate
<1> HIDE DEF d
<1> USE <1>7
<1>9. /\ e \in ClientType /\ StreamInv(e)
      /\ ~IsStarted(e.stream) /\ ~IsOpen(e.stream) /\ ~e.stream.idle
      /\ e.user = d.user /\ e.queue = d.queue /\ e.nextId = d.nextId
      /\ e.net = d.net /\ e.pipe = d.pipe /\ e.handshake = FALSE
      /\ e.failed = d.failed /\ e.app = d.app
  BY <1>8, StopStops, ZenonT(30) DEF ClientInv, Base
<1> HIDE DEF e
<1> USE <1>9
<1>10. QueueInv(e) /\ WireInv(e)
  BY QueueInvFrame, ZenonT(30) DEF ClientInv, Base, WireInv
<1>11. PipeInv(e)
  BY <1>8, Zenon DEF ClientInv, Base, PipeInv
<1>12. ClientInv(e)
  BY <1>10, <1>11 DEF ClientInv, Base
<1> QED  BY <1>2, <1>12, Zenon DEF e

LEMMA CredentialsTaken ==
  ASSUME NEW c, ClientInv(c), NEW n
  PROVE  LET d == [c EXCEPT !.stream.creds = @ \ {n}]
         IN  /\ ClientInv(d) /\ d.stream.state = c.stream.state
             /\ d.stream.closes = c.stream.closes /\ n \notin d.stream.creds
<1> DEFINE m == c.stream.creds \ {n}
           s == [c.stream EXCEPT !.creds = m]
           d == [c EXCEPT !.stream = s]
<1>1. c \in ClientType /\ c.stream \in StreamType /\ StreamInv(c)
  BY FieldTypes DEF ClientInv, Base
<1> USE <1>1
<1>2. m \in SUBSET Nat
  BY StreamFields
<1>3. [c EXCEPT !.stream.creds = @ \ {n}] = d
  OBVIOUS
<1>4. n \notin m /\ \A k \in m : k \in c.stream.creds
  OBVIOUS
<1> HIDE DEF m
<1>5. /\ s \in StreamType /\ s.state = c.stream.state /\ s.closes = c.stream.closes
      /\ s.creds = m /\ s.idle = c.stream.idle /\ s.backoff = c.stream.backoff
  BY <1>2 DEF StreamType
<1> HIDE DEF s
<1> USE <1>5
<1>6. (IsOpen(s) <=> IsOpen(c.stream)) /\ (IsStarted(s) <=> IsStarted(c.stream))
  BY DEF IsOpen, IsStarted
<1>7. s.backoff => s.state = "Backoff"
  BY DEF StreamInv
<1>8. \A k \in s.creds : k <= s.closes /\ (k = s.closes => s.state = "Starting")
  BY <1>4 DEF StreamInv
<1>9. ClientInv(d)
  BY <1>6, <1>7, <1>8, StreamStep
<1>10. d.stream = s
  BY StreamUpdate
<1> HIDE DEF d
<1> QED  BY <1>3, <1>4, <1>9, <1>10, Zenon

LEMMA OpenFields ==
  ASSUME NEW s \in StreamType
  PROVE  LET r == CancelIdleCheck(OnStreamStart(s))
         IN  /\ r \in StreamType /\ r.state = "Open" /\ r.closes = s.closes
             /\ r.creds = s.creds /\ r.idle = FALSE /\ r.backoff = s.backoff
<1> DEFINE t == [s EXCEPT !.state = "Open", !.health = TRUE]
<1>1. /\ t \in StreamType /\ t.state = "Open" /\ t.closes = s.closes
      /\ t.creds = s.creds /\ t.backoff = s.backoff
  BY Zenon DEF StreamType, StreamState
<1>2. OnStreamStart(s) = t
  BY DEF OnStreamStart
<1> HIDE DEF t
<1> QED  BY <1>1, <1>2, CancelIdleFields, Zenon

(* The gRPC stream starts: the handshake is the only message on the wire. *)
LEMMA OpeningGivesInv ==
  ASSUME NEW c, ClientInv(c), c.stream.state = "Starting",
         c.stream.closes \notin c.stream.creds
  PROVE  ClientInv(WriteHandshake([c EXCEPT !.stream = OnStreamStart(@)]))
<1> DEFINE o == OnStreamStart(c.stream)
           s == CancelIdleCheck(o)
           x == [c EXCEPT !.stream = o]
           t == Append(c.toServer, Handshake)
           d == [x EXCEPT !.stream = s, !.toServer = t]
<1>1. /\ c \in ClientType /\ c.stream \in StreamType /\ c.failed = {} /\ QueueInv(c)
      /\ StreamInv(c) /\ PipeInv(c)
  BY FieldTypes DEF ClientInv, Base
<1>2. ~IsOpen(c.stream) /\ IsStarted(c.stream)
  BY Zenon DEF IsOpen, IsStarted
<1>3. /\ c.handshake = FALSE /\ c.pipe # <<>> /\ c.net
      /\ c.toServer = <<>> /\ c.fromServer = <<>> /\ c.fin = "none"
  BY <1>1, <1>2, FieldTypes DEF ClientInv, Base, PipeInv, StreamInv
<1>4. o \in StreamType /\ o.state = "Open"
  BY <1>1, Zenon DEF OnStreamStart, StreamType, StreamState
<1>5. /\ s \in StreamType /\ s.state = "Open" /\ s.closes = c.stream.closes
      /\ s.creds = c.stream.creds /\ s.idle = FALSE /\ s.backoff = c.stream.backoff
  BY <1>1, OpenFields, Zenon
<1>6. t \in Seq(Nat) /\ Len(t) = 1 /\ t[1] = Handshake
  BY <1>3 DEF Handshake
<1>7. /\ x \in ClientType /\ x.stream = o
      /\ x.user = c.user /\ x.queue = c.queue /\ x.nextId = c.nextId
      /\ x.net = c.net /\ x.pipe = c.pipe /\ x.handshake = c.handshake
      /\ x.toServer = c.toServer /\ x.fromServer = c.fromServer /\ x.fin = c.fin
      /\ x.failed = c.failed /\ x.app = c.app
  <2> HIDE DEF o
  <2> QED  BY <1>1, <1>4, StreamUpdate
<1> HIDE DEF x
<1>16. WriteHandshake(x) = d
  <2>1. IsOpen(x.stream) /\ ~x.handshake
    BY <1>3, <1>4, <1>7 DEF IsOpen
  <2>2. Check(x, "stream ready for handshake", IsOpen(x.stream) /\ ~x.handshake) = x
    BY <2>1 DEF Check
  <2>3. CancelIdleCheck(x.stream) = s /\ Append(x.toServer, Handshake) = t
    BY <1>7, Zenon
  <2> HIDE DEF s, t
  <2> QED  BY <2>2, <2>3, Zenon DEF WriteHandshake
<1> HIDE DEF s, t
<1>8. d \in ClientType
  BY <1>7, <1>5, <1>6, Zenon DEF ClientType
<1>17. /\ d.stream = s /\ d.toServer = t
      /\ d.user = x.user /\ d.queue = x.queue /\ d.nextId = x.nextId
      /\ d.net = x.net /\ d.pipe = x.pipe /\ d.handshake = x.handshake
      /\ d.fromServer = x.fromServer /\ d.fin = x.fin
      /\ d.failed = x.failed /\ d.app = x.app
  <2>1. x \in ClientType
    BY <1>7
  <2> QED  BY <2>1, SMT DEF ClientType
<1> HIDE DEF d
<1>9. /\ d.stream = s /\ d.toServer = t
      /\ d.user = c.user /\ d.queue = c.queue /\ d.nextId = c.nextId
      /\ d.net = c.net /\ d.pipe = c.pipe /\ d.handshake = FALSE
      /\ d.fromServer = <<>> /\ d.fin = "none"
      /\ d.failed = c.failed /\ d.app = c.app
  BY <1>3, <1>7, <1>17, Zenon
<1>10. IsOpen(d.stream)
  BY <1>5, <1>9 DEF IsOpen
<1>11. QueueInv(d)
  BY <1>1, <1>9, QueueInvFrame, Zenon
<1>12. StreamInv(d)
  BY <1>1, <1>5, <1>9, <1>10, Zenon DEF StreamInv
<1>13. PipeInv(d)
  BY <1>1, <1>3, <1>5, <1>9 DEF PipeInv
<1>14. WireInv(d)
  <2>1. WireBefore(<<>>, t, "none")
    BY <1>6 DEF WireBefore
  <2>2. WireBefore(d.fromServer, d.toServer, d.fin)
    BY <1>9, <2>1, Zenon
  <2> QED  BY <1>9, <1>10, <2>2 DEF WireInv
<1>15. ClientInv(d)
  BY <1>1, <1>8, <1>9, <1>10, <1>11, <1>12, <1>13, <1>14, Zenon DEF ClientInv, Base
<1> QED  BY <1>16, <1>15 DEF x, o
-----------------------------------------------------------------------------
(* The backend and the network. *)

(* A step that changes only what is on the wire of an open stream. *)
LEMMA WireStep ==
  ASSUME NEW c, ClientInv(c), NEW d \in ClientType, IsOpen(c.stream),
         d.user = c.user, d.queue = c.queue, d.nextId = c.nextId, d.net = c.net,
         d.pipe = c.pipe, d.stream = c.stream, d.handshake = c.handshake,
         d.failed = c.failed, d.app = c.app,
         WireInv(d)
  PROVE  ClientInv(d)
<1>1. c.failed = {} /\ QueueInv(c) /\ StreamInv(c) /\ PipeInv(c)
  BY DEF ClientInv, Base
<1> USE <1>1
<1>2. QueueInv(d)
  BY QueueInvFrame
<1>3. StreamInv(d)
  BY DEF StreamInv
<1>4. PipeInv(d)
  BY DEF PipeInv
<1> QED  BY <1>2, <1>3, <1>4 DEF ClientInv, Base

(* Messages on the wire: the stream that carries them is open. *)
LEMMA WireIsOpen ==
  ASSUME NEW c, ClientInv(c),
         c.toServer # <<>> \/ c.fromServer # <<>> \/ c.fin # "none"
  PROVE  IsOpen(c.stream) /\ IsStarted(c.stream) /\ WireInv(c) /\ c \in ClientType
  BY DEF ClientInv, Base, StreamInv, IsStarted

(* The backend answers the first request. *)
LEMMA AnswerMoves ==
  ASSUME NEW from \in Seq(Nat), NEW to \in Seq(Nat), to # <<>>
  PROVE  LET f == Append(from, Head(to))
             t == Tail(to)
         IN  /\ f \in Seq(Nat) /\ t \in Seq(Nat)
             /\ Len(f) = Len(from) + 1 /\ Len(t) = Len(to) - 1
             /\ \A i \in 1 .. Len(from) : f[i] = from[i]
             /\ f[Len(from) + 1] = to[1]
             /\ \A i \in 1 .. Len(t) : t[i] = to[i + 1]
             /\ Len(from) \in Nat /\ Len(to) \in Nat /\ Len(to) > 0
<1>1. Head(to) \in Nat /\ Tail(to) \in Seq(Nat) /\ Len(Tail(to)) = Len(to) - 1
      /\ Head(to) = to[1]
  BY HeadTailProperties
<1>2. Len(to) \in Nat /\ Len(to) > 0 /\ Len(from) \in Nat
  BY LenProperties, EmptySeq
<1> USE <1>1
<1>3. \A i \in 1 .. Len(Tail(to)) : Tail(to)[i] = to[i + 1]
  BY <1>2
<1>4. /\ Append(from, Head(to)) \in Seq(Nat)
      /\ Len(Append(from, Head(to))) = Len(from) + 1
      /\ \A i \in 1 .. Len(from) : Append(from, Head(to))[i] = from[i]
      /\ Append(from, Head(to))[Len(from) + 1] = Head(to)
  BY AppendProperties
<1> QED  BY <1>2, <1>3, <1>4

LEMMA AnswerBefore ==
  ASSUME NEW from \in Seq(Nat), NEW to \in Seq(Nat), to # <<>>,
         NEW fin, fin # "unavailable", WireBefore(from, to, fin)
  PROVE  WireBefore(Append(from, Head(to)), Tail(to), fin)
<1> DEFINE f == Append(from, Head(to))
           t == Tail(to)
           m == Len(from)
           n == Len(to)
<1>1. /\ Len(f) = m + 1 /\ Len(t) = n - 1 /\ f[m + 1] = to[1]
      /\ \A i \in 1 .. m : f[i] = from[i]
      /\ m \in Nat /\ n \in Nat /\ n > 0
  BY AnswerMoves
<1>2. m + n = 1 /\ \A i \in 1 .. n : to[i] = Handshake
  BY DEF WireBefore
<1> HIDE DEF f, t, m, n
<1>3. m = 0 /\ n = 1
  BY <1>1, <1>2
<1>4. Len(f) = 1 /\ Len(t) = 0 /\ f[1] = Handshake
  BY <1>1, <1>2, <1>3
<1>5. WireBefore(f, t, fin)
  BY <1>4 DEF WireBefore
<1> QED  BY <1>5 DEF f, t

LEMMA AnswerAfter ==
  ASSUME NEW pipe, NEW from \in Seq(Nat), NEW to \in Seq(Nat), to # <<>>,
         Answers(pipe, from), Requests(pipe, from, to)
  PROVE  /\ Answers(pipe, Append(from, Head(to)))
         /\ Requests(pipe, Append(from, Head(to)), Tail(to))
<1> DEFINE f == Append(from, Head(to))
           t == Tail(to)
           m == Len(from)
           n == Len(to)
           k == Len(pipe)
<1>1. /\ Len(f) = m + 1 /\ Len(t) = n - 1 /\ f[m + 1] = to[1]
      /\ \A i \in 1 .. m : f[i] = from[i]
      /\ \A i \in 1 .. Len(t) : t[i] = to[i + 1]
      /\ m \in Nat /\ n \in Nat /\ n > 0
  BY AnswerMoves
<1>2. /\ m <= k /\ m + n = k
      /\ \A i \in 1 .. m : from[i] = pipe[i].w
      /\ \A i \in 1 .. n : to[i] = pipe[m + i].w
  BY DEF Answers, Requests
<1> HIDE DEF f, t, m, n, k
<1> USE <1>1, <1>2
<1>3. \A i \in 1 .. Len(f) : f[i] = pipe[i].w
  <2> SUFFICES ASSUME NEW i \in 1 .. Len(f) PROVE f[i] = pipe[i].w
    BY Zenon
  <2>1. CASE i = m + 1
    BY <2>1
  <2>2. CASE i # m + 1
    <3>1. i \in 1 .. m
      BY <2>2
    <3> QED  BY <3>1
  <2> QED  BY <2>1, <2>2
<1>4. \A i \in 1 .. Len(t) : t[i] = pipe[Len(f) + i].w
  <2> SUFFICES ASSUME NEW i \in 1 .. Len(t) PROVE t[i] = pipe[Len(f) + i].w
    OBVIOUS
  <2>1. i + 1 \in 1 .. n /\ m + (i + 1) = (m + 1) + i
    OBVIOUS
  <2> QED  BY <2>1
<1>5. Len(f) <= k /\ Len(f) + Len(t) = k
  OBVIOUS
<1>6. Answers(pipe, f) /\ Requests(pipe, f, t)
  BY <1>3, <1>4, <1>5, Zenon DEF Answers, Requests, k
<1> QED  BY <1>6 DEF f, t

LEMMA ServerAnswerKeepsInv ==
  ASSUME NEW c, ClientInv(c), c.fin = "none", c.toServer # <<>>
  PROVE  ClientInv([c EXCEPT !.toServer = Tail(@), !.fromServer = Append(@, Head(c.toServer))])
<1> DEFINE t == Tail(c.toServer)
           f == Append(c.fromServer, Head(c.toServer))
           d == [c EXCEPT !.toServer = t, !.fromServer = f]
<1>1. c \in ClientType /\ IsOpen(c.stream) /\ WireInv(c)
  BY WireIsOpen
<1> USE <1>1
<1>2. c.toServer \in Seq(Nat) /\ c.fromServer \in Seq(Nat)
  BY FieldTypes
<1> USE <1>2
<1>3. t \in Seq(Nat) /\ f \in Seq(Nat)
  BY AnswerMoves
<1>4. IF c.handshake THEN Answers(c.pipe, f) /\ Requests(c.pipe, f, t)
      ELSE WireBefore(f, t, c.fin)
  <2>1. CASE c.handshake
    BY <2>1, AnswerAfter DEF WireInv
  <2>2. CASE ~c.handshake
    BY <2>2, AnswerBefore DEF WireInv
  <2> QED  BY <2>1, <2>2
<1>5. [c EXCEPT !.toServer = Tail(@), !.fromServer = Append(@, Head(c.toServer))] = d
  <2> DEFINE y == [c EXCEPT !.toServer = t]
  <2>1. y.fromServer = c.fromServer
    BY SMT DEF ClientType
  <2> QED  BY <2>1, Zenon
<1> HIDE DEF t, f
<1>6. d \in ClientType
  BY <1>3, Zenon DEF ClientType
<1>7. /\ d.toServer = t /\ d.fromServer = f /\ d.fin = c.fin
      /\ d.user = c.user /\ d.queue = c.queue /\ d.nextId = c.nextId
      /\ d.net = c.net /\ d.pipe = c.pipe /\ d.stream = c.stream
      /\ d.handshake = c.handshake /\ d.failed = c.failed /\ d.app = c.app
  <2>1. c \in ClientType
    OBVIOUS
  <2> QED  BY <2>1, SMT DEF ClientType
<1> HIDE DEF d
<1>8. WireInv(d)
  BY <1>4, <1>7 DEF WireInv
<1>9. ClientInv(d)
  BY <1>6, <1>7, <1>8, WireStep
<1> QED  BY <1>5, <1>9

LEMMA ServerRefuseKeepsInv ==
  ASSUME NEW c, ClientInv(c), c.fin = "none", c.toServer # <<>>,
         NEW e \in {"aborted", "denied"}
  PROVE  ClientInv([c EXCEPT !.fin = e])
<1> DEFINE d == [c EXCEPT !.fin = e]
<1>1. c \in ClientType /\ IsOpen(c.stream) /\ WireInv(c)
  BY WireIsOpen
<1>2. e \in Error \cup {"none"} /\ e # "unavailable"
  BY DEF Error
<1> USE <1>1
<1>3. d \in ClientType
  BY <1>2, Zenon DEF ClientType
<1>4. /\ d.toServer = c.toServer /\ d.fromServer = c.fromServer /\ d.fin = e
      /\ d.user = c.user /\ d.queue = c.queue /\ d.nextId = c.nextId
      /\ d.net = c.net /\ d.pipe = c.pipe /\ d.stream = c.stream
      /\ d.handshake = c.handshake /\ d.failed = c.failed /\ d.app = c.app
  <2>1. c \in ClientType
    OBVIOUS
  <2> QED  BY <2>1, SMT DEF ClientType
<1> HIDE DEF d
<1>5. WireInv(d)
  BY <1>2, <1>4, Zenon DEF WireInv, WireBefore
<1>6. ClientInv(d)
  BY <1>3, <1>4, <1>5, WireStep
<1> QED  BY <1>6 DEF d

LEMMA ConnectionLostKeepsInv ==
  ASSUME NEW c, ClientInv(c), IsOpen(c.stream), NEW k \in 0 .. Len(c.fromServer)
  PROVE  ClientInv([c EXCEPT !.fin = "unavailable", !.fromServer = SubSeq(@, 1, k)])
<1> DEFINE g == c.fromServer
           f == SubSeq(c.fromServer, 1, k)
           d == [c EXCEPT !.fin = "unavailable", !.fromServer = f]
<1>1. c \in ClientType /\ WireInv(c) /\ g \in Seq(Nat) /\ Len(g) \in Nat
      /\ k \in 0 .. Len(g)
  BY FieldTypes, LenProperties DEF ClientInv, Base
<1> USE <1>1
<1>2. f \in Seq(Nat) /\ Len(f) = k /\ Len(f) <= Len(g)
      /\ \A i \in 1 .. Len(f) : i \in 1 .. Len(g) /\ f[i] = g[i]
  <2> HIDE DEF g
  <2>1. \A i \in 1 .. k : i \in 1 .. Len(g)
    OBVIOUS
  <2>2. SubSeq(g, 1, k) \in Seq(Nat) /\ Len(SubSeq(g, 1, k)) = k
        /\ \A i \in 1 .. k : SubSeq(g, 1, k)[i] = g[i]
    BY <2>1
  <2> QED  BY <2>1, <2>2 DEF g
<1>3. [c EXCEPT !.fin = "unavailable", !.fromServer = SubSeq(@, 1, k)] = d
  <2> DEFINE y == [c EXCEPT !.fin = "unavailable"]
  <2>1. y.fromServer = c.fromServer
    BY SMT DEF ClientType
  <2> QED  BY <2>1, Zenon
<1>4. "unavailable" \in Error \cup {"none"}
  BY DEF Error
<1> USE <1>2
<1>5. IF c.handshake THEN Answers(c.pipe, f) ELSE WireBefore(f, c.toServer, "unavailable")
  <2>1. Len(c.pipe) \in Nat
    BY FieldTypes, LenProperties
  <2> HIDE DEF f
  <2>2. CASE c.handshake
    <3>1. Len(g) <= Len(c.pipe) /\ \A i \in 1 .. Len(g) : g[i] = c.pipe[i].w
      BY <2>2 DEF WireInv, Answers
    <3> DEFINE n == Len(c.pipe)
               h == Len(f)
    <3>2. n \in Nat /\ h = k /\ Len(g) <= n /\ h <= Len(g)
      BY <2>1, <3>1
    <3> HIDE DEF g, n, h
    <3>3. h <= n
      BY <3>2
    <3>4. \A i \in 1 .. Len(f) : f[i] = c.pipe[i].w
      BY <3>1, Zenon
    <3> QED  BY <2>2, <3>3, <3>4 DEF Answers, h, n
  <2>3. CASE ~c.handshake
    <3>1. Len(g) <= 1 /\ \A i \in 1 .. Len(g) : g[i] = Handshake
      BY <2>3 DEF WireInv, WireBefore
    <3> HIDE DEF g
    <3> QED  BY <2>3, <3>1 DEF WireBefore
  <2> QED  BY <2>2, <2>3
<1> HIDE DEF f, g
<1>6. d \in ClientType
  BY <1>4, Zenon DEF ClientType
<1>7. /\ d.toServer = c.toServer /\ d.fromServer = f /\ d.fin = "unavailable"
      /\ d.user = c.user /\ d.queue = c.queue /\ d.nextId = c.nextId
      /\ d.net = c.net /\ d.pipe = c.pipe /\ d.stream = c.stream
      /\ d.handshake = c.handshake /\ d.failed = c.failed /\ d.app = c.app
  <2>1. c \in ClientType
    OBVIOUS
  <2> QED  BY <2>1, SMT DEF ClientType
<1> HIDE DEF d
<1>8. WireInv(d)
  BY <1>5, <1>7 DEF WireInv
<1>9. ClientInv(d)
  BY <1>6, <1>7, <1>8, WireStep
<1> QED  BY <1>3, <1>9

(* Only the record of requests of closed connections changes. *)
LEMMA AbandonedKeepsInv ==
  ASSUME NEW c, ClientInv(c), NEW a \in Seq(Seq(Nat))
  PROVE  ClientInv([c EXCEPT !.abandoned = a])
<1> DEFINE d == [c EXCEPT !.abandoned = a]
<1>1. c \in ClientType /\ (c.handshake => IsOpen(c.stream)) /\ Base(c)
  BY DEF ClientInv, Base
<1> USE <1>1
<1>2. d \in ClientType
  BY Zenon DEF ClientType
<1>3. OnlyApp(d, c)
  <2>1. c \in ClientType
    OBVIOUS
  <2>2. /\ d.toServer = c.toServer /\ d.fromServer = c.fromServer /\ d.fin = c.fin
        /\ d.user = c.user /\ d.queue = c.queue /\ d.nextId = c.nextId
        /\ d.net = c.net /\ d.pipe = c.pipe /\ d.stream = c.stream
        /\ d.handshake = c.handshake /\ d.failed = c.failed /\ d.app = c.app
    BY <2>1, SMT DEF ClientType
  <2> HIDE DEF d
  <2> QED  BY <1>2, <2>2 DEF OnlyApp, SameLink
<1> HIDE DEF d
<1>4. ClientInv(d)
  BY <1>3, OnlyAppBase DEF ClientInv
<1> QED  BY <1>4 DEF d

(* Only the token of the stream changes. *)
LEMMA TokenKeepsInv ==
  ASSUME NEW c, ClientInv(c), NEW tok \in Nat
  PROVE  ClientInv([c EXCEPT !.token = tok]) /\ [c EXCEPT !.token = tok].stream = c.stream
<1> DEFINE d == [c EXCEPT !.token = tok]
<1>1. c \in ClientType /\ (c.handshake => IsOpen(c.stream)) /\ Base(c)
  BY DEF ClientInv, Base
<1>2. d \in ClientType
  BY <1>1, Zenon DEF ClientType
<1>3. /\ d.toServer = c.toServer /\ d.fromServer = c.fromServer /\ d.fin = c.fin
      /\ d.user = c.user /\ d.queue = c.queue /\ d.nextId = c.nextId
      /\ d.net = c.net /\ d.pipe = c.pipe /\ d.stream = c.stream
      /\ d.handshake = c.handshake /\ d.failed = c.failed /\ d.app = c.app
  <2>1. c \in ClientType
    BY <1>1
  <2> QED  BY <2>1, SMT DEF ClientType
<1> HIDE DEF d
<1>4. OnlyApp(d, c)
  BY <1>2, <1>3 DEF OnlyApp, SameLink
<1>5. ClientInv(d)
  BY <1>1, <1>4, OnlyAppBase DEF ClientInv
<1> QED  BY <1>3, <1>5 DEF d

(* A new write. *)

(* The queue and the pipeline when batch b is appended to the queue. *)
LEMMA AppendOrdered ==
  ASSUME NEW q \in Seq(Batch), Ordered(q), NEW b \in Batch,
         \A i \in 1 .. Len(q) : q[i].id < b.id
  PROVE  Ordered(Append(q, b))
<1> DEFINE k == Len(q)
           a == Append(q, b)
<1>1. k \in Nat /\ Len(a) = k + 1 /\ a[k + 1] = b /\ \A i \in 1 .. k : a[i] = q[i]
  BY AppendProperties, LenProperties
<1> HIDE DEF a, k
<1> USE <1>1
<1>2. ASSUME NEW i \in 1 .. k + 1, NEW j \in 1 .. k + 1, i < j PROVE a[i].id < a[j].id
  <2>1. i \in 1 .. k
    BY <1>2
  <2>2. CASE j \in 1 .. k
    BY <1>2, <2>1, <2>2 DEF Ordered, k
  <2>3. CASE j = k + 1
    BY <2>1, <2>3 DEF k
  <2> QED  BY <2>2, <2>3
<1> QED  BY <1>2 DEF Ordered, a

LEMMA AppendPrefix ==
  ASSUME NEW p \in Seq(Batch), NEW q \in Seq(Batch), NEW b \in Batch, PipePrefix(p, q)
  PROVE  PipePrefix(p, Append(q, b))
<1> DEFINE k == Len(q)
           n == Len(p)
<1>1. k \in Nat /\ n \in Nat /\ Len(Append(q, b)) = k + 1
      /\ \A i \in 1 .. k : Append(q, b)[i] = q[i]
  BY AppendProperties, LenProperties
<1>2. n <= k /\ \A i \in 1 .. n : p[i] = q[i]
  BY DEF PipePrefix
<1> HIDE DEF k, n
<1> USE <1>1
<1>3. n <= k + 1 /\ \A i \in 1 .. n : i \in 1 .. k
  BY <1>2
<1>4. \A i \in 1 .. n : p[i] = Append(q, b)[i]
  BY <1>2, <1>3
<1> QED  BY <1>3, <1>4 DEF PipePrefix, n

LEMMA RegisterWriteFields ==
  ASSUME NEW c \in ClientType, NEW b \in Batch
  PROVE  LET d == RegisterWrite(c, b)
         IN  /\ d \in ClientType /\ SameLink(d, c)
             /\ d.queue = c.queue /\ d.nextId = c.nextId /\ d.failed = c.failed
             /\ Len(d.app.owner) = Len(c.app.owner) + 1
<1> DEFINE a == c.app
           taken == \E x \in a.callbacks[c.user] : x.id = b.id
           filed == IF taken THEN a.callbacks
                    ELSE [a.callbacks EXCEPT ![c.user] = @ \cup {b}]
           owner == Append(a.owner, c.user)
           outcome == Append(a.outcome, "pending")
           new == [a EXCEPT !.owner = owner, !.outcome = outcome, !.callbacks = filed]
<1>1. a \in AppType /\ c.user \in Users
  BY FieldTypes
<1> USE <1>1
<1>2. filed \in [Users -> SUBSET Batch]
  <2> HIDE DEF taken
  <2> QED  BY AppTypes
<1>3. owner \in Seq(Users) /\ Len(owner) = Len(a.owner) + 1
  BY AppTypes, AppendProperties
<1>4. outcome \in Seq(Outcome)
  <2>1. "pending" \in Outcome
    BY DEF Outcome
  <2> QED  BY <2>1, AppTypes, AppendProperties
<1>5. RegisterWrite(c, b) = [c EXCEPT !.app = new]
  BY Zenon DEF RegisterWrite
<1> HIDE DEF a, filed, owner, outcome
<1>6. new \in AppType
  BY <1>2, <1>3, <1>4, Zenon DEF AppType
<1>7. new.owner = owner
  BY SMT DEF AppType
<1> HIDE DEF new
<1>8. [c EXCEPT !.app = new].app = new
  BY <1>6, AppUpdate, Zenon
<1> QED  BY <1>3, <1>5, <1>6, <1>7, <1>8, AppUpdate DEF a

LEMMA AddBatchFields ==
  ASSUME NEW c \in ClientType, QueueInv(c), NEW w \in Nat \ {0}
  PROVE  LET b == [id |-> c.nextId[c.user], w |-> w]
             d == AddMutationBatch(c, w)
         IN  /\ b \in Batch /\ d \in ClientType /\ SameLink(d, c)
             /\ d.queue = [c.queue EXCEPT ![c.user] = Append(c.queue[c.user], b)]
             /\ d.nextId = [c.nextId EXCEPT ![c.user] = c.nextId[c.user] + 1]
             /\ d.failed = c.failed /\ d.app = c.app
<1> DEFINE q == c.queue[c.user]
           id == c.nextId[c.user]
           b == [id |-> id, w |-> w]
           Q == [c.queue EXCEPT ![c.user] = Append(q, b)]
           N == [c.nextId EXCEPT ![c.user] = id + 1]
           d == [c EXCEPT !.queue = Q, !.nextId = N]
<1>1. /\ c.user \in Users /\ c.queue \in [Users -> Seq(Batch)] /\ q \in Seq(Batch)
      /\ c.nextId \in [Users -> Nat] /\ id \in Nat /\ Len(c.app.owner) \in Nat
  BY FieldTypes, AppTypes, LenProperties
<1> USE <1>1
<1>2. id > 0 /\ \A i \in 1 .. Len(q) : q[i].id < id
  <2>1. id \in 1 .. Len(c.app.owner) + 1
    BY DEF QueueInv
  <2> QED  BY <2>1 DEF QueueInv
<1>3. b \in Batch
  BY <1>2 DEF Batch
<1>4. q = <<>> \/ Back(q).id < id
  <2>1. CASE q # <<>>
    <3>1. Len(q) \in Nat /\ Len(q) > 0
      BY <2>1, BatchSeqHead, BatchSeq
    <3> QED  BY <1>2, <3>1 DEF Back
  <2> QED  BY <2>1
<1>5. AddMutationBatch(c, w) = d
  <2> DEFINE x == [c EXCEPT !.queue = Q]
  <2>1. AddMutationBatch(c, w) = [x EXCEPT !.nextId = [x.nextId EXCEPT ![c.user] = @ + 1]]
    BY <1>4, Zenon DEF AddMutationBatch, Check
  <2>2. x.nextId = c.nextId
    BY SMT DEF ClientType
  <2> HIDE DEF x
  <2>3. [x.nextId EXCEPT ![c.user] = @ + 1] = N
    BY <2>2
  <2> QED  BY <2>1, <2>3, Zenon DEF x
<1>6. Q \in [Users -> Seq(Batch)]
  <2>1. Append(q, b) \in Seq(Batch)
    BY <1>3, AppendProperties
  <2> HIDE DEF q, b
  <2> QED  BY <2>1
<1>7. N \in [Users -> Nat]
  OBVIOUS
<1> HIDE DEF Q, N
<1>8. d \in ClientType
  BY <1>6, <1>7, Zenon DEF ClientType
<1>9. SameLink(d, c) /\ d.queue = Q /\ d.nextId = N /\ d.failed = c.failed /\ d.app = c.app
  BY SMT DEF ClientType, SameLink
<1> HIDE DEF d
<1> QED  BY <1>3, <1>5, <1>8, <1>9 DEF Q, N

LEMMA NewWriteGivesInv ==
  ASSUME NEW c, ClientInv(c), NEW w \in Nat \ {0}
  PROVE  LET a == AddMutationBatch(c, w)
         IN  ClientInv(FillWritePipeline(RegisterWrite(a, Back(a.queue[a.user]))))
<1> DEFINE q == c.queue[c.user]
           b == [id |-> c.nextId[c.user], w |-> w]
           Q == [c.queue EXCEPT ![c.user] = Append(q, b)]
           N == [c.nextId EXCEPT ![c.user] = c.nextId[c.user] + 1]
           L == Len(c.app.owner)
           a == AddMutationBatch(c, w)
           d == RegisterWrite(a, Back(a.queue[a.user]))
           f == FillWritePipeline(d)
<1>1. /\ c \in ClientType /\ c.user \in Users /\ c.queue \in [Users -> Seq(Batch)]
      /\ q \in Seq(Batch) /\ c.nextId \in [Users -> Nat] /\ c.pipe \in Seq(Batch)
      /\ L \in Nat /\ QueueInv(c) /\ StreamInv(c) /\ PipeInv(c) /\ WireInv(c)
      /\ c.failed = {}
  BY FieldTypes, AppTypes, LenProperties DEF ClientInv, Base
<1>2. /\ b \in Batch /\ a \in ClientType /\ SameLink(a, c) /\ a.queue = Q /\ a.nextId = N
      /\ a.failed = c.failed /\ a.app = c.app
  BY <1>1, AddBatchFields, Zenon
<1>3. Back(a.queue[a.user]) = b
  <2>1. a.queue[a.user] = Append(q, b)
    BY <1>1, <1>2, ZenonT(30) DEF SameLink
  <2>2. Len(Append(q, b)) = Len(q) + 1 /\ Append(q, b)[Len(q) + 1] = b
    BY <1>1, <1>2, AppendProperties
  <2> HIDE DEF a, b, q
  <2> QED  BY <2>1, <2>2, Zenon DEF Back
<1> HIDE DEF a
<1>4. /\ d \in ClientType /\ SameLink(d, a)
      /\ d.queue = a.queue /\ d.nextId = a.nextId /\ d.failed = a.failed
      /\ Len(d.app.owner) = L + 1
  <2>1. d = RegisterWrite(a, b)
    BY <1>3
  <2>2. a \in ClientType /\ b \in Batch
    BY <1>2
  <2>3. Len(a.app.owner) = L
    BY <1>2, Zenon
  <2> HIDE DEF d, b, L
  <2>4. /\ d \in ClientType /\ SameLink(d, a)
        /\ d.queue = a.queue /\ d.nextId = a.nextId /\ d.failed = a.failed
        /\ Len(d.app.owner) = Len(a.app.owner) + 1
    BY <2>1, <2>2, RegisterWriteFields, Zenon
  <2> QED  BY <2>3, <2>4, Zenon
<1> HIDE DEF d
<1>5. /\ d.user = c.user /\ d.net = c.net /\ d.pipe = c.pipe /\ d.stream = c.stream
      /\ d.handshake = c.handshake /\ d.toServer = c.toServer
      /\ d.fromServer = c.fromServer /\ d.fin = c.fin
  BY <1>2, <1>4, Zenon DEF SameLink
<1>6. /\ d.queue[c.user] = Append(q, b) /\ d.nextId[c.user] = c.nextId[c.user] + 1
      /\ \A u \in Users : u # c.user => d.queue[u] = c.queue[u] /\ d.nextId[u] = c.nextId[u]
  BY <1>1, <1>2, <1>4, ZenonT(30)
<1>7. /\ c.nextId[c.user] \in 1 .. L + 1 /\ Ordered(q) /\ b.id = c.nextId[c.user]
      /\ \A i \in 1 .. Len(q) : q[i].id <= L /\ q[i].id < b.id
  BY <1>1 DEF QueueInv
<1> HIDE DEF q, b, L
<1>8. QueueInv(d)
  <2> SUFFICES ASSUME NEW u \in Users
               PROVE /\ Ordered(d.queue[u])
                     /\ d.nextId[u] \in 1 .. (L + 1) + 1
                     /\ \A i \in 1 .. Len(d.queue[u]) :
                          /\ d.queue[u][i].id <= L + 1
                          /\ u = d.user \/ Persistence = "memory" => d.queue[u][i].id < d.nextId[u]
    BY <1>4 DEF QueueInv
  <2>1. CASE u = c.user
    <3> DEFINE s == Append(q, b)
               k == Len(q)
    <3>1. Ordered(s)
      BY <1>1, <1>2, <1>7, AppendOrdered, Zenon
    <3>2. k \in Nat /\ Len(s) = k + 1 /\ s[k + 1] = b /\ \A i \in 1 .. k : s[i] = q[i]
      BY <1>1, <1>2, AppendProperties, LenProperties
    <3>3. b.id \in Nat /\ \A i \in 1 .. k : q[i].id \in Nat
      BY <1>1, <1>2, BatchSeq, Zenon DEF Batch
    <3>4. \A i \in 1 .. k : q[i].id <= L /\ q[i].id < b.id
      BY <1>7
    <3> HIDE DEF s, k
    <3>5. ASSUME NEW i \in 1 .. k + 1 PROVE s[i].id <= L + 1 /\ s[i].id < b.id + 1
      <4>1. CASE i \in 1 .. k
        <5>1. s[i] = q[i] /\ q[i].id \in Nat /\ q[i].id <= L /\ q[i].id < b.id
          BY <3>2, <3>3, <3>4, <4>1, Zenon
        <5>2. L \in Nat /\ b.id \in Nat
          BY <1>1, <3>3
        <5>3. q[i].id <= L + 1 /\ q[i].id < b.id + 1
          BY <5>1, <5>2
        <5> QED  BY <5>1, <5>3, Zenon
      <4>2. CASE i = k + 1
        BY <1>1, <1>7, <3>2, <3>3, <4>2
      <4> QED  BY <3>2, <4>1, <4>2
    <3>6. d.queue[u] = s /\ d.nextId[u] = b.id + 1
      BY <1>6, <1>7, <2>1, Zenon DEF s
    <3>7. b.id + 1 \in 1 .. (L + 1) + 1
      BY <1>1, <1>7
    <3> QED  BY <3>1, <3>2, <3>5, <3>6, <3>7, Zenon
  <2>2. CASE u # c.user
    <3>1. d.queue[u] = c.queue[u] /\ d.nextId[u] = c.nextId[u]
      BY <1>6, <2>2, Zenon
    <3>2. /\ Ordered(c.queue[u]) /\ c.nextId[u] \in 1 .. L + 1
          /\ \A i \in 1 .. Len(c.queue[u]) :
               /\ c.queue[u][i].id <= L
               /\ Persistence = "memory" => c.queue[u][i].id < c.nextId[u]
      BY <1>1 DEF QueueInv, L
    <3>3. c.queue[u] \in Seq(Batch)
      BY <1>1, Zenon
    <3>4. \A i \in 1 .. Len(c.queue[u]) : c.queue[u][i].id <= L + 1
      BY <1>1, <3>2, <3>3, BatchSeq
    <3>5. c.nextId[u] \in 1 .. (L + 1) + 1
      BY <1>1, <3>2
    <3> QED  BY <1>5, <2>2, <3>1, <3>2, <3>4, <3>5, Zenon
  <2> QED  BY <2>1, <2>2
<1>9. PipeInv(d)
  <2>1. PipePrefix(c.pipe, Append(q, b))
    BY <1>1, <1>2, AppendPrefix, ZenonT(30) DEF PipeInv, q
  <2> QED  BY <1>1, <1>5, <1>6, <2>1, ZenonT(30) DEF PipeInv
<1>10. StreamInv(d)
  BY <1>1, <1>5, Zenon DEF StreamInv
<1>11. WireInv(d)
  BY <1>1, <1>5, Zenon DEF WireInv
<1>12. Base(d)
  BY <1>1, <1>2, <1>4, <1>8, <1>9, <1>10, <1>11, Zenon DEF Base
<1>13. Base(f) /\ f.handshake = d.handshake /\ (IsOpen(f.stream) <=> IsOpen(d.stream))
  BY <1>12, FillKeepsBase
<1> HIDE DEF f
<1>14. ClientInv(f)
  BY <1>5, <1>13 DEF ClientInv
<1> QED  BY <1>14, Zenon DEF f, d, a

(* Waiting for pending writes changes what the application sees only. *)
LEMMA WaitFrame ==
  ASSUME NEW c \in ClientType, QueueInv(c)
  PROVE  OnlyApp(RegisterPendingWritesCallback(c), c)
<1> DEFINE a == c.app
           q == c.queue[c.user]
           id == GetHighestUnacknowledgedBatchId(c)
           on == Range(Writes(q))
           fired == a.fired \cup {[on |-> on, ok |-> TRUE]}
           waiters == a.waiters \cup {[id |-> id, on |-> on]}
           now == [a EXCEPT !.fired = fired]
           later == [a EXCEPT !.waiters = waiters]
<1>1. a \in AppType /\ c.user \in Users /\ q \in Seq(Batch) /\ c.nextId \in [Users -> Nat]
      /\ Len(a.owner) \in Nat
  BY FieldTypes, AppTypes, LenProperties
<1> USE <1>1
<1>2. on \in SUBSET Nat
  <2>1. Writes(q) \in Seq(Nat)
    BY WritesAre
  <2>2. \A i \in DOMAIN Writes(q) : Writes(q)[i] \in Nat
    BY <2>1, LenProperties
  <2> QED  BY <2>2 DEF Range
<1>3. id # kBatchIdUnknown => id \in Nat
  <2>1. CASE q = <<>>
    BY <2>1, Zenon DEF GetHighestUnacknowledgedBatchId
  <2>2. CASE q # <<>> /\ Persistence = "leveldb"
    <3>1. Len(q) \in Nat /\ Len(q) > 0
      BY <2>2, BatchSeqHead, BatchSeq
    <3>2. q[Len(q)].id \in Nat
      BY <3>1, BatchSeq
    <3> QED  BY <2>2, <3>2 DEF GetHighestUnacknowledgedBatchId, Back
  <2>3. CASE q # <<>> /\ Persistence # "leveldb"
    <3>1. c.nextId[c.user] \in 1 .. Len(a.owner) + 1
      BY DEF QueueInv
    <3>2. id = c.nextId[c.user] - 1
      BY <2>3 DEF GetHighestUnacknowledgedBatchId
    <3> HIDE DEF id
    <3> QED  BY <3>1, <3>2
  <2> QED  BY <2>1, <2>2, <2>3
<1> HIDE DEF id, on, q
<1>4. fired \in SUBSET [on : SUBSET Nat, ok : BOOLEAN]
  <2>1. [on |-> on, ok |-> TRUE] \in [on : SUBSET Nat, ok : BOOLEAN]
    BY <1>2
  <2> QED  BY <2>1, AppTypes, Zenon
<1>5. RegisterPendingWritesCallback(c)
        = IF id = kBatchIdUnknown THEN [c EXCEPT !.app = now] ELSE [c EXCEPT !.app = later]
  BY DEF RegisterPendingWritesCallback, id, on, q
<1>6. CASE id = kBatchIdUnknown
  <2> HIDE DEF a, fired
  <2>1. now \in AppType /\ now.owner = a.owner
    BY <1>4, Zenon DEF AppType
  <2> HIDE DEF now
  <2> QED  BY <1>5, <1>6, <2>1, AppUpdate DEF a
<1>7. CASE id # kBatchIdUnknown
  <2>1. waiters \in SUBSET [id : Nat, on : SUBSET Nat]
    <3>1. [id |-> id, on |-> on] \in [id : Nat, on : SUBSET Nat]
      BY <1>2, <1>3, <1>7
    <3> QED  BY <3>1, AppTypes, Zenon
  <2> HIDE DEF a, waiters
  <2>2. later \in AppType /\ later.owner = a.owner
    BY <2>1, Zenon DEF AppType
  <2> HIDE DEF later
  <2> QED  BY <1>5, <1>7, <2>2, AppUpdate DEF a
<1> QED  BY <1>6, <1>7

=============================================================================
