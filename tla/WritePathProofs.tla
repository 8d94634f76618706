-------------------------- MODULE WritePathProofs ---------------------------
(***************************************************************************)
(* The inductive invariant is preserved by every action of the write path, *)
(* and the theorems that follow from it.  They hold for any set of users,  *)
(* any pipeline length, both kinds of persistence and any values of the    *)
(* bounds.                                                                 *)
(***************************************************************************)
EXTENDS WritePathPipeline, WellFoundedInduction

(* Starting a mutation queue and changing the user. *)

LEMMA MaxIs ==
  ASSUME NEW L \in Nat, NEW S, S \subseteq 0 .. L, S # {}
  PROVE  Max(S) \in S /\ \A y \in S : y <= Max(S)
<1> DEFINE T == {L - x : x \in S}
<1>1. T \subseteq Nat /\ T # {}
  <2>1. \A x \in S : x \in 0 .. L
    OBVIOUS
  <2>2. \A x \in S : L - x \in Nat
    BY <2>1
  <2>3. PICK x \in S : TRUE
    BY Zenon
  <2>4. L - x \in T
    BY <2>3
  <2> QED  BY <2>2, <2>4
<1>2. \E t \in T : \A u \in T : ~(<<u, t>> \in OpToRel(<, Nat))
  <2> HIDE DEF T
  <2> QED  BY <1>1, NatLessThanWellFounded, WFMin, Zenon
<1>3. PICK t \in T : \A u \in T : ~(u < t)
  <2> HIDE DEF T
  <2>1. PICK t \in T : \A u \in T : ~(<<u, t>> \in OpToRel(<, Nat))
    BY <1>2, Zenon
  <2>2. \A u \in T : <<u, t>> \in Nat \X Nat
    BY <1>1
  <2> QED  BY <2>1, <2>2, Zenon DEF OpToRel
<1>4. PICK x \in S : t = L - x
  OBVIOUS
<1>5. ASSUME NEW y \in S PROVE y <= x
  <2>1. L - y \in T
    OBVIOUS
  <2>2. ~(L - y < t)
    BY <1>3, <2>1
  <2>3. x \in Int /\ y \in Int
    OBVIOUS
  <2> QED  BY <1>4, <2>2, <2>3
<1>6. \A y \in S : x \in Int /\ y \in Int
  OBVIOUS
<1>7. \A y \in S : x >= y
  BY <1>5, <1>6
<1>8. Max(S) \in S /\ \A y \in S : Max(S) >= y
  BY <1>7, Zenon DEF Max
<1> HIDE DEF T
<1>9. Max(S) \in Int /\ \A y \in S : y \in Int
  <2>1. \A y \in S : y \in 0 .. L
    OBVIOUS
  <2>2. \A y \in S : y \in Int
    BY <2>1
  <2> QED  BY <1>8, <2>2, Zenon
<1> QED  BY <1>8, <1>9

LEMMA NextIdFromDb ==
  ASSUME NEW queue \in [Users -> Seq(Batch)], NEW L \in Nat,
         \A u \in Users : \A i \in 1 .. Len(queue[u]) : queue[u][i].id <= L
  PROVE  /\ LoadNextBatchIdFromDb(queue) \in 1 .. L + 1
         /\ \A u \in Users : \A i \in 1 .. Len(queue[u]) :
               queue[u][i].id < LoadNextBatchIdFromDb(queue)
<1> DEFINE B == BatchIds(queue)
           S == {0} \cup B
<1>1. \A u \in Users : \A i \in 1 .. Len(queue[u]) : queue[u][i].id \in B
  BY DEF BatchIds
<1>2. B \subseteq 0 .. L
  <2>1. ASSUME NEW x \in B PROVE x \in 0 .. L
    <3>1. PICK u \in Users : \E i \in 1 .. Len(queue[u]) : x = queue[u][i].id
      BY DEF BatchIds
    <3>2. PICK i \in 1 .. Len(queue[u]) : x = queue[u][i].id
      BY <3>1
    <3>3. queue[u][i].id \in Nat
      BY BatchSeq
    <3> QED  BY <3>2, <3>3
  <2> QED  BY <2>1
<1> HIDE DEF B
<1>3. S \subseteq 0 .. L /\ S # {}
  BY <1>2
<1>4. \A y \in B : y \in S
  OBVIOUS
<1>5. LoadNextBatchIdFromDb(queue) = 1 + Max(S)
  BY DEF LoadNextBatchIdFromDb, B
<1> HIDE DEF S
<1>6. Max(S) \in S /\ \A y \in S : y <= Max(S)
  BY <1>3, MaxIs, Zenon
<1>7. Max(S) \in 0 .. L
  BY <1>3, <1>6, Zenon
<1>8. \A u \in Users : \A i \in 1 .. Len(queue[u]) :
         queue[u][i].id \in Int /\ queue[u][i].id <= Max(S)
  <2> SUFFICES ASSUME NEW u \in Users, NEW i \in 1 .. Len(queue[u])
               PROVE  queue[u][i].id \in Int /\ queue[u][i].id <= Max(S)
    OBVIOUS
  <2>1. queue[u][i].id \in B
    BY <1>1
  <2>2. \A y \in B : y \in Int /\ y <= Max(S)
    BY <1>2, <1>4, <1>6
  <2> QED  BY <2>1, <2>2
<1> HIDE DEF S
<1> QED  BY <1>5, <1>7, <1>8

(* Every queue is ordered and its ids are those of writes issued. *)
QueuesOrdered(c) ==
    \A u \in Users :
        /\ Ordered(c.queue[u])
        /\ \A i \in 1 .. Len(c.queue[u]) : c.queue[u][i].id <= Len(c.app.owner)

LEMMA StartQueueGivesInv ==
  ASSUME NEW c \in ClientType, QueuesOrdered(c),
         \A u \in Users : c.nextId[u] \in 1 .. Len(c.app.owner) + 1,
         Persistence = "memory" =>
             \A u \in Users : \A i \in 1 .. Len(c.queue[u]) : c.queue[u][i].id < c.nextId[u]
  PROVE  LET d == StartMutationQueue(c)
         IN  /\ d \in ClientType /\ QueueInv(d) /\ SameLink(d, c)
             /\ d.queue = c.queue /\ d.failed = c.failed /\ d.app = c.app
<1> DEFINE n == IF Persistence = "leveldb" THEN LoadNextBatchIdFromDb(c.queue)
                ELSE IF c.queue[c.user] = <<>> THEN 1 ELSE c.nextId[c.user]
           ids == [c.nextId EXCEPT ![c.user] = n]
           d == [c EXCEPT !.nextId = ids]
           L == Len(c.app.owner)
<1>1. c.user \in Users /\ c.queue \in [Users -> Seq(Batch)] /\ c.nextId \in [Users -> Nat]
      /\ L \in Nat
  BY FieldTypes, AppTypes, LenProperties
<1>2. StartMutationQueue(c) = d
  BY Zenon DEF StartMutationQueue
<1> USE <1>1
<1>3. n \in 1 .. L + 1 /\ \A i \in 1 .. Len(c.queue[c.user]) : c.queue[c.user][i].id < n
  <2>1. CASE Persistence = "leveldb"
    <3>1. n = LoadNextBatchIdFromDb(c.queue)
      BY <2>1
    <3>2. \A u \in Users : \A i \in 1 .. Len(c.queue[u]) : c.queue[u][i].id <= L
      BY DEF QueuesOrdered
    <3> HIDE DEF n, L
    <3> QED  BY <3>1, <3>2, NextIdFromDb, Zenon
  <2>2. CASE Persistence # "leveldb" /\ c.queue[c.user] = <<>>
    <3>1. n = 1 /\ Len(c.queue[c.user]) = 0
      BY <2>2, EmptySeq
    <3> HIDE DEF n, L
    <3> QED  BY <3>1
  <2>3. CASE Persistence # "leveldb" /\ c.queue[c.user] # <<>>
    <3>1. n = c.nextId[c.user] /\ Persistence = "memory"
      BY <2>3, PersistenceAssumption
    <3> HIDE DEF n
    <3> QED  BY <3>1
  <2> QED  BY <2>1, <2>2, <2>3
<1> HIDE DEF n
<1>4. ids \in [Users -> Nat] /\ ids[c.user] = n
      /\ \A u \in Users : u # c.user => ids[u] = c.nextId[u]
  BY <1>3
<1> HIDE DEF ids
<1> USE <1>4
<1>5. d \in ClientType
  BY Zenon DEF ClientType
<1>6. SameLink(d, c) /\ d.nextId = ids /\ d.queue = c.queue /\ d.failed = c.failed
      /\ d.app = c.app
  BY SMT DEF ClientType, SameLink
<1> HIDE DEF d, L
<1>7. QueueInv(d)
  <2> SUFFICES ASSUME NEW u \in Users
               PROVE /\ Ordered(c.queue[u])
                     /\ ids[u] \in 1 .. L + 1
                     /\ \A i \in 1 .. Len(c.queue[u]) :
                          /\ c.queue[u][i].id <= L
                          /\ u = c.user \/ Persistence = "memory" => c.queue[u][i].id < ids[u]
    BY <1>6 DEF QueueInv, L, SameLink
  <2>1. Ordered(c.queue[u]) /\ \A i \in 1 .. Len(c.queue[u]) : c.queue[u][i].id <= L
    BY DEF QueuesOrdered, L
  <2>2. CASE u = c.user
    BY <1>3, <2>1, <2>2, Zenon
  <2>3. CASE u # c.user
    <3>1. ids[u] = c.nextId[u] /\ c.nextId[u] \in 1 .. L + 1
      BY <2>3 DEF L
    <3> QED  BY <2>1, <2>3, <3>1
  <2> QED  BY <2>2, <2>3, Zenon
<1> QED  BY <1>2, <1>5, <1>6, <1>7, Zenon

LEMMA CredentialChangeGivesInv ==
  ASSUME NEW c, ClientInv(c), NEW u \in Users
  PROVE  ClientInv(HandleCredentialChange(c, u))
<1> DEFINE f == FailOutstandingPendingWriteCallbacks(c)
           g == [f EXCEPT !.user = u]
           h == StartMutationQueue(g)
           d == IF u = c.user THEN c ELSE h
<1>1. c \in ClientType /\ c.failed = {} /\ QueueInv(c) /\ StreamInv(c)
      /\ (c.handshake => IsOpen(c.stream)) /\ WireInv(c)
  BY DEF ClientInv, Base
<1>2. HandleCredentialChange(c, u) = IF d.net THEN RestartNetwork(d) ELSE d
  BY DEF HandleCredentialChange
<1> USE <1>1
<1>3. OnlyApp(f, c)
  BY FailWaitersFrame
<1> HIDE DEF f
<1>4. f \in ClientType /\ SameLink(f, c) /\ f.queue = c.queue /\ f.nextId = c.nextId
      /\ f.failed = c.failed /\ f.app.owner = c.app.owner
  BY <1>3 DEF OnlyApp
<1> USE <1>4
<1>5. g \in ClientType
  BY Zenon DEF ClientType
<1>6. /\ g.user = u /\ g.net = f.net /\ g.pipe = f.pipe /\ g.stream = f.stream
      /\ g.handshake = f.handshake /\ g.toServer = f.toServer
      /\ g.fromServer = f.fromServer /\ g.fin = f.fin
      /\ g.queue = f.queue /\ g.nextId = f.nextId /\ g.failed = f.failed /\ g.app = f.app
  BY SMT DEF ClientType
<1> HIDE DEF g
<1> USE <1>6
<1>7. /\ h \in ClientType /\ QueueInv(h) /\ SameLink(h, g)
      /\ h.queue = g.queue /\ h.failed = g.failed /\ h.app = g.app
  <2>1. QueuesOrdered(g)
    BY DEF QueueInv, QueuesOrdered
  <2>2. \A v \in Users : g.nextId[v] \in 1 .. Len(g.app.owner) + 1
    BY DEF QueueInv
  <2>3. Persistence = "memory" =>
           \A v \in Users : \A i \in 1 .. Len(g.queue[v]) : g.queue[v][i].id < g.nextId[v]
    BY DEF QueueInv
  <2> QED  BY <1>5, <2>1, <2>2, <2>3, StartQueueGivesInv, Zenon
<1> HIDE DEF h
<1> USE <1>7
<1>8. StreamInv(h) /\ h.failed = {} /\ (h.handshake => IsOpen(h.stream))
  BY DEF StreamInv, SameLink
<1>9. Weak(d)
  BY <1>8 DEF Weak
<1> USE <1>2
<1>10. CASE d.net
  BY <1>9, <1>10, RestartGivesInv
<1>11. CASE ~d.net
  <2> USE <1>11
  <2>1. CASE u = c.user
    BY <2>1
  <2>2. CASE u # c.user
    <3>1. d = h /\ ~h.net
      BY <2>2
    <3>2. h.pipe = c.pipe /\ h.stream = c.stream /\ h.net = c.net
      BY Zenon DEF SameLink
    <3> USE <3>1, <3>2
    <3>3. c.pipe = <<>> /\ ~IsStarted(c.stream) /\ ~IsOpen(c.stream) /\ ~c.stream.idle
      BY DEF ClientInv, Base, PipeInv, StreamInv, IsStarted
    <3>4. h.queue[h.user] \in Seq(Batch)
      BY FieldTypes
    <3>5. PipeInv(h)
      BY <3>3, <3>4, EmptyPrefix, Zenon DEF PipeInv
    <3>6. WireInv(h)
      BY <3>3 DEF WireInv
    <3> QED  BY <1>8, <3>5, <3>6, Zenon DEF ClientInv, Base
  <2> QED  BY <2>1, <2>2
<1> QED  BY <1>10, <1>11
-----------------------------------------------------------------------------
(* Starting the client. *)

LEMMA InitializeGivesInv ==
  ASSUME NEW u \in Users, NEW queue \in [Users -> Seq(Batch)], NEW tokens \in [Users -> Nat],
         NEW app \in AppType,
         \A v \in Users :
             /\ Ordered(queue[v])
             /\ \A i \in 1 .. Len(queue[v]) : queue[v][i].id <= Len(app.owner),
         Persistence = "memory" => \A v \in Users : queue[v] = <<>>
  PROVE  ClientInv(Initialize(u, queue, tokens, app))
<1> DEFINE ids == [v \in Users |-> 1]
           c == [user |-> u, queue |-> queue, nextId |-> ids,
                 savedToken |-> tokens, net |-> FALSE, pipe |-> <<>>, stream |-> NewStream,
                 handshake |-> FALSE, token |-> 0, toServer |-> <<>>, fromServer |-> <<>>,
                 fin |-> "none", abandoned |-> <<>>, failed |-> {}, app |-> app]
           d == StartMutationQueue(c)
<1>1. /\ NewStream \in StreamType /\ NewStream.state = "Initial" /\ NewStream.creds = {}
      /\ NewStream.backoff = FALSE /\ NewStream.idle = FALSE
  BY DEF NewStream, StreamType, StreamState
<1>2. /\ ids \in [Users -> Nat] /\ <<>> \in Seq(Batch) /\ <<>> \in Seq(Nat)
      /\ <<>> \in Seq(Seq(Nat)) /\ "none" \in Error \cup {"none"}
  BY EmptySeq, Zenon
<1>3. /\ c.user = u /\ c.queue = queue /\ c.nextId = ids /\ c.net = FALSE /\ c.pipe = <<>>
      /\ c.stream = NewStream /\ c.handshake = FALSE /\ c.toServer = <<>>
      /\ c.fromServer = <<>> /\ c.fin = "none" /\ c.failed = {} /\ c.app = app
  OBVIOUS
<1>4. Initialize(u, queue, tokens, app) = EnableNetwork(d)
  BY Zenon DEF Initialize
<1>5. \A v \in Users : ids[v] = 1
  OBVIOUS
<1> HIDE DEF ids
<1> USE <1>1
<1>6. c \in ClientType
  BY <1>2, Zenon DEF ClientType
<1> HIDE DEF c
<1>7. Len(app.owner) \in Nat
  BY AppTypes, LenProperties
<1> USE <1>3
<1>8. /\ d \in ClientType /\ QueueInv(d) /\ SameLink(d, c)
      /\ d.queue = c.queue /\ d.failed = c.failed /\ d.app = c.app
  <2>1. QueuesOrdered(c)
    BY DEF QueuesOrdered
  <2>2. \A v \in Users : c.nextId[v] \in 1 .. Len(c.app.owner) + 1
    BY <1>5, <1>7
  <2>3. Persistence = "memory" =>
           \A v \in Users : \A i \in 1 .. Len(c.queue[v]) : c.queue[v][i].id < c.nextId[v]
    <3>1. Len(<<>>) = 0
      BY EmptySeq
    <3> QED  BY <3>1
  <2> QED  BY <1>6, <2>1, <2>2, <2>3, StartQueueGivesInv, Zenon
<1> HIDE DEF d
<1> USE <1>8
<1>9. /\ d.net = FALSE /\ d.pipe = <<>> /\ d.stream = NewStream /\ d.handshake = FALSE
      /\ d.toServer = <<>> /\ d.fromServer = <<>> /\ d.fin = "none" /\ d.failed = {}
  BY DEF SameLink
<1> USE <1>9
<1>10. ~IsStarted(d.stream) /\ ~IsOpen(d.stream)
  BY NotOpen
<1>11. StreamInv(d)
  BY DEF StreamInv
<1>12. PipeInv(d)
  <2>1. d.queue[d.user] \in Seq(Batch)
    BY FieldTypes
  <2> QED  BY <1>10, <2>1, EmptyPrefix, Zenon DEF PipeInv
<1>13. WireInv(d)
  BY <1>10 DEF WireInv
<1>14. ClientInv(d)
  BY <1>11, <1>12, <1>13 DEF ClientInv, Base
<1> QED  BY <1>4, <1>14, EnableKeepsInv
-----------------------------------------------------------------------------
(* Reading a response. *)

ReadOf(c, tok) ==
    [c EXCEPT !.fromServer = Tail(c.fromServer), !.token = tok, !.handshake = TRUE]

LEMMA ReadFields ==
  ASSUME NEW c \in ClientType, c.fromServer # <<>>, NEW tok \in Nat
  PROVE  LET x == ReadOf(c, tok)
         IN  /\ x \in ClientType
             /\ x.fromServer = Tail(c.fromServer) /\ x.handshake = TRUE
             /\ x.user = c.user /\ x.queue = c.queue /\ x.nextId = c.nextId
             /\ x.net = c.net /\ x.pipe = c.pipe /\ x.stream = c.stream
             /\ x.toServer = c.toServer /\ x.fin = c.fin
             /\ x.failed = c.failed /\ x.app = c.app
             /\ x.savedToken = c.savedToken
<1> DEFINE f == Tail(c.fromServer)
           x == [c EXCEPT !.fromServer = f, !.token = tok, !.handshake = TRUE]
<1>1. f \in Seq(Nat)
  BY FieldTypes, HeadTailProperties
<1>2. ReadOf(c, tok) = x
  BY DEF ReadOf
<1> HIDE DEF f
<1>3. x \in ClientType
  BY <1>1, Zenon DEF ClientType
<1>4. /\ x.fromServer = f /\ x.handshake = TRUE
      /\ x.user = c.user /\ x.queue = c.queue /\ x.nextId = c.nextId
      /\ x.net = c.net /\ x.pipe = c.pipe /\ x.stream = c.stream
      /\ x.toServer = c.toServer /\ x.fin = c.fin
      /\ x.failed = c.failed /\ x.app = c.app
      /\ x.savedToken = c.savedToken
  <2>1. c \in ClientType
    OBVIOUS
  <2> QED  BY <2>1, SMT DEF ClientType
<1> HIDE DEF x
<1> QED  BY <1>2, <1>3, <1>4 DEF f

(* OnWriteStreamHandshakeComplete stores the token ... *)
LEMMA StoreTokenFields ==
  ASSUME NEW x \in ClientType
  PROVE  OnlyApp([x EXCEPT !.savedToken[x.user] = x.token], x)
<1> DEFINE m == [x.savedToken EXCEPT ![x.user] = x.token]
           y == [x EXCEPT !.savedToken = m]
<1>1. m \in [Users -> Nat]
  BY FieldTypes
<1>2. [x EXCEPT !.savedToken[x.user] = x.token] = y
  OBVIOUS
<1> HIDE DEF m
<1>3. y \in ClientType
  BY <1>1, Zenon DEF ClientType
<1>4. /\ y.user = x.user /\ y.queue = x.queue /\ y.nextId = x.nextId
      /\ y.net = x.net /\ y.pipe = x.pipe /\ y.stream = x.stream
      /\ y.handshake = x.handshake /\ y.toServer = x.toServer
      /\ y.fromServer = x.fromServer /\ y.fin = x.fin
      /\ y.failed = x.failed /\ y.app = x.app
  <2>1. x \in ClientType
    OBVIOUS
  <2> QED  BY <2>1, SMT DEF ClientType
<1> HIDE DEF y
<1>5. OnlyApp(y, x)
  BY <1>3, <1>4 DEF OnlyApp, SameLink
<1> QED  BY <1>2, <1>5

(* ... and sends the pipeline. *)
SentOf(y) ==
    [y EXCEPT !.stream = CancelIdleCheck(y.stream),
              !.toServer = y.toServer \o Writes(y.pipe)]

LEMMA SentFields ==
  ASSUME NEW y \in ClientType
  PROVE  LET d == SentOf(y)
         IN  /\ d \in ClientType
             /\ d.stream = CancelIdleCheck(y.stream)
             /\ d.toServer = y.toServer \o Writes(y.pipe)
             /\ d.user = y.user /\ d.queue = y.queue /\ d.nextId = y.nextId
             /\ d.net = y.net /\ d.pipe = y.pipe /\ d.handshake = y.handshake
             /\ d.fromServer = y.fromServer /\ d.fin = y.fin
             /\ d.failed = y.failed /\ d.app = y.app
<1> DEFINE s == CancelIdleCheck(y.stream)
           t == y.toServer \o Writes(y.pipe)
           d == [y EXCEPT !.stream = s, !.toServer = t]
<1>1. y.stream \in StreamType /\ y.toServer \in Seq(Nat) /\ y.pipe \in Seq(Batch)
  BY FieldTypes
<1>2. s \in StreamType
  BY <1>1, CancelIdleFields, Zenon
<1>3. t \in Seq(Nat)
  BY <1>1, WritesAre, ConcatProperties
<1>4. SentOf(y) = d
  BY DEF SentOf
<1> HIDE DEF s, t
<1>5. d \in ClientType
  BY <1>2, <1>3, Zenon DEF ClientType
<1>6. /\ d.stream = s /\ d.toServer = t
      /\ d.user = y.user /\ d.queue = y.queue /\ d.nextId = y.nextId
      /\ d.net = y.net /\ d.pipe = y.pipe /\ d.handshake = y.handshake
      /\ d.fromServer = y.fromServer /\ d.fin = y.fin
      /\ d.failed = y.failed /\ d.app = y.app
  <2>1. y \in ClientType
    OBVIOUS
  <2> QED  BY <2>1, SMT DEF ClientType
<1> HIDE DEF d
<1> QED  BY <1>4, <1>5, <1>6 DEF s, t

(* Once the response to the handshake is read the wire is empty. *)
LEMMA HandshakeRead ==
  ASSUME NEW from \in Seq(Nat), NEW to \in Seq(Nat), NEW fin,
         WireBefore(from, to, fin), from # <<>>
  PROVE  Tail(from) = <<>> /\ (fin # "unavailable" => to = <<>>)
<1> DEFINE m == Len(from)
           n == Len(to)
<1>1. m \in Nat /\ n \in Nat /\ m # 0 /\ m <= 1 /\ (fin # "unavailable" => m + n = 1)
  BY LenProperties, EmptySeq DEF WireBefore
<1>2. Tail(from) \in Seq(Nat) /\ Len(Tail(from)) = m - 1
  BY HeadTailProperties
<1>3. n = 0 => to = <<>>
  BY EmptySeq
<1> HIDE DEF m, n
<1>4. Len(Tail(from)) = 0 /\ (fin # "unavailable" => n = 0)
  BY <1>1, <1>2
<1> QED  BY <1>2, <1>3, <1>4, EmptySeq, Zenon

LEMMA FirstRequests ==
  ASSUME NEW pipe \in Seq(Batch), NEW to, to = <<>>
  PROVE  Answers(pipe, <<>>) /\ Requests(pipe, <<>>, to \o Writes(pipe))
<1> DEFINE w == Writes(pipe)
           k == Len(pipe)
<1>1. w \in Seq(Nat) /\ Len(w) = k /\ k \in Nat /\ \A i \in 1 .. k : w[i] = pipe[i].w
  BY WritesAre, LenProperties, Zenon
<1> USE <1>1
<1>2. to \o w = w
  BY ConcatEmptySeq
<1> HIDE DEF w, k
<1>3. \A i \in 1 .. k : 0 + i = i
  OBVIOUS
<1>4. Len(<<>>) = 0 /\ 0 <= k /\ 0 + Len(w) = k
  OBVIOUS
<1> QED  BY <1>2, <1>3, <1>4 DEF Answers, Requests, w, k

LEMMA HandshakeReadGivesInv ==
  ASSUME NEW c, ClientInv(c), c.fromServer # <<>>, ~c.handshake, NEW tok \in Nat
  PROVE  ClientInv(OnWriteStreamHandshakeComplete(ReadOf(c, tok)))
<1> DEFINE x == ReadOf(c, tok)
           y == [x EXCEPT !.savedToken[x.user] = x.token]
           d == SentOf(y)
<1>1. /\ c \in ClientType /\ IsOpen(c.stream) /\ IsStarted(c.stream) /\ WireInv(c)
      /\ c.failed = {} /\ QueueInv(c) /\ StreamInv(c) /\ PipeInv(c)
  BY WireIsOpen DEF ClientInv, Base
<1> USE <1>1
<1>2. /\ x \in ClientType
      /\ x.fromServer = Tail(c.fromServer) /\ x.handshake = TRUE
      /\ x.user = c.user /\ x.queue = c.queue /\ x.nextId = c.nextId
      /\ x.net = c.net /\ x.pipe = c.pipe /\ x.stream = c.stream
      /\ x.toServer = c.toServer /\ x.fin = c.fin
      /\ x.failed = c.failed /\ x.app = c.app
  BY ReadFields, Zenon
<1> HIDE DEF x
<1> USE <1>2
<1>3. OnlyApp(y, x)
  BY StoreTokenFields
<1>4. c.pipe # <<>>
  BY DEF PipeInv
<1> USE <1>3
<1>5. OnWriteStreamHandshakeComplete(x) = d
  <2> HIDE DEF y
  <2>1. y.pipe = x.pipe /\ x.pipe # <<>> /\ IsOpen(y.stream) /\ y.handshake
    BY <1>4 DEF OnlyApp, SameLink
  <2>2. OnWriteStreamHandshakeComplete(x) = SendMutations(y, x.pipe)
    BY DEF OnWriteStreamHandshakeComplete, y
  <2> USE <2>1
  <2>3. Check(y, "stream ready for mutations", IsOpen(y.stream) /\ y.handshake) = y
    BY DEF Check
  <2>4. SendMutations(y, y.pipe) = [y EXCEPT !.stream = CancelIdleCheck(@),
                                             !.toServer = @ \o Writes(y.pipe)]
    BY <2>3, Zenon DEF SendMutations
  <2>5. [y EXCEPT !.stream = CancelIdleCheck(@)].toServer = y.toServer
    <3>1. y \in ClientType
      BY DEF OnlyApp
    <3> QED  BY <3>1, SMT DEF ClientType
  <2>6. SendMutations(y, y.pipe) = d
    BY <2>4, <2>5, Zenon DEF SentOf
  <2> QED  BY <2>2, <2>6, Zenon
<1>6. /\ y \in ClientType
      /\ y.fromServer = Tail(c.fromServer) /\ y.handshake = TRUE
      /\ y.user = c.user /\ y.queue = c.queue /\ y.nextId = c.nextId
      /\ y.net = c.net /\ y.pipe = c.pipe /\ y.stream = c.stream
      /\ y.toServer = c.toServer /\ y.fin = c.fin
      /\ y.failed = c.failed /\ y.app.owner = c.app.owner
  BY DEF OnlyApp, SameLink
<1> HIDE DEF y
<1>7. /\ d \in ClientType
      /\ d.stream = CancelIdleCheck(c.stream)
      /\ d.toServer = c.toServer \o Writes(c.pipe)
      /\ d.user = c.user /\ d.queue = c.queue /\ d.nextId = c.nextId
      /\ d.net = c.net /\ d.pipe = c.pipe /\ d.handshake = TRUE
      /\ d.fromServer = Tail(c.fromServer) /\ d.fin = c.fin
      /\ d.failed = c.failed /\ d.app.owner = c.app.owner
  BY <1>6, SentFields, ZenonT(30)
<1> HIDE DEF d
<1> USE <1>7
<1>8. /\ d.stream.state = c.stream.state /\ d.stream.idle = FALSE
      /\ d.stream.closes = c.stream.closes /\ d.stream.creds = c.stream.creds
      /\ d.stream.backoff = c.stream.backoff
  <2>1. c.stream \in StreamType
    BY FieldTypes
  <2> DEFINE r == CancelIdleCheck(c.stream)
  <2>2. /\ r.state = c.stream.state /\ r.idle = FALSE /\ r.closes = c.stream.closes
        /\ r.creds = c.stream.creds /\ r.backoff = c.stream.backoff
    BY <2>1, CancelIdleFields, ZenonT(30)
  <2>3. d.stream = r
    BY Zenon
  <2> HIDE DEF r
  <2> QED  BY <2>2, <2>3
<1> USE <1>8
<1>9. IsOpen(d.stream)
  BY Zenon DEF IsOpen
<1>10. QueueInv(d)
  BY QueueInvFrame, Zenon
<1> USE <1>9
<1>11. StreamInv(d)
  BY Zenon DEF StreamInv
<1>12. PipeInv(d)
  <2>1. PipePrefix(d.pipe, d.queue[d.user]) /\ Len(d.pipe) <= MaxPendingWrites /\ c.net
    BY Zenon DEF PipeInv
  <2>2. d.net
    BY <2>1
  <2> QED  BY <2>1, <2>2, Zenon DEF PipeInv
<1>13. WireInv(d)
  <2>1. Tail(c.fromServer) = <<>> /\ (c.fin # "unavailable" => c.toServer = <<>>)
    BY FieldTypes, HandshakeRead, Zenon DEF WireInv
  <2>2. Answers(c.pipe, <<>>)
        /\ (c.fin # "unavailable" => Requests(c.pipe, <<>>, c.toServer \o Writes(c.pipe)))
    BY <2>1, FieldTypes, FirstRequests, Zenon
  <2> QED  BY <2>1, <2>2, ZenonT(30) DEF WireInv
<1>14. ClientInv(d)
  BY <1>10, <1>11, <1>12, <1>13, Zenon DEF ClientInv, Base
<1> QED  BY <1>5, <1>14 DEF x

LEMMA PipeTailFields ==
  ASSUME NEW x \in ClientType, x.pipe # <<>>
  PROVE  LET p == [x EXCEPT !.pipe = Tail(@)]
         IN  /\ p \in ClientType /\ p.pipe = Tail(x.pipe)
             /\ p.user = x.user /\ p.queue = x.queue /\ p.nextId = x.nextId
             /\ p.net = x.net /\ p.stream = x.stream /\ p.handshake = x.handshake
             /\ p.toServer = x.toServer /\ p.fromServer = x.fromServer /\ p.fin = x.fin
             /\ p.failed = x.failed /\ p.app = x.app
<1> DEFINE t == Tail(x.pipe)
           p == [x EXCEPT !.pipe = t]
<1>1. t \in Seq(Batch)
  BY FieldTypes, HeadTailProperties
<1> HIDE DEF t
<1>2. p \in ClientType
  BY <1>1, Zenon DEF ClientType
<1>3. /\ p.pipe = t
      /\ p.user = x.user /\ p.queue = x.queue /\ p.nextId = x.nextId
      /\ p.net = x.net /\ p.stream = x.stream /\ p.handshake = x.handshake
      /\ p.toServer = x.toServer /\ p.fromServer = x.fromServer /\ p.fin = x.fin
      /\ p.failed = x.failed /\ p.app = x.app
  <2>1. x \in ClientType
    BY Zenon
  <2> QED  BY <2>1, SMT DEF ClientType
<1> QED  BY <1>2, <1>3, Zenon DEF t

LEMMA ResultReadGivesInv ==
  ASSUME NEW c, ClientInv(c), c.fromServer # <<>>, c.handshake, NEW tok \in Nat
  PROVE  ClientInv(OnWriteStreamMutationResult(ReadOf(c, tok)))
<1> DEFINE x == ReadOf(c, tok)
           p == [x EXCEPT !.pipe = Tail(@)]
           e == HandleSuccessfulWrite(p, Head(x.pipe))
           f == FillWritePipeline(e)
           q == c.queue[c.user]
<1>1. /\ c \in ClientType /\ IsOpen(c.stream) /\ IsStarted(c.stream) /\ WireInv(c)
      /\ c.failed = {} /\ QueueInv(c) /\ StreamInv(c) /\ PipeInv(c)
  BY WireIsOpen, Zenon DEF ClientInv, Base
<1> USE <1>1
<1>2. /\ c.pipe \in Seq(Batch) /\ c.fromServer \in Seq(Nat) /\ c.toServer \in Seq(Nat)
      /\ q \in Seq(Batch) /\ PipePrefix(c.pipe, q)
  BY FieldTypes, Zenon DEF PipeInv
<1> USE <1>2
<1>3. /\ c.pipe # <<>> /\ Answers(Tail(c.pipe), Tail(c.fromServer))
      /\ c.fin # "unavailable" => Requests(Tail(c.pipe), Tail(c.fromServer), c.toServer)
  BY AnswersHead, Zenon DEF WireInv
<1> USE <1>3
<1>4. /\ q # <<>> /\ Head(c.pipe) = Head(q) /\ PipePrefix(Tail(c.pipe), Tail(q))
      /\ Len(Tail(c.pipe)) <= MaxPendingWrites
  <2>1. /\ q # <<>> /\ Head(c.pipe) = Head(q) /\ PipePrefix(Tail(c.pipe), Tail(q))
    BY PrefixHead
  <2> DEFINE n == Len(c.pipe)
  <2>2. n \in Nat /\ n <= MaxPendingWrites /\ Len(Tail(c.pipe)) = n - 1
    BY LenProperties, HeadTailProperties, Zenon DEF PipeInv
  <2> HIDE DEF n
  <2>3. Len(Tail(c.pipe)) <= MaxPendingWrites
    BY <2>2, PipelineAssumption
  <2> QED  BY <2>1, <2>3, Zenon
<1>5. c.net /\ ~c.stream.idle
  BY DEF PipeInv
<1>6. /\ x \in ClientType
      /\ x.fromServer = Tail(c.fromServer) /\ x.handshake = TRUE
      /\ x.user = c.user /\ x.queue = c.queue /\ x.nextId = c.nextId
      /\ x.net = c.net /\ x.pipe = c.pipe /\ x.stream = c.stream
      /\ x.toServer = c.toServer /\ x.fin = c.fin
      /\ x.failed = c.failed /\ x.app = c.app
  BY ReadFields, Zenon
<1> HIDE DEF x
<1> USE <1>6
<1>7. OnWriteStreamMutationResult(x) = f
  <2>1. Check(x, "result for empty pipeline", x.pipe # <<>>) = x
    BY DEF Check
  <2> QED  BY <2>1, Zenon DEF OnWriteStreamMutationResult
<1>8. /\ p \in ClientType /\ p.pipe = Tail(c.pipe)
      /\ p.user = c.user /\ p.queue = c.queue /\ p.nextId = c.nextId
      /\ p.net = c.net /\ p.stream = c.stream /\ p.handshake = TRUE
      /\ p.toServer = c.toServer /\ p.fromServer = Tail(c.fromServer) /\ p.fin = c.fin
      /\ p.failed = c.failed /\ p.app = c.app
  <2>1. x.pipe # <<>>
    OBVIOUS
  <2>2. /\ p \in ClientType /\ p.pipe = Tail(x.pipe)
        /\ p.user = x.user /\ p.queue = x.queue /\ p.nextId = x.nextId
        /\ p.net = x.net /\ p.stream = x.stream /\ p.handshake = x.handshake
        /\ p.toServer = x.toServer /\ p.fromServer = x.fromServer /\ p.fin = x.fin
        /\ p.failed = x.failed /\ p.app = x.app
    BY <2>1, PipeTailFields, ZenonT(30)
  <2> HIDE DEF p
  <2> QED  BY <2>2, ZenonT(30)
<1> HIDE DEF p
<1> USE <1>8
<1>9. QueueInv(p)
  BY QueueInvFrame, Zenon
<1>10. StreamInv(p)
  BY Zenon DEF StreamInv
<1>11. WireInv(p)
  BY Zenon DEF WireInv
<1> USE <1>4
<1>12. Head(x.pipe) = Head(p.queue[p.user])
  BY Zenon
<1>13. Popped(e, p)
  <2>1. p.queue[p.user] # <<>>
    BY Zenon
  <2>2. Popped(HandleSuccessfulWrite(p, Head(p.queue[p.user])), p)
    BY <1>9, <2>1, SuccessIsPop, Zenon
  <2> QED  BY <1>12, <2>2, Zenon
<1> HIDE DEF e
<1>14. Base(e) /\ e.handshake = TRUE /\ e.stream = c.stream
  <2>1. /\ p.queue[p.user] # <<>> /\ PipePrefix(p.pipe, Tail(p.queue[p.user]))
        /\ Len(p.pipe) <= MaxPendingWrites /\ ~p.stream.idle /\ p.net /\ p.failed = {}
        /\ IsOpen(p.stream) /\ p.handshake
    BY <1>5
  <2>2. Base(e) /\ e.handshake = p.handshake /\ e.stream = p.stream
    BY <1>9, <1>10, <1>11, <1>13, <2>1, PoppedBase, Zenon
  <2> QED  BY <2>2, Zenon
<1>15. Base(f) /\ f.handshake = e.handshake /\ (IsOpen(f.stream) <=> IsOpen(e.stream))
  BY <1>14, FillKeepsBase, Zenon
<1>16. ClientInv(f)
  BY <1>14, <1>15 DEF ClientInv
<1> QED  BY <1>7, <1>16, Zenon DEF x
-----------------------------------------------------------------------------
(* A new process opens the database of the old one. *)

LEMMA NewProcessApp ==
  ASSUME NEW a \in AppType
  PROVE  LET b == [a EXCEPT !.callbacks = [v \in Users |-> {}], !.waiters = {},
                            !.forgotten = 1 .. Len(a.owner)]
         IN  b \in AppType /\ b.owner = a.owner
<1> DEFINE k == [v \in Users |-> {}]
           g == 1 .. Len(a.owner)
           b == [a EXCEPT !.callbacks = k, !.waiters = {}, !.forgotten = g]
<1>1. k \in [Users -> SUBSET Batch] /\ {} \in SUBSET [id : Nat, on : SUBSET Nat]
  OBVIOUS
<1>2. g \in SUBSET Nat
  BY AppTypes, LenProperties
<1> HIDE DEF k, g
<1>3. b \in AppType
  BY <1>1, <1>2, Zenon DEF AppType
<1>4. b.owner = a.owner
  BY SMT DEF AppType
<1> QED  BY <1>3, <1>4 DEF k, g

LEMMA ReopenedGivesInv ==
  ASSUME NEW d \in ClientType, d.failed = {}, QueueInv(d), NEW u \in Users,
         Persistence = "leveldb"
  PROVE  ClientInv(Reopened(d, u))
<1> DEFINE b == [d.app EXCEPT !.callbacks = [v \in Users |-> {}], !.waiters = {},
                              !.forgotten = 1 .. Len(d.app.owner)]
           z == Initialize(u, d.queue, d.savedToken, b)
           a == d.abandoned \o Abandoned(d)
           y == [z EXCEPT !.abandoned = a]
           r == [y EXCEPT !.failed = {}]
<1>1. d \in ClientType /\ d.failed = {} /\ QueueInv(d)
  OBVIOUS
<1> USE <1>1
<1>2. /\ d.queue \in [Users -> Seq(Batch)] /\ d.savedToken \in [Users -> Nat]
      /\ d.app \in AppType /\ d.abandoned \in Seq(Seq(Nat))
      /\ d.toServer \in Seq(Nat)
  BY FieldTypes
<1> USE <1>2
<1>3. b \in AppType /\ b.owner = d.app.owner
  BY NewProcessApp, Zenon
<1>4. a \in Seq(Seq(Nat))
  BY AbandonedType
<1> HIDE DEF b
<1>5. ClientInv(z)
  <2>1. \A v \in Users :
            /\ Ordered(d.queue[v])
            /\ \A i \in 1 .. Len(d.queue[v]) : d.queue[v][i].id <= Len(b.owner)
    BY <1>3 DEF QueueInv
  <2>2. Persistence # "memory"
    OBVIOUS
  <2> QED  BY <1>3, <2>1, <2>2, InitializeGivesInv, Zenon
<1> HIDE DEF z, a
<1> USE <1>5
<1>6. ClientInv(y)
  BY <1>4, AbandonedKeepsInv, ZenonT(30)
<1>7. y.failed = z.failed
  <2>1. z \in ClientType
    BY DEF ClientInv, Base
  <2> QED  BY <2>1, SMT DEF ClientType
<1>8. Reopened(d, u) = r
  <2>1. z.failed \cup d.failed = {}
    BY DEF ClientInv, Base
  <2>2. Reopened(d, u) = [z EXCEPT !.abandoned = a, !.failed = @ \cup d.failed]
    BY DEF Reopened, z, a, b
  <2> QED  BY <1>7, <2>1, <2>2, Zenon
<1> HIDE DEF y
<1>9. r = y
  <2>1. y \in ClientType /\ y.failed = {}
    BY <1>6 DEF ClientInv, Base
  <2> QED  BY <2>1, SMT DEF ClientType
<1> QED  BY <1>6, <1>8, <1>9, ZenonT(30)
-----------------------------------------------------------------------------
(* The initial states. *)

LEMMA InitGivesIndInv == Init => IndInv
<1> SUFFICES ASSUME Init PROVE IndInv
  OBVIOUS
<1> DEFINE q == [v \in Users |-> <<>>]
           t == [v \in Users |-> 0]
<1>1. PICK u \in Users : client = Initialize(u, q, t, NewApp)
  BY DEF Init
<1>2. q \in [Users -> Seq(Batch)] /\ t \in [Users -> Nat]
      /\ \A v \in Users : q[v] = <<>>
  OBVIOUS
<1>3. NewApp \in AppType /\ NewApp.owner = <<>>
  <2>1. [v \in Users |-> {}] \in [Users -> SUBSET Batch]
    OBVIOUS
  <2>2. <<>> \in Seq(Users) /\ <<>> \in Seq(Outcome)
    OBVIOUS
  <2> QED  BY <2>1, <2>2, Zenon DEF NewApp, AppType
<1>4. \A v \in Users :
          Ordered(q[v]) /\ \A i \in 1 .. Len(q[v]) : q[v][i].id <= Len(NewApp.owner)
  <2>1. Len(<<>>) = 0
    OBVIOUS
  <2>2. Ordered(<<>>)
    BY DEF Ordered
  <2> QED  BY <1>2, <2>1, <2>2
<1> HIDE DEF q, t
<1>5. ClientInv(client)
  BY <1>1, <1>2, <1>3, <1>4, InitializeGivesInv, Zenon
<1>6. log \in Seq(Nat) /\ refused \in SUBSET Nat
      /\ spent \in [waits : Nat, restarts : Nat, late : Nat, reads : Nat]
  BY DEF Init
<1> QED  BY <1>5, <1>6, Zenon DEF IndInv, TypeOK, ClientInv, Base
-----------------------------------------------------------------------------
(* One lemma for each group of actions. *)

LEMMA SpentTypes ==
  ASSUME NEW s \in [waits : Nat, restarts : Nat, late : Nat, reads : Nat]
  PROVE  /\ s.reads + 1 \in Nat
         /\ [s EXCEPT !.waits = @ + 1] \in [waits : Nat, restarts : Nat, late : Nat, reads : Nat]
         /\ [s EXCEPT !.restarts = @ + 1] \in [waits : Nat, restarts : Nat, late : Nat, reads : Nat]
         /\ [s EXCEPT !.late = @ + 1] \in [waits : Nat, restarts : Nat, late : Nat, reads : Nat]
         /\ [s EXCEPT !.reads = @ + 1] \in [waits : Nat, restarts : Nat, late : Nat, reads : Nat]
  OBVIOUS

LEMMA ReplaceInSeq ==
  ASSUME NEW S, NEW q \in Seq(S), NEW i \in DOMAIN q, NEW x \in S
  PROVE  [q EXCEPT ![i] = x] \in Seq(S)
  OBVIOUS

(* Steps that leave the backend alone. *)
LEMMA ClientStep ==
  ASSUME IndInv, ClientInv(client'), UNCHANGED <<log, refused, spent>>
  PROVE  IndInv'
  BY DEF IndInv, TypeOK, ClientInv, Base

(* Steps that read a token: only the count of responses changes besides. *)
LEMMA TokenStep ==
  ASSUME IndInv, ClientInv(client'), UNCHANGED <<log, refused>>,
         spent' \in [waits : Nat, restarts : Nat, late : Nat, reads : Nat]
  PROVE  IndInv'
  BY DEF IndInv, TypeOK, ClientInv, Base

LEMMA IsWeak ==
  ASSUME NEW c, ClientInv(c)
  PROVE  Weak(c)
  BY DEF ClientInv, Base, Weak

LEMMA ApplicationSteps ==
  ASSUME IndInv,
         WriteMutations \/ WaitForPendingWrites \/ UserEnablesNetwork
           \/ UserDisablesNetwork \/ CredentialChange \/ ConnectivityChange
  PROVE  IndInv'
<1>1. ClientInv(client) /\ client \in ClientType
  BY DEF IndInv, TypeOK
<1> USE <1>1
<1>2. CASE WriteMutations
  <2> DEFINE w == Len(client.app.owner) + 1
  <2>1. w \in Nat \ {0}
    BY FieldTypes, AppTypes, LenProperties
  <2>2. client' = LET a == AddMutationBatch(client, w)
                  IN  FillWritePipeline(RegisterWrite(a, Back(a.queue[a.user])))
    BY <1>2 DEF WriteMutations
  <2>3. UNCHANGED <<log, refused, spent>>
    BY <1>2 DEF WriteMutations
  <2> HIDE DEF w
  <2>4. ClientInv(client')
    BY <2>1, <2>2, NewWriteGivesInv
  <2> QED  BY <2>3, <2>4, ClientStep, Zenon
<1>3. CASE WaitForPendingWrites
  <2>1. /\ client' = RegisterPendingWritesCallback(client)
        /\ spent' = [spent EXCEPT !.waits = @ + 1] /\ UNCHANGED <<log, refused>>
    BY <1>3 DEF WaitForPendingWrites
  <2> USE <2>1
  <2>2. OnlyApp(client', client)
    BY WaitFrame DEF ClientInv, Base
  <2>3. ClientInv(client')
    BY <2>2, OnlyAppBase DEF ClientInv
  <2>4. spent' \in [waits : Nat, restarts : Nat, late : Nat, reads : Nat]
    BY SpentTypes, Zenon DEF IndInv, TypeOK
  <2> QED  BY <2>3, <2>4 DEF IndInv, TypeOK, ClientInv, Base
<1>4. CASE UserEnablesNetwork
  BY <1>4, EnableKeepsInv, ClientStep DEF UserEnablesNetwork
<1>5. CASE UserDisablesNetwork
  BY <1>5, IsWeak, DisableGivesInv, ClientStep, Zenon DEF UserDisablesNetwork
<1>6. CASE CredentialChange
  BY <1>6, CredentialChangeGivesInv, ClientStep DEF CredentialChange
<1>7. CASE ConnectivityChange
  BY <1>7, IsWeak, RestartGivesInv, ClientStep, Zenon DEF ConnectivityChange
<1> QED  BY <1>2, <1>3, <1>4, <1>5, <1>6, <1>7, Zenon

LEMMA RestartStep ==
  ASSUME IndInv, Restart
  PROVE  IndInv'
<1>1. Base(client) /\ client \in ClientType
  BY DEF IndInv, TypeOK, ClientInv
<1>2. PICK u \in Users :
        \/ client' = Reopened(client, u)
        \/ /\ client.fromServer # <<>> /\ client.handshake /\ client.pipe # <<>>
           /\ client' = Reopened(AnnounceSuccess(client, Head(client.pipe)), u)
        \/ /\ client.pipe # <<>>
           /\ client' = Reopened(RejectBatch([client EXCEPT !.pipe = Tail(@)],
                                              Head(client.pipe)), u)
  BY Zenon DEF Restart
<1>3. Persistence = "leveldb" /\ UNCHANGED <<log, refused>>
      /\ spent' = [spent EXCEPT !.restarts = @ + 1]
  BY DEF Restart
<1> USE <1>1, <1>3
<1>4. ClientInv(client')
  <2>1. CASE client' = Reopened(client, u)
    BY <2>1, ReopenedGivesInv DEF Base
  <2>2. CASE client.pipe # <<>>
             /\ client' = Reopened(AnnounceSuccess(client, Head(client.pipe)), u)
    <3> DEFINE d == AnnounceSuccess(client, Head(client.pipe))
    <3>1. Head(client.pipe) \in Batch
      BY <2>2, FieldTypes, HeadTailProperties
    <3>2. OnlyApp(d, client)
      BY <3>1, AnnounceFrame
    <3>3. Base(d)
      BY <3>2, OnlyAppBase
    <3> HIDE DEF d
    <3>4. ClientInv(Reopened(d, u))
      BY <3>3, ReopenedGivesInv DEF Base
    <3> QED  BY <2>2, <3>4 DEF d
  <2>3. CASE client.pipe # <<>>
             /\ client' = Reopened(RejectBatch([client EXCEPT !.pipe = Tail(@)],
                                                Head(client.pipe)), u)
    <3> DEFINE p == [client EXCEPT !.pipe = Tail(@)]
               b == Head(client.pipe)
               d == RejectBatch(p, b)
    <3>1. /\ QueueInv(client) /\ client.failed = {} /\ client.pipe \in Seq(Batch)
          /\ client.queue[client.user] \in Seq(Batch)
          /\ PipePrefix(client.pipe, client.queue[client.user])
      BY FieldTypes DEF Base, PipeInv
    <3>2. /\ p \in ClientType /\ p.user = client.user /\ p.queue = client.queue
          /\ p.nextId = client.nextId /\ p.failed = client.failed /\ p.app = client.app
      BY <2>3, PipeTailFields, Zenon
    <3> HIDE DEF p
    <3>3. QueueInv(p)
      BY <3>1, <3>2, QueueInvFrame
    <3>4. p.queue[p.user] # <<>> /\ b = Head(p.queue[p.user])
      BY <2>3, <3>1, <3>2, PrefixHead
    <3> HIDE DEF b
    <3>5. Popped(d, p)
      BY <3>2, <3>3, <3>4, RejectBatchIsPop
    <3> HIDE DEF d
    <3>6. d \in ClientType /\ d.failed = {} /\ QueueInv(d)
      BY <3>1, <3>2, <3>3, <3>4, <3>5, PoppedQueueInv, Zenon DEF Popped
    <3>7. ClientInv(Reopened(d, u))
      BY <3>6, ReopenedGivesInv
    <3> QED  BY <2>3, <3>7 DEF d, p, b
  <2> QED  BY <1>2, <2>1, <2>2, <2>3
<1>5. spent' \in [waits : Nat, restarts : Nat, late : Nat, reads : Nat]
  BY SpentTypes, Zenon DEF IndInv, TypeOK
<1> QED  BY <1>4, <1>5 DEF IndInv, TypeOK, ClientInv, Base

LEMMA TimerSteps ==
  ASSUME IndInv, BackoffTimer \/ IdleTimer \/ HealthTimer
  PROVE  IndInv'
<1>1. ClientInv(client)
  BY DEF IndInv
<1> USE <1>1
<1>2. CASE BackoffTimer
  BY <1>2, BackoffTimerKeepsInv, ClientStep, Zenon DEF BackoffTimer
<1>3. CASE IdleTimer
  BY <1>3, IdleTimerKeepsInv, ClientStep DEF IdleTimer
<1>4. CASE HealthTimer
  BY <1>4, HealthTimerKeepsInv, ClientStep DEF HealthTimer
<1> QED  BY <1>2, <1>3, <1>4

LEMMA CredentialsStep ==
  ASSUME IndInv, NEW n, NEW status \in Error \cup {"ok"},
         ResumeStartWithCredentials(n, status)
  PROVE  IndInv'
<1> DEFINE c == [client EXCEPT !.stream.creds = @ \ {n}]
           d == Check(c, "credentials arrive while Starting", c.stream.state = "Starting")
<1>1. ClientInv(client) /\ StreamInv(client)
  BY DEF IndInv, ClientInv, Base
<1>2. /\ n \in client.stream.creds /\ UNCHANGED <<log, refused, spent>>
      /\ client' = IF ~CredentialsCurrent(c.stream, n) THEN c
                   ELSE IF status = "ok"
                        THEN WriteHandshake([d EXCEPT !.stream = OnStreamStart(@)])
                        ELSE CloseWriteStream(d, status)
  BY Zenon DEF ResumeStartWithCredentials
<1>3. /\ ClientInv(c) /\ c.stream.state = client.stream.state
      /\ c.stream.closes = client.stream.closes /\ n \notin c.stream.creds
  BY <1>1, CredentialsTaken, Zenon
<1> HIDE DEF c
<1> USE <1>2, <1>3
<1>4. CASE ~CredentialsCurrent(c.stream, n)
  BY <1>4, ClientStep
<1>5. CASE CredentialsCurrent(c.stream, n)
  <2> USE <1>5
  <2>1. n = c.stream.closes /\ c.stream.state = "Starting"
    BY <1>1, Zenon DEF CredentialsCurrent, StreamInv
  <2> USE <2>1
  <2>2. d = c
    BY DEF Check
  <2>3. CASE status = "ok"
    <3>1. ClientInv(WriteHandshake([c EXCEPT !.stream = OnStreamStart(@)]))
      BY OpeningGivesInv, Zenon
    <3> HIDE DEF d
    <3> QED  BY <2>2, <2>3, <3>1, ClientStep
  <2>4. CASE status # "ok"
    <3>1. IsStarted(c.stream) /\ status \in Error
      BY <2>4, Zenon DEF IsStarted
    <3>2. ClientInv(CloseWriteStream(c, status))
      BY <3>1, CloseOnError, Zenon
    <3> HIDE DEF d
    <3> QED  BY <2>2, <2>4, <3>2, ClientStep
  <2> QED  BY <2>3, <2>4, Zenon
<1> QED  BY <1>4, <1>5, Zenon

LEMMA StreamSteps ==
  ASSUME IndInv, StreamRead \/ StreamReadFails \/ StreamFinish
  PROVE  IndInv'
<1>1. ClientInv(client) /\ client \in ClientType
  BY DEF IndInv, TypeOK
<1>2. /\ NextToken \in Nat
      /\ [spent EXCEPT !.reads = @ + 1]
           \in [waits : Nat, restarts : Nat, late : Nat, reads : Nat]
  BY SpentTypes, Zenon DEF IndInv, TypeOK, NextToken
<1> USE <1>1, <1>2
<1>3. CASE StreamRead
  <2> DEFINE k == Check(client, "read on a started stream", IsStarted(client.stream))
             c == [k EXCEPT !.fromServer = Tail(@), !.token = NextToken, !.handshake = TRUE]
  <2>1. /\ client.fromServer # <<>> /\ UNCHANGED <<log, refused>>
        /\ spent' = [spent EXCEPT !.reads = @ + 1]
        /\ client' = IF ~client.handshake THEN OnWriteStreamHandshakeComplete(c)
                     ELSE OnWriteStreamMutationResult(c)
    BY <1>3 DEF StreamRead
  <2> USE <2>1
  <2>2. k = client
    BY WireIsOpen, Zenon DEF Check
  <2> HIDE DEF k
  <2>3. c = ReadOf(client, NextToken)
    BY <2>2 DEF ReadOf
  <2> HIDE DEF c
  <2>4. CASE ~client.handshake
    BY <2>3, <2>4, HandshakeReadGivesInv, TokenStep, Zenon
  <2>5. CASE client.handshake
    BY <2>3, <2>5, ResultReadGivesInv, TokenStep, Zenon
  <2> QED  BY <2>4, <2>5
<1>4. CASE StreamReadFails
  <2> DEFINE k == Check(client, "read on a started stream", IsStarted(client.stream))
             d == [client EXCEPT !.token = NextToken]
  <2>1. /\ client.fromServer # <<>> /\ UNCHANGED <<log, refused>>
        /\ \/ client' = CloseWriteStream(k, "denied") /\ UNCHANGED spent
           \/ /\ client' = CloseWriteStream([k EXCEPT !.token = NextToken], "denied")
              /\ spent' = [spent EXCEPT !.reads = @ + 1]
    BY <1>4, Zenon DEF StreamReadFails
  <2>2. IsStarted(client.stream) /\ "denied" \in Error
    BY <2>1, WireIsOpen, Zenon DEF Error
  <2>3. k = client
    BY <2>2 DEF Check
  <2> HIDE DEF k
  <2>4. ClientInv(CloseWriteStream(client, "denied"))
    BY <2>2, CloseOnError
  <2>5. ClientInv(d) /\ d.stream = client.stream
    BY TokenKeepsInv
  <2>6. [k EXCEPT !.token = NextToken] = d
    BY <2>3
  <2> HIDE DEF d
  <2>7. ClientInv(CloseWriteStream(d, "denied"))
    BY <2>2, <2>5, CloseOnError
  <2>8. CASE client' = CloseWriteStream(k, "denied") /\ UNCHANGED spent
    BY <2>1, <2>3, <2>4, <2>8, ClientStep
  <2>9. CASE client' = CloseWriteStream(d, "denied") /\ spent' = [spent EXCEPT !.reads = @ + 1]
    BY <2>1, <2>7, <2>9, TokenStep
  <2> QED  BY <2>1, <2>6, <2>8, <2>9
<1>5. CASE StreamFinish
  <2>1. client.fin # "none" /\ client' = CloseWriteStream(client, client.fin)
        /\ UNCHANGED <<log, refused, spent>>
    BY <1>5 DEF StreamFinish
  <2> USE <2>1
  <2>2. IsStarted(client.stream) /\ client.fin \in Error
    BY WireIsOpen, FieldTypes
  <2>3. ClientInv(client')
    BY <2>2, CloseOnError
  <2> QED  BY <2>3, ClientStep
<1> QED  BY <1>3, <1>4, <1>5

LEMMA BackendSteps ==
  ASSUME IndInv,
         ServerHandshake \/ ServerCommit \/ ServerCommitsLate \/ ServerRefuse
           \/ ConnectionLost
  PROVE  IndInv'
<1>1. ClientInv(client) /\ client \in ClientType /\ log \in Seq(Nat)
      /\ refused \in SUBSET Nat /\ spent \in [waits : Nat, restarts : Nat, late : Nat, reads : Nat]
  BY DEF IndInv, TypeOK
<1> USE <1>1
<1>2. ASSUME client.toServer # <<>> PROVE Head(client.toServer) \in Nat
  BY <1>2, FieldTypes, HeadTailProperties
<1>3. CASE ServerHandshake
  <2>1. client.fin = "none" /\ client.toServer # <<>>
        /\ Head(client.toServer) = Handshake /\ UNCHANGED <<log, refused, spent>>
        /\ client' = [client EXCEPT !.toServer = Tail(@), !.fromServer = Append(@, Handshake)]
    BY <1>3 DEF ServerHandshake, ServerReady
  <2> USE <2>1
  <2>2. client' = [client EXCEPT !.toServer = Tail(@),
                                 !.fromServer = Append(@, Head(client.toServer))]
    BY Zenon
  <2>3. client.fin = "none" /\ client.toServer # <<>>
    OBVIOUS
  <2>4. ClientInv([client EXCEPT !.toServer = Tail(@),
                                 !.fromServer = Append(@, Head(client.toServer))])
    BY <2>3, ServerAnswerKeepsInv, Zenon
  <2>5. ClientInv(client')
    BY <2>2, <2>4, Zenon
  <2> QED  BY <2>5, ClientStep
<1>4. CASE ServerCommit
  <2>1. /\ client.fin = "none" /\ client.toServer # <<>>
        /\ UNCHANGED <<refused, spent>> /\ log' = Append(log, Head(client.toServer))
        /\ client' = [client EXCEPT !.toServer = Tail(@),
                                    !.fromServer = Append(@, Head(client.toServer))]
    BY <1>4 DEF ServerCommit, ServerReady
  <2> USE <2>1
  <2>2. ClientInv([client EXCEPT !.toServer = Tail(@),
                                 !.fromServer = Append(@, Head(client.toServer))])
    BY ServerAnswerKeepsInv, Zenon
  <2>3. ClientInv(client')
    BY <2>2, Zenon
  <2>4. log' \in Seq(Nat)
    BY <1>2, AppendProperties
  <2> QED  BY <2>3, <2>4 DEF IndInv, TypeOK, ClientInv, Base
<1>5. CASE ServerCommitsLate
  <2>1. PICK i \in DOMAIN client.abandoned :
          /\ client.abandoned[i] # <<>>
          /\ log' = Append(log, Head(client.abandoned[i]))
          /\ client' = [client EXCEPT !.abandoned[i] = Tail(@)]
    BY <1>5, Zenon DEF ServerCommitsLate
  <2> DEFINE s == client.abandoned[i]
             a == [client.abandoned EXCEPT ![i] = Tail(s)]
  <2>2. UNCHANGED refused /\ spent' = [spent EXCEPT !.late = @ + 1]
    BY <1>5 DEF ServerCommitsLate
  <2>3. client.abandoned \in Seq(Seq(Nat))
    BY FieldTypes
  <2>4. s \in Seq(Nat) /\ s # <<>>
    BY <2>1, <2>3, LenProperties
  <2>5. Head(s) \in Nat /\ Tail(s) \in Seq(Nat)
    BY <2>4, HeadTailProperties
  <2>6. ClientInv(client')
    <3>1. a \in Seq(Seq(Nat))
      BY <2>3, <2>5, ReplaceInSeq, Zenon
    <3>2. client' = [client EXCEPT !.abandoned = a]
      BY <2>1, Zenon
    <3> HIDE DEF a
    <3> QED  BY <3>1, <3>2, AbandonedKeepsInv, Zenon
  <2>7. log' \in Seq(Nat)
    BY <2>1, <2>5, AppendProperties
  <2>8. spent' \in [waits : Nat, restarts : Nat, late : Nat, reads : Nat]
    BY <2>2, SpentTypes, Zenon
  <2> QED  BY <2>2, <2>6, <2>7, <2>8, Zenon DEF IndInv, TypeOK, ClientInv, Base
<1>6. CASE ServerRefuse
  <2>1. PICK e \in {"aborted", "denied"} :
          /\ client' = [client EXCEPT !.fin = e]
          /\ refused' = IF e = "denied" /\ Head(client.toServer) # Handshake
                        THEN refused \cup {Head(client.toServer)} ELSE refused
    BY <1>6, Zenon DEF ServerRefuse
  <2>2. client.fin = "none" /\ client.toServer # <<>> /\ UNCHANGED <<log, spent>>
    BY <1>6 DEF ServerRefuse, ServerReady
  <2> USE <2>2
  <2>3. ClientInv(client')
    BY <2>1, ServerRefuseKeepsInv, Zenon
  <2>4. refused' \in SUBSET Nat
    BY <1>2, <2>1
  <2> QED  BY <2>3, <2>4 DEF IndInv, TypeOK, ClientInv, Base
<1>7. CASE ConnectionLost
  <2>1. PICK k \in 0 .. Len(client.fromServer) :
          client' = [client EXCEPT !.fin = "unavailable", !.fromServer = SubSeq(@, 1, k)]
    BY <1>7, Zenon DEF ConnectionLost
  <2>2. IsOpen(client.stream) /\ UNCHANGED <<log, refused, spent>>
    BY <1>7, Zenon DEF ConnectionLost
  <2>3. ClientInv([client EXCEPT !.fin = "unavailable", !.fromServer = SubSeq(@, 1, k)])
    BY <2>2, ConnectionLostKeepsInv, Zenon
  <2>4. ClientInv(client')
    BY <2>1, <2>3, Zenon
  <2> QED  BY <2>2, <2>4, ClientStep
<1> QED  BY <1>3, <1>4, <1>5, <1>6, <1>7, Zenon

(* Every step preserves the invariant. *)
LEMMA NextKeepsIndInv == IndInv /\ [Next]_vars => IndInv'
<1> SUFFICES ASSUME IndInv, [Next]_vars PROVE IndInv'
  OBVIOUS
<1>1. CASE WriteMutations \/ WaitForPendingWrites \/ UserEnablesNetwork
           \/ UserDisablesNetwork \/ CredentialChange \/ ConnectivityChange
  BY <1>1, ApplicationSteps
<1>2. CASE Restart
  BY <1>2, RestartStep
<1>3. CASE BackoffTimer \/ IdleTimer \/ HealthTimer
  BY <1>3, TimerSteps
<1>4. CASE CredentialsArrive
  BY <1>4, CredentialsStep DEF CredentialsArrive
<1>5. CASE CredentialsFail
  BY <1>5, CredentialsStep DEF CredentialsFail
<1>6. CASE StreamRead \/ StreamReadFails \/ StreamFinish
  BY <1>6, StreamSteps
<1>7. CASE ServerHandshake \/ ServerCommit \/ ServerCommitsLate \/ ServerRefuse
           \/ ConnectionLost
  BY <1>7, BackendSteps
<1>8. CASE UNCHANGED vars
  BY <1>8 DEF vars, IndInv, TypeOK
<1> QED  BY <1>1, <1>2, <1>3, <1>4, <1>5, <1>6, <1>7, <1>8, Zenon DEF Next
-----------------------------------------------------------------------------
(* The inductive invariant holds in every reachable state of the write     *)
(* path, whatever the order in which the tasks of the worker queue run.    *)
THEOREM InvariantHolds == Spec => []IndInv
  BY InitGivesIndInv, NextKeepsIndInv, PTL DEF Spec

(* Every field of the client state keeps its type. *)
THEOREM TypeCorrect == Spec => []TypeOK
<1>1. IndInv => TypeOK
  BY DEF IndInv
<1> QED  BY InvariantHolds, <1>1, PTL

(* No HARD_ASSERT of the write path (remote_store.cc, stream.cc,           *)
(* write_stream.cc, sync_engine.cc, the mutation queues) ever fails, for   *)
(* any number of users, writes, stream failures and restarts.              *)
THEOREM AssertionsHold == Spec => []NoAssertionFails
<1>1. IndInv => NoAssertionFails
  BY DEF IndInv, ClientInv, Base, NoAssertionFails
<1> QED  BY InvariantHolds, <1>1, PTL

(* FillWritePipeline keeps the write pipeline the beginning of the current *)
(* user's mutation queue: it skips no batch and takes none twice.          *)
THEOREM PipelineFollowsQueue == Spec => []PipelineIsQueuePrefix
<1>1. IndInv => PipelineIsQueuePrefix
  <2> SUFFICES ASSUME IndInv PROVE PipelineIsQueuePrefix
    BY Zenon
  <2> DEFINE p == client.pipe
             q == client.queue[client.user]
             k == Len(p)
  <2>1. p \in Seq(Batch) /\ q \in Seq(Batch) /\ PipePrefix(p, q)
    BY FieldTypes DEF IndInv, TypeOK, ClientInv, Base, PipeInv
  <2> USE <2>1
  <2>2. k \in Nat /\ Len(q) \in Nat /\ k <= Len(q) /\ \A i \in 1 .. k : p[i] = q[i]
    BY LenProperties DEF PipePrefix
  <2> HIDE DEF p, q
  <2> USE <2>2
  <2>3. p = SubSeq(q, 1, k)
    <3> DEFINE s == SubSeq(q, 1, k)
    <3>1. s \in Seq(Batch) /\ Len(s) = k /\ \A i \in 1 .. k : s[i] = q[i]
      <4> HIDE DEF k
      <4>1. \A i \in 1 .. k : i \in 1 .. Len(q)
        OBVIOUS
      <4> QED  BY <4>1
    <3> HIDE DEF s
    <3> QED  BY <3>1, SeqEqual
  <2> QED  BY <2>3 DEF PipelineIsQueuePrefix, p, q
<1> QED  BY InvariantHolds, <1>1, PTL

LEMMA ConcatIs ==
  ASSUME NEW f \in Seq(Nat), NEW t \in Seq(Nat), NEW s \in Seq(Nat),
         Len(f) + Len(t) = Len(s),
         \A i \in 1 .. Len(f) : f[i] = s[i],
         \A i \in 1 .. Len(t) : t[i] = s[Len(f) + i]
  PROVE  f \o t = s
<1> DEFINE m == Len(f)
           n == Len(t)
           r == f \o t
<1>1. m \in Nat /\ n \in Nat /\ m + n = Len(s)
  BY LenProperties
<1>2. /\ r \in Seq(Nat) /\ Len(r) = m + n
      /\ \A i \in 1 .. m + n : r[i] = IF i <= m THEN f[i] ELSE t[i - m]
  BY ConcatProperties
<1>3. (\A i \in 1 .. m : f[i] = s[i]) /\ (\A i \in 1 .. n : t[i] = s[m + i])
  OBVIOUS
<1> HIDE DEF m, n, r
<1> USE <1>1, <1>2
<1>4. ASSUME NEW i \in 1 .. Len(r) PROVE r[i] = s[i]
  <2>1. i \in 1 .. m + n
    OBVIOUS
  <2> USE <2>1
  <2>2. CASE i <= m
    <3>1. i \in 1 .. m
      BY <2>2
    <3> QED  BY <1>3, <2>2, <3>1, Zenon
  <2>3. CASE ~(i <= m)
    <3>1. i - m \in 1 .. n /\ m + (i - m) = i
      BY <2>3
    <3>2. r[i] = t[i - m] /\ t[i - m] = s[m + (i - m)]
      BY <1>3, <2>3, <3>1, Zenon
    <3> QED  BY <3>1, <3>2
  <2> QED  BY <2>2, <2>3
<1>5. Len(r) = Len(s)
  OBVIOUS
<1>6. r = s
  BY <1>4, <1>5, SeqEqual, Zenon
<1> QED  BY <1>6 DEF r

LEMMA PrefixIs ==
  ASSUME NEW f \in Seq(Nat), NEW s \in Seq(Nat), Len(f) <= Len(s),
         \A i \in 1 .. Len(f) : f[i] = s[i]
  PROVE  StartsWith(s, f)
<1> DEFINE m == Len(f)
           b == SubSeq(s, 1, m)
<1>1. m \in Nat /\ Len(s) \in Nat /\ m <= Len(s) /\ m = Len(f)
      /\ \A i \in 1 .. m : f[i] = s[i]
  BY LenProperties
<1> HIDE DEF m
<1>2. \A i \in 1 .. m : i \in 1 .. Len(s)
  BY <1>1
<1>3. b \in Seq(Nat) /\ Len(b) = m /\ \A i \in 1 .. m : b[i] = s[i]
  BY <1>1, <1>2
<1> HIDE DEF b
<1>4. f = b
  BY <1>1, <1>3, SeqEqual
<1>5. m \in 0 .. Len(s)
  BY <1>1
<1> QED  BY <1>4, <1>5 DEF StartsWith, b

(* On an open write stream the responses and requests in transit are, in   *)
(* order, the batches of the write pipeline, so that                       *)
(* OnWriteStreamMutationResult settles the batch a response belongs to.    *)
THEOREM ResponsesFollowPipeline == Spec => []ResponsesMatchPipeline
<1>1. IndInv => ResponsesMatchPipeline
  <2> SUFFICES ASSUME IndInv PROVE ResponsesMatchPipeline
    OBVIOUS
  <2> DEFINE c == client
             from == client.fromServer
             to == client.toServer
             w == Writes(client.pipe)
             h == <<Handshake>>
  <2>1. StreamInv(c) /\ WireInv(c)
        /\ from \in Seq(Nat) /\ to \in Seq(Nat) /\ c.pipe \in Seq(Batch)
    BY FieldTypes DEF IndInv, TypeOK, ClientInv, Base
  <2>2. w \in Seq(Nat) /\ Len(w) = Len(c.pipe)
        /\ \A i \in 1 .. Len(c.pipe) : w[i] = c.pipe[i].w
    BY <2>1, WritesAre
  <2>3. h \in Seq(Nat) /\ Len(h) = 1 /\ h[1] = Handshake
    BY DEF Handshake
  <2>4. ASSUME Answers(c.pipe, from) PROVE StartsWith(w, from)
    <3> DEFINE m == Len(from)
               n == Len(c.pipe)
    <3>1. /\ m \in Nat /\ n \in Nat /\ m <= n /\ Len(w) = n
          /\ \A i \in 1 .. m : from[i] = c.pipe[i].w
          /\ \A i \in 1 .. n : w[i] = c.pipe[i].w
      BY <2>1, <2>2, <2>4, LenProperties, Zenon DEF Answers
    <3> HIDE DEF m, n, w
    <3>2. \A i \in 1 .. m : from[i] = w[i]
      BY <3>1
    <3>3. Len(from) <= Len(w) /\ \A i \in 1 .. Len(from) : from[i] = w[i]
      BY <3>1, <3>2 DEF m
    <3> QED  BY <2>1, <2>2, <3>3, PrefixIs, Zenon
  <2>5. ASSUME Answers(c.pipe, from), Requests(c.pipe, from, to) PROVE from \o to = w
    <3> DEFINE m == Len(from)
               k == Len(to)
               n == Len(c.pipe)
    <3>1. /\ m \in Nat /\ n \in Nat /\ k \in Nat /\ m + k = n /\ Len(w) = n
          /\ \A i \in 1 .. m : from[i] = c.pipe[i].w
          /\ \A i \in 1 .. k : to[i] = c.pipe[m + i].w
          /\ \A i \in 1 .. n : w[i] = c.pipe[i].w
      BY <2>1, <2>2, <2>5, LenProperties, Zenon DEF Answers, Requests
    <3> HIDE DEF m, n, k, w
    <3>2. \A i \in 1 .. m : from[i] = w[i]
      BY <3>1
    <3>3. \A i \in 1 .. k : m + i \in 1 .. n
      BY <3>1
    <3>4. \A i \in 1 .. k : to[i] = w[m + i]
      BY <3>1, <3>3
    <3>5. m + k = Len(w)
      BY <3>1
    <3> QED  BY <2>1, <2>2, <3>2, <3>4, <3>5, ConcatIs, Zenon DEF m, k
  <2>6. ASSUME WireBefore(from, to, c.fin) PROVE StartsWith(h, from)
    <3>1. Len(from) \in Nat /\ Len(from) <= 1 /\ \A i \in 1 .. Len(from) : from[i] = Handshake
      BY <2>1, <2>6, LenProperties, Zenon DEF WireBefore
    <3> HIDE DEF from, h
    <3>2. \A i \in 1 .. Len(from) : i = 1
      BY <3>1
    <3> QED  BY <2>1, <2>3, <3>1, <3>2, PrefixIs, Zenon
  <2>7. ASSUME WireBefore(from, to, c.fin), c.fin # "unavailable" PROVE from \o to = h
    <3> DEFINE m == Len(from)
               k == Len(to)
    <3>1. /\ m \in Nat /\ k \in Nat /\ m + k = 1
          /\ \A i \in 1 .. m : from[i] = Handshake
          /\ \A i \in 1 .. k : to[i] = Handshake
      BY <2>1, <2>7, LenProperties, Zenon DEF WireBefore
    <3> HIDE DEF m, k, h
    <3>2. (\A i \in 1 .. m : i = 1) /\ (\A i \in 1 .. k : m + i = 1)
      BY <3>1
    <3>3. (\A i \in 1 .. m : from[i] = h[i]) /\ (\A i \in 1 .. k : to[i] = h[m + i])
          /\ m + k = Len(h)
      BY <2>3, <3>1, <3>2
    <3> QED  BY <2>1, <2>3, <3>3, ConcatIs, Zenon DEF m, k
  <2>8. ASSUME ~IsOpen(c.stream) PROVE from \o to = <<>> /\ c.fin = "none"
    <3>1. from = <<>> /\ to = <<>> /\ c.fin = "none"
      BY <2>1, <2>8 DEF StreamInv
    <3> QED  BY <3>1, ConcatEmptySeq, EmptySeq
  <2> HIDE DEF from, to, w, h
  <2>9. IsOpen(c.stream) =>
          IF c.handshake
          THEN Answers(c.pipe, from)
               /\ (c.fin # "unavailable" => Requests(c.pipe, from, to))
          ELSE WireBefore(from, to, c.fin)
    BY <2>1 DEF WireInv, from, to
  <2>10. ASSUME IsOpen(c.stream)
         PROVE  LET sent == IF c.handshake THEN w ELSE h
                IN  IF c.fin = "unavailable" THEN StartsWith(sent, from) ELSE from \o to = sent
    <3>1. CASE c.handshake
      BY <2>4, <2>5, <2>9, <2>10, <3>1, Zenon
    <3>2. CASE ~c.handshake
      BY <2>6, <2>7, <2>9, <2>10, <3>2, Zenon
    <3> QED  BY <3>1, <3>2
  <2> QED  BY <2>8, <2>10, Zenon DEF ResponsesMatchPipeline, from, to, w, h
<1> QED  BY InvariantHolds, <1>1, PTL
=============================================================================
