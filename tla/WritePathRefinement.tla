------------------------ MODULE WritePathRefinement ------------------------
(***************************************************************************)
(* The write path implements the queue of module WriteQueue: forget how a  *)
(* write travels, keep which writes are pending and what became of them.   *)
(***************************************************************************)
EXTENDS WritePath

Abstract == INSTANCE WriteQueue
                WITH owner <- client.app.owner, outcome <- client.app.outcome,
                     queue <- [u \in Users |-> Writes(client.queue[u])]

(* For each user the backend first processes and the client settles writes *)
(* in the order in which SyncEngine::WriteMutations accepted them, and the *)
(* client acknowledges only committed and rejects only processed writes:   *)
(* across stream failures, lost responses, network switches, user changes  *)
(* and restarts.                                                           *)
ImplementsWriteQueue == Abstract!Spec
=============================================================================
