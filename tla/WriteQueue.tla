----------------------------- MODULE WriteQueue -----------------------------
(***************************************************************************)
(* What the write path promises: each user's writes form a FIFO queue.     *)
(* The backend may process a write more than once, but it processes no     *)
(* write before all earlier writes of the same user, and the client        *)
(* settles a user's writes in order, each after the backend processed it.  *)
(* A committed write may be rejected: its response may not reach the       *)
(* client.                                                                 *)
(***************************************************************************)
EXTENDS Integers, Sequences, Functions

CONSTANT Users

VARIABLES owner,    \* owner[w] is the user who issued write w
          queue,    \* per user, the writes that are not settled
          outcome,  \* outcome[w] is "pending", "acked" or "rejected"
          log,      \* the writes the backend committed, in order
          refused   \* the writes the backend refused

vars == <<owner, queue, outcome, log, refused>>

Processed == Range(log) \cup refused

Init ==
    /\ owner = <<>> /\ outcome = <<>> /\ log = <<>> /\ refused = {}
    /\ queue = [u \in Users |-> <<>>]

Submit(u) ==
    /\ owner' = Append(owner, u)
    /\ outcome' = Append(outcome, "pending")
    /\ queue' = [queue EXCEPT ![u] = Append(@, Len(owner) + 1)]
    /\ UNCHANGED <<log, refused>>

InOrder(w) ==
    /\ w \in DOMAIN owner
    /\ \A v \in 1 .. w - 1 : owner[v] = owner[w] => v \in Processed

Commit(w) ==
    /\ InOrder(w)
    /\ log' = Append(log, w)
    /\ UNCHANGED <<owner, queue, outcome, refused>>

Refuse(w) ==
    /\ InOrder(w)
    /\ refused' = refused \cup {w}
    /\ UNCHANGED <<owner, queue, outcome, log>>

Settle(u) ==
    /\ queue[u] # <<>>
    /\ LET w == Head(queue[u])
       IN  \/ w \in Range(log) /\ outcome' = [outcome EXCEPT ![w] = "acked"]
           \/ w \in Processed /\ outcome' = [outcome EXCEPT ![w] = "rejected"]
    /\ queue' = [queue EXCEPT ![u] = Tail(@)]
    /\ UNCHANGED <<owner, log, refused>>

Next ==
    \/ \E u \in Users : Submit(u) \/ Settle(u)
    \/ \E w \in DOMAIN owner : Commit(w) \/ Refuse(w)

Spec == Init /\ [][Next]_vars
=============================================================================
