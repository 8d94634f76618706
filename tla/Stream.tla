------------------------------- MODULE Stream -------------------------------
(***************************************************************************)
(* The state machine shared by the watch stream and the write stream       *)
(* (remote/stream.cc).  A stream is a record; every operator below is one  *)
(* method of class Stream and returns the stream the method leaves behind. *)
(* The calls a method makes on its subclass (NotifyStreamOpen,             *)
(* NotifyStreamClose, ...) are added by the modules that use a stream.     *)
(*                                                                         *)
(* How long a timer waits is not modelled: a scheduled timer may fire at   *)
(* any later moment, and one that was cancelled never fires.               *)
(***************************************************************************)
EXTENDS Naturals

StreamState == {"Initial", "Starting", "Open", "Healthy", "Error", "Backoff"}

(***************************************************************************)
(* state  is state_, closes is close_count_; backoff, idle and health tell *)
(* whether the timers backoff_, idleness_timer_ and health_check_ are      *)
(* scheduled; creds holds, for each credentials request that was not       *)
(* answered yet, the value of close_count_ the request captured.           *)
(***************************************************************************)
StreamType == [state   : StreamState,
               closes  : Nat,
               creds   : SUBSET Nat,
               backoff : BOOLEAN,
               idle    : BOOLEAN,
               health  : BOOLEAN]

NewStream == [state |-> "Initial", closes |-> 0, creds |-> {},
              backoff |-> FALSE, idle |-> FALSE, health |-> FALSE]

IsOpen(s) == s.state \in {"Open", "Healthy"}

IsStarted(s) == s.state \in {"Starting", "Backoff"} \/ IsOpen(s)

RequestCredentials(s) == [s EXCEPT !.creds = @ \cup {s.closes}]

BackoffAndTryRestarting(s) == [s EXCEPT !.state = "Backoff", !.backoff = TRUE]

(* HARD_ASSERT: Start is called in state Initial or Error only. *)
CanStart(s) == s.state \in {"Initial", "Error"}

Start(s) ==
    IF s.state = "Error"
    THEN BackoffAndTryRestarting(s)
    ELSE RequestCredentials([s EXCEPT !.state = "Starting"])

(* The callback of the backoff timer. *)
BackoffElapsed(s) == Start([s EXCEPT !.state = "Initial", !.backoff = FALSE])

(* Credentials captured before the last Close are not used. *)
CredentialsCurrent(s, n) == n = s.closes

OnStreamStart(s) == [s EXCEPT !.state = "Open", !.health = TRUE]

(* The callback of the health check timer. *)
HealthCheck(s) ==
    [s EXCEPT !.health = FALSE, !.state = IF IsOpen(s) THEN "Healthy" ELSE @]

InhibitBackoff(s) == [s EXCEPT !.state = "Initial"]

MarkIdle(s) == [s EXCEPT !.idle = @ \/ IsOpen(s)]

CancelIdleCheck(s) == [s EXCEPT !.idle = FALSE]

(* Steps 2, 3 and 7 of Close; graceful is status.ok(). *)
Close(s, graceful) ==
    [s EXCEPT !.idle = FALSE, !.backoff = FALSE, !.health = FALSE,
              !.closes = @ + 1,
              !.state = IF graceful THEN "Initial" ELSE "Error"]
=============================================================================
