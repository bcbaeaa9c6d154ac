------------------------------ MODULE TaskQueue ------------------------------
(****************************************************************************)
(* What the dispatcher promises to the rest of the server: accepted tasks   *)
(* are taken in the order in which they were accepted, each exactly once,   *)
(* and one at a time.  The task that shuts the server down is the only one  *)
(* during which others may still be taken.                                  *)
(****************************************************************************)
EXTENDS Sequences

CONSTANTS Task, Timed, ShutdownTask

VARIABLES pending,  \* the accepted tasks that nobody took yet, oldest first
          status    \* per task: what became of it

tq_vars == <<pending, status>>

TQInit ==
  /\ pending = <<>>
  /\ status = [t \in Task |-> "new"]

Accept(t) ==
  /\ status[t] = "new"
  /\ pending' = Append(pending, t)
  /\ status' = [status EXCEPT ![t] = "queued"]

Refuse(t) ==
  /\ status[t] = "new"
  /\ status' = [status EXCEPT ![t] = "refused"]
  /\ UNCHANGED pending

\* No other task is under way.
Take(t) ==
  /\ pending # <<>>
  /\ t = Head(pending)
  /\ \A u \in Task : status[u] = "taken" => u = ShutdownTask
  /\ pending' = Tail(pending)
  /\ status' = [status EXCEPT ![t] = "taken"]

Finish(t) ==
  /\ status[t] = "taken"
  /\ status' = [status EXCEPT ![t] = "executed"]
  /\ UNCHANGED pending

Drop(t) ==
  /\ t \in Timed
  /\ status[t] = "taken"
  /\ status' = [status EXCEPT ![t] = "expired"]
  /\ UNCHANGED pending

TQNext ==
  \E t \in Task : Accept(t) \/ Refuse(t) \/ Take(t) \/ Finish(t) \/ Drop(t)

TQSpec == TQInit /\ [][TQNext]_tq_vars
=============================================================================
