----------------------------- MODULE WorkQueue -----------------------------
(***************************************************************************)
(* What a team makes of its task board: a queue of work.  A task is taken  *)
(* by one worker at a time, its result is recorded once, by the worker     *)
(* that holds it, and is final; work that was interrupted goes back to the *)
(* queue.  The queue is closed for the synthesis.                          *)
(***************************************************************************)
CONSTANTS Task, Worker, Nobody

VARIABLES
  state,    \* none, todo, doing, done, failed
  holder,   \* who does it
  closed    \* the synthesis has begun, or the run was given up

vars == <<state, holder, closed>>

Init ==
  /\ state = [t \in Task |-> "none"]
  /\ holder = [t \in Task |-> Nobody]
  /\ closed = FALSE

Set(t, s, w) ==
  /\ state' = [state EXCEPT ![t] = s]
  /\ holder' = [holder EXCEPT ![t] = w]
  /\ UNCHANGED closed

Add(t) == state[t] = "none" /\ ~closed /\ Set(t, "todo", Nobody)

Take(t, w) == state[t] = "todo" /\ ~closed /\ Set(t, "doing", w)

Settle(t, s) == state[t] = "doing" /\ ~closed /\ Set(t, s, Nobody)

GiveBack(t) == state[t] = "doing" /\ ~closed /\ Set(t, "todo", Nobody)

Close == ~closed /\ closed' = TRUE /\ UNCHANGED <<state, holder>>

(* The run is resumed after all.                                           *)
Reopen == closed /\ closed' = FALSE /\ UNCHANGED <<state, holder>>

Next ==
  \/ \E t \in Task :
       Add(t) \/ GiveBack(t) \/ (\E w \in Worker : Take(t, w))
       \/ (\E s \in {"done", "failed"} : Settle(t, s))
  \/ Close \/ Reopen

Spec == Init /\ [][Next]_vars
=============================================================================
