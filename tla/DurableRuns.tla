----------------------------- MODULE DurableRuns -----------------------------
(***************************************************************************)
(* What checkpointing promises of agent runs                               *)
(* (docs/concepts/architecture.md, "Checkpoint System"): a run that was    *)
(* recorded stays recorded, under the name of one replica, until it is     *)
(* over; its keeper changes only when that replica has died; and it will   *)
(* be over, because someone takes it up again.                             *)
(***************************************************************************)
CONSTANTS Replica, Run, None

VARIABLES
  alive,   \* the replicas that run
  phase,   \* accepted, recorded, over
  keeper   \* the replica in charge of a recorded run

vars == <<alive, phase, keeper>>

Init ==
  /\ alive = {}
  /\ phase = [r \in Run |-> "accepted"]
  /\ keeper = [r \in Run |-> None]

Join(p) ==
  /\ p \notin alive
  /\ alive' = alive \cup {p}
  /\ UNCHANGED <<phase, keeper>>

Leave(p) ==
  /\ p \in alive
  /\ alive' = alive \ {p}
  /\ UNCHANGED <<phase, keeper>>

Record(r, p) ==
  /\ phase[r] = "accepted"
  /\ p \in alive
  /\ phase' = [phase EXCEPT ![r] = "recorded"]
  /\ keeper' = [keeper EXCEPT ![r] = p]
  /\ UNCHANGED alive

Adopt(r, p) ==
  /\ phase[r] = "recorded"
  /\ keeper[r] \notin alive
  /\ p \in alive
  /\ keeper' = [keeper EXCEPT ![r] = p]
  /\ UNCHANGED <<alive, phase>>

(* The run was executed to its end, or its user cancelled it.              *)
Conclude(r) ==
  /\ phase[r] # "over"
  /\ phase' = [phase EXCEPT ![r] = "over"]
  /\ keeper' = [keeper EXCEPT ![r] = None]
  /\ UNCHANGED alive

Next ==
  \/ \E p \in Replica : Join(p) \/ Leave(p)
  \/ \E r \in Run, p \in Replica : Record(r, p) \/ Adopt(r, p)
  \/ \E r \in Run : Conclude(r)

Spec == Init /\ [][Next]_vars

FairSpec == Spec /\ \A r \in Run : WF_vars(phase[r] = "recorded" /\ Conclude(r))
=============================================================================
