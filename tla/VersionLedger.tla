--------------------------- MODULE VersionLedger ---------------------------
(* What the versions of a spec promise their owner, whatever is stored where: *)
(* the lifecycle of docs/concepts/agent-versioning.md ("Version lifecycle"),  *)
(* by Make, Propose, Approve, Reject and Deploy.  A version is drafted or     *)
(* deployed when it is made, a draft is proposed, a proposal is approved or   *)
(* rejected, one version of an identity serves at a time, and the one it      *)
(* replaces is archived.  While the gate is on nothing is deployed later than *)
(* its making that was not proposed and approved.                             *)
(*                                                                            *)
(* The document calls rejected terminal and archived what has been deployed,  *)
(* and models/agents.py:174 calls both terminal.  The store departs from that *)
(* in three ways, each of which has a name here: while the gate is off,       *)
(* deploy_version accepts every status (Revive); retention archives proposed  *)
(* and rejected versions (TooMany); and so does a deletion (RetireAll).       *)
EXTENDS Naturals

CONSTANTS Versions,     \* every version that is ever made
          Nobody        \* the home of a version that is not made yet

VARIABLES status,       \* [Versions -> status], "none" before it is made
          home,         \* [Versions -> the identity it belongs to]
          approved,     \* the versions an administrator has approved
          gate          \* is the approval gate on?

ledger == <<status, home, approved, gate>>

Live(v) == status[v] \notin {"none", "archived"}

(* One version of an identity serves at a time.                               *)
Init ==
  /\ \A v \in Versions : status[v] = "none" <=> home[v] = Nobody
  /\ \A v, w \in Versions : v # w /\ status[v] = "deployed" /\ status[w] = "deployed"
                              => home[v] # home[w]
  /\ approved = {}
  /\ gate \in BOOLEAN

(* S are put away; a version that is deployed takes the place of the others.  *)
Retire(S, f) == [v \in Versions |-> IF v \in S THEN "archived" ELSE f[v]]
Rivals(v, i) == {w \in Versions \ {v} : home[w] = i /\ status[w] = "deployed"}

(* What retention may put away when a version is made.                        *)
TooMany(i) == {w \in Versions : home[w] = i /\ status[w] \in {"proposed", "rejected"}}

Make == \E v \in Versions, i \in {home'[w] : w \in Versions}, s \in {"draft", "deployed"} :
  /\ status[v] = "none"
  /\ home' = [home EXCEPT ![v] = i]
  /\ \E S \in SUBSET TooMany(i) :
       status' = Retire(S \union (IF s = "deployed" THEN Rivals(v, i) ELSE {}),
                        [status EXCEPT ![v] = s])
  /\ UNCHANGED <<approved, gate>>

Propose == \E v \in Versions :
  /\ status[v] = "draft"
  /\ status' = [status EXCEPT ![v] = "proposed"]
  /\ UNCHANGED <<home, approved, gate>>

Approve == \E v \in Versions :
  /\ status[v] = "proposed"
  /\ approved' = approved \union {v}
  /\ UNCHANGED <<status, home, gate>>

Reject == \E v \in Versions :
  /\ status[v] = "proposed"
  /\ status' = [status EXCEPT ![v] = "rejected"]
  /\ UNCHANGED <<home, approved, gate>>

Deploy == \E v \in Versions :
  /\ status[v] \in {"draft", "proposed"}
  /\ gate => status[v] = "proposed" /\ v \in approved
  /\ status' = Retire(Rivals(v, home[v]), [status EXCEPT ![v] = "deployed"])
  /\ UNCHANGED <<home, approved, gate>>

(* What was over begins to serve.                                             *)
Revive == \E v \in Versions :
  /\ status[v] \in {"archived", "rejected"} /\ ~gate
  /\ status' = Retire(Rivals(v, home[v]), [status EXCEPT ![v] = "deployed"])
  /\ UNCHANGED <<home, approved, gate>>

RetireAll == \E v \in Versions :
  /\ Live(v)
  /\ status' = Retire({w \in Versions : home[w] = home[v] /\ status[w] # "none"}, status)
  /\ UNCHANGED <<home, approved, gate>>

Next == Make \/ Propose \/ Approve \/ Reject \/ Deploy \/ Revive \/ RetireAll

Spec == Init /\ [][Next]_ledger
=============================================================================
