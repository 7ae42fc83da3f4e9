---------------------------- MODULE PolicyRefresh ----------------------------
(* The Cedar enforcer (enforcement/cedar.py): its policies are those of one   *)
(* engine, read through the policy provider that the registry hands out, once *)
(* at start-up and then in a loop.  The text of policies is left out: a state *)
(* of the engine is the number of its changes, and 0 an engine without        *)
(* policies, with which every request is denied.  The provider is asked for   *)
(* one page of at most 100 policies, and those without a text are left out: a *)
(* change shows in this page or it does not.                                  *)
(*                                                                            *)
(* Operators named Bug... are variants with a plausible mistake in them.      *)
EXTENDS ProviderReload

CONSTANT PolicyPrimitive       \* the primitive that holds the policies

ASSUME PolicyRefreshAssumption == PolicyPrimitive \in Primitives

VARIABLES
  kept,            \* does the policy provider keep its engines when it is built anew?
  policies,        \* the state of the engine, with each holder that has seen a change
  enforcer         \* what the refresh loop does, through which generation, what is enforced and what was last reported

policyVars == <<kept, policies, enforcer>>

Engine(changes, page) == [changes |-> changes, page |-> page]
NoPolicies == Engine(0, 0)

(* Who holds the policies that generation g hands out: a service, or the      *)
(* in-memory provider itself, which is also the default one.                  *)
Service == 0
Holder(g) == IF kept /\ built[g] # Nothing THEN Service ELSE g
HeldBy(h) == IF h \in DOMAIN policies THEN policies[h] ELSE NoPolicies
(* list_policies, of which the first page is read, and the policies with a    *)
(* text are taken: the last change that shows in them.                        *)
Sees(g) == HeldBy(Holder(g)).page
CurrentProvider == providers[PolicyPrimitive]

(* create_policy, update_policy and delete_policy of the policy API, of a     *)
(* policy that is read or of one that is not.                                 *)
Change(shows) == LET here == Holder(CurrentProvider) n == HeldBy(here).changes + 1 IN
  /\ policies' = [h \in DOMAIN policies \union {here} |->
                    IF h # here THEN policies[h]
                    ELSE Engine(n, IF shows THEN n ELSE HeldBy(here).page)]
  /\ UNCHANGED <<kept, enforcer>>
ChangePolicies == \E shows \in BOOLEAN : Change(shows)

(* ensure_engine finds or creates the engine, and main.py seeds it.           *)
Provision == Change(TRUE)

(* load_policies: the provider is asked, and after its answer the new set     *)
(* takes the place of the old one.  News reports a set that has changed.      *)
BeginRefresh(from) ==
  /\ enforcer.at = from
  /\ enforcer' = [enforcer EXCEPT !.at = "fetching", !.via = CurrentProvider]
  /\ UNCHANGED <<kept, policies>>

News == enforcer.reported # {Sees(enforcer.via)}
Refreshed ==
  /\ enforcer.at = "fetching"
  /\ enforcer' = [enforcer EXCEPT !.at = "sleeping", !.enforced = Sees(enforcer.via),
                                  !.reported = {Sees(enforcer.via)}]
  /\ UNCHANGED <<kept, policies>>

(* The error ends the loop.                                                   *)
BugRefreshFails ==
  /\ enforcer.at = "fetching"
  /\ enforcer' = [enforcer EXCEPT !.at = "closed"]
  /\ UNCHANGED <<kept, policies>>

(* An error is caught, the policies stay, and the loop goes on.               *)
RefreshFails ==
  /\ enforcer.at = "fetching"
  /\ enforcer' = [enforcer EXCEPT !.at = "sleeping"]
  /\ UNCHANGED <<kept, policies>>

CloseEnforcer ==
  /\ enforcer' = [enforcer EXCEPT !.at = "closed"]
  /\ UNCHANGED <<kept, policies>>

PolicyInit(reloads) ==
  /\ kept \in IF reloads THEN BOOLEAN ELSE {TRUE}
  /\ policies = [h \in {} |-> NoPolicies]
  /\ enforcer = [at |-> "new", via |-> 1, enforced |-> 0, reported |-> {}]

(******************************** Properties *******************************)
PolicyTypeOK ==
  /\ kept \in BOOLEAN
  /\ \A h \in DOMAIN policies : h \in 0 .. Len(built) /\ policies[h] \in [changes : Nat, page : Nat]
  /\ enforcer \in [at : {"new", "fetching", "sleeping", "closed"}, via : 1 .. Len(built),
                   enforced : Nat, reported : SUBSET Nat]
=============================================================================
