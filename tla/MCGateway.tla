----------------------------- MODULE MCGateway -----------------------------
EXTENDS Gateway
Nowhere == [parts |-> {}, calls |-> 0, refreshes |-> 0, files |-> 0, policies |-> 0,
            failures |-> 0, faults |-> 0]

(* Several events and a sink that fails or hangs; calls while the             *)
(* configuration changes; policies and a configuration that change, and a     *)
(* refresh that fails; every part at once.                                    *)
Scenarios1 ==
  {[Nowhere EXCEPT !.parts = {"audit"}, !.calls = 3],
   [Nowhere EXCEPT !.parts = {"audit"}, !.calls = 2, !.faults = 1],
   [Nowhere EXCEPT !.parts = {"watcher"}, !.calls = 2, !.files = 2],
   [Nowhere EXCEPT !.parts = {"watcher", "enforcer"}, !.files = 2, !.policies = 1, !.failures = 1],
   [Nowhere EXCEPT !.parts = {"audit", "watcher"}, !.files = 1],
   [Nowhere EXCEPT !.parts = {"audit", "enforcer"}, !.refreshes = 1],
   [Nowhere EXCEPT !.parts = {"audit", "watcher", "enforcer"}]}

OneCall == {[Nowhere EXCEPT !.parts = {"audit"}, !.calls = 1]}
=============================================================================
