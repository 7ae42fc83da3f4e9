--------------------------- MODULE ProviderReload ---------------------------
(* The provider registry (registry.py) and the watcher that reloads it when   *)
(* the configuration file changes (watcher.py).                               *)
(*                                                                            *)
(* A configuration is a number, and Nothing is what Settings.load makes of a  *)
(* file that is absent or empty: the defaults.  A generation is the set of    *)
(* providers that one reload has built; those of generation g were built from *)
(* the configuration built[g].                                                *)
(*                                                                            *)
(* Operators named Bug... are variants with a plausible mistake in them.      *)
EXTENDS Naturals, Sequences, FiniteSets

CONSTANTS
  Primitives,      \* the primitives, each with one provider
  Calls,           \* calls of providers that may be in flight at once
  MaxConfigs       \* bound: configurations, the first one included

ASSUME ProviderReloadAssumption ==
  /\ IsFiniteSet(Primitives) /\ Primitives # {}
  /\ MaxConfigs \in Nat \ {0}

Nothing == 0
Configs == 1 .. MaxConfigs

VARIABLES
  file,            \* what the file holds, and its stamp (mtime and inode)
  broken,          \* the configurations whose providers cannot be built
  watcher,         \* where the polling task is, the stamp it remembers, the providers it has yet to close, and whether the last reload failed
  providers,       \* [Primitives -> generation]: what the registry hands out
  built,           \* the configurations of the generations
  closed,          \* the providers that have been closed
  inUse            \* [Calls -> the provider that a call in flight uses]

reloadVars == <<file, broken, watcher, providers, built, closed, inUse>>

Unused == <<>>
InService == {<<p, providers[p]>> : p \in Primitives}
Serves(p) == built[providers[p]]

(*********************************** The file ******************************)
(* Every change has a stamp of its own.  A change is unseen when the watcher  *)
(* had not looked at the file before: it takes the new stamp for the old one. *)
ChangeFile == \E c \in (Configs \union {Nothing}) \ {file.content} :
  /\ file' = [content |-> c, stamp |-> file.stamp + 1, unseen |-> watcher.at \in {"off", "starting"}]
  /\ UNCHANGED <<broken, watcher, providers, built, closed, inUse>>

(********************************* The watcher *****************************)
At(at) == watcher' = [watcher EXCEPT !.at = at]

StartWatcher ==
  /\ At("starting")
  /\ UNCHANGED <<file, broken, providers, built, closed, inUse>>

(* The polling task takes the stamp it finds for that of what is in service.  *)
FirstLook ==
  /\ watcher.at = "starting"
  /\ watcher' = [watcher EXCEPT !.at = "sleeping", !.stamp = file.stamp]
  /\ UNCHANGED <<file, broken, providers, built, closed, inUse>>

(* There is no way back from a reload that has failed.                        *)
BugPoll ==
  /\ watcher.at = "sleeping" /\ watcher.stamp # file.stamp /\ ~watcher.failed
  /\ watcher' = [watcher EXCEPT !.at = "loading", !.stamp = file.stamp]
  /\ UNCHANGED <<file, broken, providers, built, closed, inUse>>

(* A poll that finds another stamp keeps it, whatever comes of the reload.    *)
Poll ==
  /\ watcher.at = "sleeping" /\ watcher.stamp # file.stamp
  /\ watcher' = [watcher EXCEPT !.at = "loading", !.stamp = file.stamp]
  /\ UNCHANGED <<file, broken, providers, built, closed, inUse>>

(* The registry is filled again in place, primitive by primitive.             *)
BugReloadFails ==
  /\ watcher.at = "loading" /\ file.content \in broken \union {Nothing}
  /\ watcher' = [watcher EXCEPT !.at = "sleeping", !.failed = TRUE]
  /\ built' = Append(built, file.content)
  /\ \E done \in SUBSET Primitives :
       providers' = [p \in Primitives |-> IF p \in done THEN Len(built) + 1 ELSE providers[p]]
  /\ UNCHANGED <<file, broken, closed, inUse>>

(* Nobody hears of the failure.                                               *)
BugReloadFailsSilently ==
  /\ watcher.at = "loading" /\ file.content \in broken \union {Nothing}
  /\ watcher' = [watcher EXCEPT !.at = "sleeping"]
  /\ UNCHANGED <<file, broken, providers, built, closed, inUse>>

(* A configuration that cannot be loaded or built: what is in service stays.  *)
(* A file that goes away while it is opened counts as one.                    *)
ReloadFails ==
  /\ watcher.at = "loading" /\ file.content \in broken \union {Nothing}
  /\ watcher' = [watcher EXCEPT !.at = "sleeping", !.failed = TRUE]
  /\ UNCHANGED <<file, broken, providers, built, closed, inUse>>

(* The old providers are closed before the new ones take their place.         *)
BugSwap ==
  /\ watcher.at = "loading" /\ file.content \notin broken
  /\ watcher' = [watcher EXCEPT !.at = "closing", !.left = InService]
  /\ built' = Append(built, file.content)
  /\ UNCHANGED <<file, broken, providers, closed, inUse>>

(* Everything is built, then swapped in one assignment.                       *)
Swap ==
  /\ watcher.at = "loading" /\ file.content \notin broken
  /\ built' = Append(built, file.content)
  /\ providers' = [p \in Primitives |-> Len(built) + 1]
  /\ watcher' = [watcher EXCEPT !.at = "closing", !.left = InService]
  /\ UNCHANGED <<file, broken, closed, inUse>>

(* The old providers are closed one by one, while requests run.               *)
CloseOld == \E i \in watcher.left :
  /\ watcher.at = "closing"
  /\ watcher' = [watcher EXCEPT !.left = @ \ {i}]
  /\ closed' = closed \union {i}
  /\ UNCHANGED <<file, broken, providers, built, inUse>>

ReloadDone ==
  /\ watcher.at = "closing" /\ watcher.left = {}
  /\ watcher' = [watcher EXCEPT !.at = "sleeping", !.failed = FALSE]
  /\ UNCHANGED <<file, broken, providers, built, closed, inUse>>

(* stop(): the task is cancelled where it waits, the closing included.        *)
StopWatcher ==
  /\ watcher.at # "loading"
  /\ At("off")
  /\ UNCHANGED <<file, broken, providers, built, closed, inUse>>

(*********************************** Requests ******************************)
(* A request takes a provider from the registry and calls it; the provider    *)
(* may be closed under it before the call returns.                            *)
BeginCall(c) == \E p \in Primitives :
  /\ inUse[c] = Unused
  /\ inUse' = [inUse EXCEPT ![c] = <<p, providers[p]>>]
  /\ UNCHANGED <<file, broken, watcher, providers, built, closed>>

EndCall(c) ==
  /\ inUse[c] # Unused
  /\ inUse' = [inUse EXCEPT ![c] = Unused]
  /\ UNCHANGED <<file, broken, watcher, providers, built, closed>>

(* The process has read a good configuration when it was imported, and the    *)
(* registry was built from it.  What matters in a reload only is chosen for   *)
(* those who reload.                                                          *)
ReloadInit(reloads) ==
  /\ file = [content |-> 1, stamp |-> 1, unseen |-> FALSE]
  /\ broken \in IF reloads THEN SUBSET (Configs \ {1}) ELSE {{}}
  /\ watcher = [at |-> "off", stamp |-> 0, left |-> {}, failed |-> FALSE]
  /\ built = <<1>>
  /\ providers = [p \in Primitives |-> 1]
  /\ closed = {}
  /\ inUse = [c \in Calls |-> Unused]

(******************************** Properties *******************************)
ReloadTypeOK ==
  /\ file \in [content : Configs \union {Nothing}, stamp : Nat, unseen : BOOLEAN]
  /\ broken \subseteq Configs
  /\ watcher \in [at : {"off", "starting", "sleeping", "loading", "closing"}, stamp : Nat,
                  left : SUBSET (Primitives \X (1 .. Len(built))), failed : BOOLEAN]
  /\ built \in Seq(Configs \union {Nothing})
  /\ providers \in [Primitives -> 1 .. Len(built)]
  /\ closed \subseteq Primitives \X (1 .. Len(built))
  /\ inUse \in [Calls -> (Primitives \X (1 .. Len(built))) \union {Unused}]

(* What the registry hands out has not been closed, although the close() of   *)
(* old providers gives way to requests.                                       *)
ServedProvidersAreOpen == InService \intersect closed = {}

(* All providers come from one configuration, one that could be built: a      *)
(* reload that fails half-way changes nothing (registry.py:121).              *)
OneConfigInService == \A p, q \in Primitives :
  Serves(p) = Serves(q) /\ Serves(p) \notin broken

(* A gateway whose last reload did not fail (what /readyz reports) and whose  *)
(* watcher has nothing left to notice serves what the file says.              *)
ReadyServesTheFile ==
  watcher.at = "sleeping" /\ watcher.stamp = file.stamp /\ ~watcher.failed /\ ~file.unseen
    => \A p \in Primitives : Serves(p) = file.content
=============================================================================
