----------------------- MODULE MCCheckpointRecovery -----------------------
(* Small fleets for TLC.                                                   *)
EXTENDS CheckpointRecovery, TLC

CONSTANTS r1, r2, r3, s1, s2, s3

(* Every replica of a fleet of two scans.                                  *)
HostOfTwo == s1 :> r1 @@ s2 :> r2

(* Two replicas compete for the runs of a third.                           *)
HostOfThree == s2 :> r2 @@ s3 :> r3

(* The replicas of a fleet of two may change places, with their scanners.  *)
PairSymmetry ==
  {f \in Permutations({r1, r2, s1, s2}) :
     /\ {f[r1], f[r2]} = {r1, r2}
     /\ \A s \in {s1, s2} : HostOfTwo[f[s]] = f[HostOfTwo[s]]}
=============================================================================
