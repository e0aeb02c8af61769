--------------------------- MODULE MCMoonrakerPort ---------------------------
(* Instances of MoonrakerPort for TLC. *)
EXTENDS MoonrakerPort, TLC

ProfileSymmetry == Permutations(Profiles)

\* Every profile was created before the first one is bound, nobody is killed,
\* and no measurable time passes: no lock is old, no deadline is near.
NoDelay == rows = Profiles /\ lockAge = 0 /\ \A p \in Profiles : waited[p] = 0
=============================================================================
