-------------------------- MODULE MCKlipperInstance --------------------------
(* Instances of KlipperInstance for TLC: symmetry and state constraints. *)
EXTENDS KlipperInstance, TLC

IdSymmetry == Permutations(Ids)

\* Every property of these runs is vacuous in a state that is not calm, and
\* calm never comes back: such states are not explored further.
Calm == calm

\* With a reload: the boot comes before the screen, the camera is off, at most
\* one profile is started before the first reload.
CalmReload ==
    /\ calm /\ ~camPref /\ Len(queue) <= 3
    /\ uiStarted => pc["io"] # "boot"
    /\ gen <= 1 => Cardinality({o \in Obj : binds[o] > 0}) <= 1

\* For the liveness run, where a constraint must not cut a behaviour that could
\* refute the property: a state outside it satisfies the right-hand side, and the
\* preference is constant.
CalmSettle == calm /\ ~camPref
=============================================================================
