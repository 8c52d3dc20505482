---------------------------- MODULE MCOnboarding -----------------------------
(* Two databases, one upstream, two sets of policies, a few calls.          *)
EXTENDS Onboarding, TLC

Symmetry == Permutations(Calls)
==============================================================================
