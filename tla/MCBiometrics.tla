----------------------------- MODULE MCBiometrics -----------------------------
(* A small instance of Biometrics for TLC: one member and one finger, which   *)
(* e1 enrols by the agent and e2 by a reader of the browser.                  *)
EXTENDS Biometrics, TLC

CONSTANTS a1, e1, e2, i1, m1

MCTokens == {e1, i1}

MCAgentOf == [t \in MCTokens |-> a1]

MCMemberOf == [e \in {e1, e2} |-> m1]

MCFingerOf == [e \in {e1, e2} |-> 1]

MCSubjects == {m1, e1, e2, i1}

Symmetry == Permutations(Calls)
=============================================================================
