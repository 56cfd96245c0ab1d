---------------------------- MODULE MCRegistryView ----------------------------
(* Queries against a broker that carries no pushes. *)
EXTENDS RegistryView, TLC

ViewSymmetry == Permutations(Tunnels) \cup Permutations(Agents) \cup Permutations(Deletes)
=============================================================================
