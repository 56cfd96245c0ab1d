---------------------------- MODULE MCTunnelBroker ----------------------------
(* Instances of the broker small enough to explore exhaustively. *)
EXTENDS BrokerDelivery, TLC

Symmetry == Permutations(Tunnels) \cup Permutations(Messages) \cup Permutations(Agents)
            \cup Permutations(Deletes)
=============================================================================
