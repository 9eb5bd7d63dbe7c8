---------------------------- MODULE MCMqttSession ----------------------------
(* MqttSession with the sets and the symmetry TLC needs.                   *)
EXTENDS MqttSession, TLC

\* Clients and blocks are interchangeable; used by the safety runs only.
Symmetry == Permutations(Client) \cup Permutations(Block)

==============================================================================
