-------------------------- MODULE MCSessionRegistry --------------------------
(***************************************************************************)
(* Model-checking instances of SessionRegistry.                            *)
(***************************************************************************)
EXTENDS SessionRegistry, TLC

\* Connections, uids, configs and tool lists are interchangeable in every safety
\* property: the specification only compares them.
Symmetry ==
    Permutations(Conn) \cup Permutations(Uid) \cup Permutations(Config)
        \cup Permutations(PublicTools)
=============================================================================
