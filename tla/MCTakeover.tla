----------------------------- MODULE MCTakeover -----------------------------
(***************************************************************************)
(* An instance of Takeover.  Connections are interchangeable, and so are   *)
(* compressors: the properties name none of them.                          *)
(***************************************************************************)
EXTENDS Takeover

MCConfigs == {[takeover |-> TRUE, shared |-> FALSE], [takeover |-> TRUE, shared |-> TRUE],
              [takeover |-> FALSE, shared |-> FALSE]}

MCSymmetry == Permutations(Conns) \cup Permutations(Compressors)
=============================================================================
