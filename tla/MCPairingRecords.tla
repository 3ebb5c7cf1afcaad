---------------------------- MODULE MCPairingRecords ----------------------------
(***************************************************************************)
(* Model values for PairingRecords: two wordings of one structure are      *)
(* interchangeable, and so are the contents of a fence.                    *)
(***************************************************************************)
EXTENDS PairingRecords, TLC

CONSTANTS p1, p2, c1, c2, c3

MCShapeOf == [p \in Prose |-> 1]

Symmetry == Permutations({p1, p2}) \union Permutations({c1, c2, c3})

================================================================================
