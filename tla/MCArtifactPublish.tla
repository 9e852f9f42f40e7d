--------------------------- MODULE MCArtifactPublish ---------------------------
(* A small instance of ArtifactPublish for TLC. *)
EXTENDS ArtifactPublish, TLC

CONSTANTS orders, customers

MCSchemas == {Empty, orders, customers}
MCIds == 1..3
MCSymmetry == Permutations(Commands) \cup Permutations({orders, customers})
=============================================================================
