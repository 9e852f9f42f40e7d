------------------------------ MODULE MCOidcSession ------------------------------
(* A small instance of OidcSession for TLC. *)
EXTENDS OidcSession, TLC

MCSymmetry == Permutations(Requests) \cup Permutations(Instances)
                \cup Permutations(Ids) \cup Permutations(SignIns)
=============================================================================
