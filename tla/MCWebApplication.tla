---------------------------- MODULE MCWebApplication ----------------------------
(* Small instances of WebApplication for TLC. *)
EXTENDS WebApplication, TLC

CONSTANTS app, q1, q2, db, user, audit

MCRequests == {q1, q2}
MCServices == {db, user, audit}
MCSingletons == {db, audit}

\* the audit service needs the database; one handler asks for both at once
MCDeps == [n \in MCServices |-> IF n = audit THEN <<db>> ELSE <<>>]
MCWanted == (app :> {}) @@ (q1 :> {user, db, audit}) @@ (q2 :> {user, db})

\* one request; database and audit service need each other
MCOneRequest == {q1}
MCOneWanted == (app :> {db}) @@ (q1 :> {user, audit})
MCCyclicDeps ==
    [n \in MCServices |-> CASE n = db -> <<audit>> [] n = audit -> <<db>> [] n = user -> <<>>]

MCStopperSymmetry == Permutations(Stoppers)
=============================================================================
