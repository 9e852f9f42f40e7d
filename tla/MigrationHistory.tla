---------------------------- MODULE MigrationHistory ----------------------------
(***************************************************************************)
(* What the migration runner promises of one database, whoever runs which  *)
(* command and however it ends: a migration takes effect whole, on top of  *)
(* all earlier ones, and only the newest one is ever taken back.  At most  *)
(* one migration at a time is in doubt, nothing happens on top of it, and  *)
(* the doubt ends with the migration in the history or out of it.          *)
(***************************************************************************)
EXTENDS Integers

CONSTANTS Ids, Sums, None

VARIABLES
    history,  \* checksum of each migration in effect, None for the others
    doubt     \* at most one migration that may or may not be in effect

vars == <<history, doubt>>

Init ==
    /\ history = [i \in Ids |-> None]
    /\ doubt = {}

Newer(i) == {j \in Ids : history[j] # None /\ j > i}

Apply(i, c) ==
    /\ doubt = {} /\ history[i] = None /\ Newer(i) = {}
    /\ history' = [history EXCEPT ![i] = c]
    /\ UNCHANGED doubt

Revert(i) ==
    /\ doubt = {} /\ history[i] # None /\ Newer(i) = {}
    /\ history' = [history EXCEPT ![i] = None]
    /\ UNCHANGED doubt

\* A migration that cannot run in a transaction goes up or down.
Unsettle(i, c) ==
    /\ doubt = {} /\ history[i] \in {None, c} /\ Newer(i) = {}
    /\ history' = [history EXCEPT ![i] = None]
    /\ doubt' = {[id |-> i, sum |-> c]}

Settle ==
    /\ doubt # {} /\ doubt' = {}
    /\ \/ UNCHANGED history
       \/ \E d \in doubt : history' = [history EXCEPT ![d.id] = d.sum]

Next ==
    \/ \E i \in Ids, c \in Sums : Apply(i, c) \/ Unsettle(i, c)
    \/ \E i \in Ids : Revert(i)
    \/ Settle

Spec == Init /\ [][Next]_vars
============================================================================
