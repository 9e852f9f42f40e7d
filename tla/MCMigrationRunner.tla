--------------------------- MODULE MCMigrationRunner ---------------------------
(* Small instances of MigrationRunner for TLC. *)
EXTENDS MigrationRunner, TLC

CONSTANTS r1, r2, a, b, none

MCRunners == {r1, r2}
MCIds == 1..2
MCVersions == {a, b}
MCChecksum == [v \in MCVersions |-> v]

\* an older deployment without migration 2; a newer one, where 1 has been edited
MCDirectories == {<<a, none>>, <<b, a>>}

\* every combination of transactional and nontransactional up and down files but one
MCNonTransactional == {<<1, a>>, <<2, a>>}
MCDownNonTransactional == {<<1, a>>, <<1, b>>}
MCHasDown == {<<1, a>>, <<1, b>>, <<2, a>>}

\* one migration, transactional one way and nontransactional the other
MCOneId == {1}
MCOneVersion == {a}
MCOneDirectory == {<<a>>}
MCOne == {<<1, a>>}
MCNone == {}

SafetyCommands == {"up", "down"}
CliCommands == {"up", "up-dry", "down", "status"}
LibraryCommands == {"up", "up-dry", "down", "down-dry"}
RunnerSymmetry == Permutations(MCRunners)
============================================================================
