SPECIFICATION Spec
INVARIANTS MigrationsAreSound ScriptsAreSound QueriesMeanTheirTree InterfacesAreHonest RequestsAreJudged RequestsAreHandled
CHECK_DEADLOCK FALSE
