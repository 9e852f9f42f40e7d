SPECIFICATION Spec
INVARIANT FiltersAreCombined
CHECK_DEADLOCK FALSE
