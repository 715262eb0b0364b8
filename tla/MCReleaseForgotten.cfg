\* Two pushes are enough to forget one.
SPECIFICATION Spec
CONSTANT MaxPushes = 2
CHECK_DEADLOCK FALSE
INVARIANT
    EveryFeatHasChangeset
