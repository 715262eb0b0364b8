\* One push generates a changeset; two let one be offered as well.
SPECIFICATION Spec
CONSTANT MaxPushes = 2
CHECK_DEADLOCK FALSE
INVARIANT
    PendingIsOffered
