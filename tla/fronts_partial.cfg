SPECIFICATION FrontsSpec
INVARIANT IncompleteNeverOk
CHECK_DEADLOCK FALSE
