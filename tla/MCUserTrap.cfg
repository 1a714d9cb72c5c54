\* Hart 0 from proc_make_first on, undisturbed.
CONSTANT Interrupts = FALSE
SPECIFICATION FairSpec
PROPERTY UserReached
CHECK_DEADLOCK FALSE
