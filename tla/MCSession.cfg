SPECIFICATION FairSpec
CONSTANT MaxSends = 4
INVARIANTS SessionSound
PROPERTIES FifoSpec BrokenIsReleased
CHECK_DEADLOCK FALSE
