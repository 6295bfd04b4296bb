SPECIFICATION Spec
INVARIANT FrameContextAccepted
CHECK_DEADLOCK FALSE
