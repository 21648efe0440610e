SPECIFICATION Spec
INVARIANT NothingAfterAFailedCd
CHECK_DEADLOCK FALSE
