SPECIFICATION ClientSpec
INVARIANT NoNullConnection
CHECK_DEADLOCK FALSE
