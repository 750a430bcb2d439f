SPECIFICATION Spec
CONSTANTS
  Procs = {1, 2, 3}
  NCalls = 5
  Kinds = {"fits", "request too large"}
INVARIANTS OwnReply OneAtATime
PROPERTY RpcReturnsUnlessLeaked
\* A bounded number of calls is made.
CHECK_DEADLOCK FALSE
