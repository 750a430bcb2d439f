SPECIFICATION Spec
CONSTANTS
  Procs = {1, 2, 3}
  NCalls = 5
  Kinds = {"fits", "reply too large"}
INVARIANT OwnReply
\* A bounded number of calls is made.
CHECK_DEADLOCK FALSE
