\* Handlers of two signals that block a third one: what the comment in
\* handle_user_signal says of masks, refuted by the code.
CONSTANTS
  Parts = {"signals"}
  Threads = {t1, t2, t3}
  SignalEnvs <- MCNested
SPECIFICATION MCSpec
INVARIANT HandlerMaskHolds
CHECK_DEADLOCK FALSE
