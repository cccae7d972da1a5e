SPECIFICATION FairSpec
CONSTANTS
  t1 = t1
  t2 = t2
  s1 = s1
  Telegram = {t1, t2}
  Stage = {s1}
  Command = {"T_Connect.req", "status", "unknown"}
  Foreign = {f1}
  None = None
  Garbage = Garbage
  Scenario <- Scenarios
INVARIANTS
  OneOutstanding
  ConfirmedWasSent
  EchoIsNotIndicated
  SecondFollowsFirst
PROPERTY
  RequestAnswered
CHECK_DEADLOCK FALSE
