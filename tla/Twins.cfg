SPECIFICATION Spec
CONSTANTS
  MaxInt64 = 15
  Sessions = {1, 2}
  Messages <- PlainMessages
  MaxOrderId = 4
  MaxCalls = 6
INVARIANTS TwinsAgree TwinsSendTheSame
CHECK_DEADLOCK FALSE
