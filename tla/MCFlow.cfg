SPECIFICATION FairSpec
CONSTANTS
  INITIAL_WINDOW = 4
  MIN_FRAME_CHARGE = 2
  MAX_FRAME = 3
  CHANNEL_WINDOW = 8
  MAX_SEND_CREDIT = 8
  TwoStep = TRUE
  MaxSpent = 14
INVARIANTS TypeOK NeverOverrun CreditBacked WindowBounded NoCreditLost
PROPERTIES NeverStuck
CHECK_DEADLOCK FALSE
