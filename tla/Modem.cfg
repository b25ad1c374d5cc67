SPECIFICATION FairSpec
CONSTANTS
  MOD = 16
  PowerAt = 2
  BootTime = 4
  DialTime = 5
  SmsAt = 2
  MaxOff = 12
  Spans = {1, 2, 6}
INVARIANTS TypeOK HungUp Powered
PROPERTIES Patient ComesBack Watched
