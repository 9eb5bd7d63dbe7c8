CONSTANTS
  Tmout = 3
  ClockCap = 6
  Y2016 = 10
  ServerTimes = {10, 12}
SPECIFICATION FairSpec
INVARIANTS
  TypeOK
  ReturnsWithTime
  SpuriousBounded
  TimeoutWorksUnsynced
PROPERTIES
  BootGetsTime
  ImplementsTimeService
