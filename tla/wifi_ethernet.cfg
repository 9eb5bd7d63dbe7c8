\* The configuration of sdkconfig.ci.
CONSTANTS
  Configurations = {{"eth"}}
  Ipv6 = TRUE
  QueueMax = 4
SPECIFICATION FairSpec
PROPERTY StartsWhenLinksStay
