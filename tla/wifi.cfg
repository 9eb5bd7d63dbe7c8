\* The shipped configuration, and both interfaces.
CONSTANTS
  Configurations = {{"wifi"}, {"wifi", "eth"}}
  Ipv6 = TRUE
  QueueMax = 4
SPECIFICATION FairSpec
INVARIANTS
  TypeOK
  FlagFollowsLink
  EveryAddressCounts
  AddressedUnlessLost
  RejoinsUnlessRefused
PROPERTIES
  StartsWhenLinksStay
  ImplementsNetwork
\* After a join that was refused and not reported, everything here may stop.
CHECK_DEADLOCK FALSE
