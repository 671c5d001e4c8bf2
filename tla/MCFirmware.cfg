SPECIFICATION FairSpec
CONSTANTS
  u1 = u1
  u2 = u2
  Identities <- MCIdentities
  NoIdentity = NoIdentity
  Width = 4
  Interval = 2
  MaxReadings = 2
  MaxBoots = 2
INVARIANT OneIdentity
PROPERTIES ImplementsPresence SpacedReadings KeepsReporting
