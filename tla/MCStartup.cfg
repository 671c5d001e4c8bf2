SPECIFICATION FairSpec
CONSTANTS
  MaxCrashes = 3
  MaxOutages = 3
  MaxLogins = 3
INVARIANTS ServesWithTables AdminWorks
PROPERTY ComesUp
