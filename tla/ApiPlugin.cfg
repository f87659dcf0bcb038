CONSTANTS
  Roles <- MCRoles
  Tags <- MCTags
  Offers <- MCOffers
  Listings <- MCListings
  MaxPosts = 2
  MaxKey = 2
  MaxModel = 3
  ScanLimit = 2
  PingLimit = 1
  Concurrency = 2
  MaxRefreshes = 1
  MaxRestarts = 1
  MaxRequests = 2
  MaxChatAttempts = 2
  MaxMediaAttempts = 2
  MaxTests = 2
  MaxFrames = 2
  MaxRows = 3
  Worlds = {{}, {"restart"}, {"offline", "refresh"}, {"refusals"}, {"requests", "cancel"}, {"requests", "telegram"}, {"requests", "media", "cancel"}, {"requests", "media", "telegram"}}
SPECIFICATION FairSpec
INVARIANTS RefreshApplies ContentOfOneStream NoDanglingQuestion
PROPERTIES EveryKeyIsChecked NoPostMissed CommandsAnswered
CHECK_DEADLOCK FALSE
