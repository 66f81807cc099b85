SPECIFICATION FairSpec
CONSTANTS
  People = {"ann", "bob"}
  Tabs = {"a1", "a2", "b1"}
  PersonOf <- MCPersonOf
  MaxKeys = 4
  MaxPairs = 3
  Slots = {1, 2}
  Scripts <- MCScripts
  None = None
  Messages = {"m1", "m2", "m3"}
  SenderOf <- MCSenderOf
  Page = 1
  Tries = 2
  Files = {"f1", "f2", "f3"}
  UploaderOf <- MCUploaderOf
  Hosts = {"bob"}
  Purgers = {1, 2}
  Batch = 2
INVARIANTS
  KeysAgree
  Complete
  OrphansExplained
  ListTrue
PROPERTIES
  GrantedOnceAsked
  PurgeGetsPast
CHECK_DEADLOCK FALSE
