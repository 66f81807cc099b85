SPECIFICATION FairSpec
CONSTANTS
 Tabs = {"ann", "ben"}
 OwnerOf <- MCOwnerOf
 MaxMade = 7
 OfferResends = 2
 Scripts <- MCScripts
 None = None
 Cameras <- MCCameras
 Files = {"f","g"}
 Size <- MCSize
INVARIANTS RightPicture NothingCaptured
PROPERTIES ArrivesWhole TransfersEnd Connects
CHECK_DEADLOCK FALSE
