SPECIFICATION FairSpec
CONSTANT LastTile = 2
INVARIANTS TypeOK  VerifiedIsOnCard
PROPERTIES GoodTilesStay DownloadEnds
