CONSTANTS
  Letters = {a}
  UI = ui
  MaxEvents = 2
  MaxRows = 3
  MaxQueue = 1
  MaxFired = 4
  MaxConnects <- LettersTwice
  MaxRequests = 1
  MaxTroubles = 1
SPECIFICATION FairSpec
INVARIANTS TypeOK FeedExact CountsAgree
PROPERTIES FeedCatchesUp
