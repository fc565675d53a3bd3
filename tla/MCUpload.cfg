SPECIFICATION FairSpec
CONSTANTS
  MaxParts = 3
  MaxVersion = 1
  Id = {u1, u2, u3}
  Parallel = 2
  MaxMultiReq = 2
  Retries = 2
  Late = {"part"}
  MaxLate = 1
  NoId = NoId
INVARIANTS TypeOK ListedPartsAreThere ObjectIsWhole
PROPERTIES ImplementsObjectPut EveryUploadEnds
