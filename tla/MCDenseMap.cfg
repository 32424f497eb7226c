SPECIFICATION FairSpec
CONSTANTS
  Keys <- MCKeys
  Hash <- MCHash
  Sizes <- MCSizes
  Values = {v1, v2}
  Empty = Empty
  Tombstone = Tombstone
  NoValue = NoValue
  InitBuckets = {0, 2, 4}
  MinBuckets = 4
INVARIANTS
  CountsAreTrue
  SomeBucketIsEmpty
  AnswersAreTrue
PROPERTIES
  ImplementsDictionary
  CallsReturn
