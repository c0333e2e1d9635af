\* Three concurrent calls; decrypt jobs that end in any order; two frames that
\* do not decrypt, one that is dropped and one cut off; an event loop and a
\* desktop that are fair.
CONSTANTS
  Calls = {c1, c2, c3}
  NoAnswer = NoAnswer
  MaxGarbled = 2
  MaxDropped = 1
  MaxTruncated = 1
SPECIFICATION FairSpec
INVARIANTS TypeOK OwnAnswer InOrder NobodyForgotten QueueNeverServed NoSharedAnswer
PROPERTIES EveryCallEnds ImplementsRequestReply
