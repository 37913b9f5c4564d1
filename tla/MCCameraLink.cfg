\* Two links, two requests and two clients of one camera.
SPECIFICATION FairSpec
CONSTANTS
  PoolSize = 2
  MaxLinks = 2
  MaxRequests = 2
  MaxDraining = 1
INVARIANT AcceptedAsShown
INVARIANT ConnectedIsAlive
INVARIANT AnswerHasClient
PROPERTY PromptEnds
PROPERTY DeclineEnds
