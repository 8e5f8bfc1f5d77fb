SPECIFICATION FairSpec
CONSTANTS
  Client = {a, b, c}
  Events = {"heartbeat", "cleanup", "raise", "disconnect"}
INVARIANTS SubscribersMissNothing ReceivedInOrder
PROPERTIES StreamsEnd
