CONSTANTS
  Modes = {"direct", "rendezvous"}
  Timeout = 1
  MaxMove <- Moving
  MaxRestart = 1
  MaxNet = 1
SPECIFICATION FairSpec
INVARIANT MeetsServer
PROPERTIES KeepsPeer Follows
