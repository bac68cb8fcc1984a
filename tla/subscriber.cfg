SPECIFICATION FairSpec
CONSTANTS
  Provider = {l1, r1}
  LocalProvider = {l1}
  MaxQueue = 2
INVARIANTS TypeOK OneTransport DestroyedIsQuiet DeliveryTypeOK ListenerLeavesDestroyed StuckOnlyByHandler
PROPERTIES DestroyedReceivesNothing SettlesOnLocal SettlesOnRemote
CHECK_DEADLOCK FALSE
