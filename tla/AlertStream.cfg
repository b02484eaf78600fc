\* More alerts than a channel holds, and a client that may stop reading.
SPECIFICATION FairStreamSpec
CONSTANTS
  Clients = {reader, sleeper}
  Stalled = {sleeper}
  Buffer = 2
  Deadline = 1
  MaxPages = 1
  MaxAlerts = 3
INVARIANT EachAlertOnce
PROPERTIES PublishNeverWaits BurstIsShown StopEnds
