\* A client that does not read, and one alert more than its channel holds.
SPECIFICATION StreamSpec
CONSTANTS
  Clients = {reader, sleeper}
  Stalled = {sleeper}
  Buffer = 1
  Deadline = 1
  MaxPages = 1
  MaxAlerts = 2
PROPERTY SlowClientIsDropped
