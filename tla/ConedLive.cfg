\* An IPC client and two SSH clients that send requests without end or sit on their connection.
CONSTANTS
  i1 = i1  i2 = i2  i3 = i3  s1 = s1  s2 = s2
  IpcConns = {i1}
  SshConns = {s1, s2}
  Registered = {i1}
  Faults = {"panic"}
  Backlog = 1
  MaxRestarts = 0
SPECIFICATION FairSpec
CHECK_DEADLOCK FALSE
PROPERTIES SshRequestsSettle IpcRequestsSettle LockTakesEffect
