\* A registered IPC client, a stranger and an SSH client; every fault, one restart.
CONSTANTS
  i1 = i1  i2 = i2  i3 = i3  s1 = s1  s2 = s2
  IpcConns = {i1, i3}
  SshConns = {s1}
  Registered = {i1}
  Faults <- AllFaults
  Backlog = 1
  MaxRestarts = 1
SPECIFICATION Spec
SYMMETRY Symmetry
CHECK_DEADLOCK FALSE
INVARIANTS TypeOK SecretsOnlyAfterChecks StrangersAreNotHeard KeyOnlyUnderGuard
INVARIANTS OnlyClientsKeepServersWaiting NoSignatureAfterLock
PROPERTIES ImplementsService
