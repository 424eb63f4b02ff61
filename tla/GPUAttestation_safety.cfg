SPECIFICATION Spec
CONSTANTS
  DMTF = 1
  DriverVersions = {"v1"}
  VBIOSVersions <- MCVBIOSVersions
  GPUs = 2
  GPUChain <- MCGPUChain
  Bodies <- MCBodies
  RegisteredCerts <- MCRegistered
  DriverRIMs <- MCDriverRIMs
  VBIOSRIMs <- MCVBIOSRIMs
  TicksPerSecond = 2
  Graces = {0, 1}
  None = None
  MaxTime = 3
  MaxUnknown = 1
  MaxRevoked = 2
  MaxRuns = 2
CHECK_DEADLOCK FALSE
INVARIANTS StatusesTellTheWorst
PROPERTIES ReadyIsVerified ServedWithinPolicy RefusedForAReason
