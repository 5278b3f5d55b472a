CONSTANTS
  f1 = f1
  f2 = f2
  c1 = c1
  c2 = c2
  c3 = c3
  w1 = w1
  tpu = tpu
  dsp = dsp
  Fence = {f1, f2}
  Cmd = {c1, w1}
  Ip = {tpu, dsp}
  IpOf <- MCIpOf
  In <- MCIn
  Out <- MCOut
  Total <- MCTotal
  Preset <- MCPreset
  KeepUntilRelease = {}
  Pollable = {f2}
  Flaggable = {}
  MaySleep = {c1}
  FirmwareErrs = {c1, w1}
  Disbands = TRUE
SPECIFICATION Spec
INVARIANTS TypeOK SignalAccepted CountsExact RetiredIsSettled WakelocksAccounted BlockHeldForSignaler PendedWakelockReleased AllSignaledUnblocks PollNotLost FailureIsVisible
CHECK_DEADLOCK FALSE
