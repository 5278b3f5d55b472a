CONSTANTS
  f1 = f1
  f2 = f2
  c1 = c1
  c2 = c2
  c3 = c3
  w1 = w1
  tpu = tpu
  dsp = dsp
  Fence = {f1}
  Cmd = {c1, c2, w1}
  Ip = {tpu, dsp}
  IpOf <- MCIpOf
  In <- MCIn
  Out <- MCOut
  Total <- MCTotal
  Preset <- MCPreset
  KeepUntilRelease = {}
  Pollable = {f1}
  Flaggable = {f1}
  MaySleep = {c1, c2, w1}
  FirmwareErrs = {}
  Disbands = TRUE
SPECIFICATION Spec
INVARIANTS
    TypeOK
    SignalAccepted
    CountsExact
    RetiredIsSettled
    WakelocksAccounted
    BlockHeldForSignaler
    AllSignaledUnblocks
    PollNotLost
CHECK_DEADLOCK FALSE
SYMMETRY Signalers
