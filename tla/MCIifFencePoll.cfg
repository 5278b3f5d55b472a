CONSTANTS
  f1 = f1
  f2 = f2
  c1 = c1
  c2 = c2
  c3 = c3
  w1 = w1
  tpu = tpu
  dsp = dsp
  Fence = {f1}
  Ip = {tpu, dsp}
  IpOf <- MCIpOf
  In <- MCIn
  Out <- MCOut
  Total <- MCTotal
  Preset <- MCPreset
  KeepUntilRelease = {}
  MaySleep = {}
  Cmd = {c1, c2}
  Pollable = {f1}
  Flaggable = {}
  FirmwareErrs = {}
  Disbands = FALSE
SPECIFICATION Spec
INVARIANT RetiredNotPolled
CHECK_DEADLOCK FALSE
