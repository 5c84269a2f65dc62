CONSTANTS
  Meetings = {0, 1}
  Addrs <- MC_Addrs4
  Ssrcs <- MC_Ssrcs
  RtxOf <- MC_RtxOf
  NO_RTX_SSRC = 0
  PortNames = {"veth4"}
  PortEport <- MC_PortEport
  QualityInputs = {"base"}
  MaxInFlight = 2
  EGRESS_PORTS <- MC_EGRESS_PORTS
  MgidCap = 1
  NidCap = 4
  RidCap = 4
  CpuPort = 64
  AV1_DIVISOR <- MC_AV1_DIVISOR
  MaxRestarts = 0
  MaxClientRestarts = 0
SPECIFICATION Spec
CONSTRAINT OneMeetingEach
INVARIANT MgidSoftFail
CHECK_DEADLOCK FALSE
