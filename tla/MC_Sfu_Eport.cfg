CONSTANTS
  Meetings = {0}
  Addrs <- MC_Addrs
  Ssrcs <- MC_Ssrcs
  RtxOf <- MC_RtxOf
  NO_RTX_SSRC = 0
  PortNames = {"veth4"}
  PortEport <- MC_PortEport
  QualityInputs = {"base"}
  MaxInFlight = 2
  EGRESS_PORTS <- MC_EGRESS_PORTS
  MgidCap = 2
  NidCap = 3
  RidCap = 3
  CpuPort = 64
  AV1_DIVISOR <- MC_AV1_DIVISOR
  MaxRestarts = 0
  MaxClientRestarts = 0
SPECIFICATION Spec
CHECK_DEADLOCK FALSE
INVARIANT EgressPortAgrees
