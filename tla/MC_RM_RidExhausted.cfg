CONSTANTS
  Meetings = {0}
  Apis = {"add_stream", "update_av1_svc_structure"}
  Addrs <- MC_Addrs
  NO_RTX_SSRC = 0
  EGRESS_PORTS <- MC_EGRESS_PORTS
  MgidCap = 2
  NidCap = 3
  RidCap = 2
  CpuPort = 64
  AV1_DIVISOR <- MC_AV1_DIVISOR
SPECIFICATION MCSpec
INVARIANT NoFault
