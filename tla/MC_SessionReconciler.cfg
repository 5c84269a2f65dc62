CONSTANTS
  Meetings = {0}
  Addrs <- MC_Addrs
  Ssrcs <- MC_Ssrcs
  RtxOf <- MC_RtxOf
  NO_RTX_SSRC = 0
  PortNames = {"veth4", "veth6"}
  PortEport <- MC_PortEport
  QualityInputs = {"base"}
  MaxInFlight = 1
SPECIFICATION MCSpec
CHECK_DEADLOCK FALSE
INVARIANT TypeOK
INVARIANT ReceiveStreamLaw
INVARIANT SessionLifecycle
INVARIANT DeltaReplay
PROPERTY RefinesAbstract
