--------------------------------- MODULE MC_Sfu ------------------------------
(* The two processes for TLC: one meeting of the test scenario's three     *)
(* participants (all on 10.0.211.2, modelled as ip 2), a video stream with *)
(* a retransmission SSRC and an audio stream without, the port names of   *)
(* the scenario, and the client's EGRESS_PORTS and AV1 divisors.           *)
EXTENDS Sfu, TLC

MC_Addrs == {<<2, 1111>>, <<2, 2222>>, <<2, 3333>>}
\* Four participants, for two meetings of two.
MC_Addrs4 == MC_Addrs \cup {<<2, 4444>>}
MC_Ssrcs == {110, 120}
MC_RtxOf == (110 :> 111) @@ (120 :> 0)
MC_PortEport == ("veth4" :> 2) @@ ("veth6" :> 3)
MC_EGRESS_PORTS == (1 :> 4) @@ (2 :> 44)
MC_AV1_DIVISOR == ("L1T2" :> 3) @@ ("L1T3" :> 5)

\* No participant is in two meetings: rm_shared_participant shows what the
\* client does then.
OneMeetingEach ==
  \A k1, k2 \in DOMAIN participants : k1[2] = k2[2] => k1[1] = k2[1]
==============================================================================
