------------------------ MODULE MC_SessionReconciler ------------------------
(* Model of the reconciler for TLC: one meeting with three participants,   *)
(* a video stream (with its retransmission SSRC) and an audio stream       *)
(* (without), on the two ports of the repository's test scenario.  The     *)
(* far end of the WebSocket is a peer that applies every delta it          *)
(* receives to its view of the receive streams.                            *)
EXTENDS SessionReconciler

MC_Addrs == {<<2, 1111>>, <<2, 2222>>, <<2, 3333>>}
MC_Ssrcs == {110, 120}
MC_RtxOf == (110 :> 111) @@ (120 :> 0)
MC_PortEport == ("veth4" :> 2) @@ ("veth6" :> 3)

VARIABLE peer  \* the receive streams as the peer has learnt them

\* The WebSocket delivers the oldest message sent to the peer.
Deliver ==
  /\ ws # << >>
  /\ peer' = ApplyMsg(peer, Head(ws))
  /\ ws' = Tail(ws)
  /\ UNCHANGED <<meetings, participants, snd_streams, rcv_streams>>

MCInit == Init /\ peer = << >>

\* A reconciler handler (the peer is untouched) or a delivery.
MCNext ==
  \/ /\ \E m \in Meetings, a \in Addrs, x \in Ssrcs, pn \in PortNames :
          add_stream(m, a, x, pn)
     /\ UNCHANGED peer
  \/ /\ \E m \in Meetings, a \in Addrs, x \in Ssrcs : remove_stream(m, a, x)
     /\ UNCHANGED peer
  \/ /\ \E m \in Meetings, s, d \in Addrs, x \in Ssrcs, q \in QualityInputs :
          set_quality(m, s, d, x, q)
     /\ UNCHANGED peer
  \/ Deliver

MCSpec == MCInit /\ [][MCNext]_<<vars, peer>>

\* Delta consistency (see DeltaReplayFrom): the peer's view plus the
\* messages in flight always reproduce the reconciler's receive streams.
DeltaReplay == DeltaReplayFrom(peer)

\* The reconciler seen through its send streams, participants and the
\* qualities of its receive streams; meetings and messages are hidden.
Abs == INSTANCE SessionAbstract
         WITH streams <- snd_streams, eport <- participants,
              quality <- [k \in DOMAIN rcv_streams |-> rcv_streams[k].quality],
              Eports <- { PortEport[n] : n \in PortNames }

\* Refinement: every step of the reconciler is a step of the abstract
\* session specification -- a handler publishes or ends exactly one send
\* stream with the participants and receive-stream qualities that implies,
\* or changes one quality, or (a delivery, a duplicate add_stream)
\* changes none of them.
RefinesAbstract == Abs!Spec
=============================================================================
