------------------------- MODULE MC_RuleMaterializer -------------------------
(* The rule materializer alone, sent any add_stream a reconciler could     *)
(* send for one meeting of three participants -- the addresses and ports   *)
(* of the repository's test scenario, one participant on another IP --     *)
(* with a video (rtx) and an audio (no rtx) SSRC, in any order and         *)
(* repeated, interleaved with SVC structure updates.                       *)
EXTENDS RuleMaterializer

CONSTANTS
  Meetings,  \* meeting ids the add_stream messages name
  Apis       \* the message kinds sent to the client

MC_Addrs == {<<1, 1111>>, <<2, 2222>>, <<2, 3333>>}
MC_EGRESS_PORTS == (1 :> 4) @@ (2 :> 44)
MC_AV1_DIVISOR == ("L1T2" :> 3) @@ ("L1T3" :> 5)
RtxOf == (110 :> 111) @@ (120 :> 0)

AddStreamMsgs(mids) ==
  { [api |-> "add_stream", mid |-> m, sip |-> sd[1], dip |-> sd[2],
     ssrc |-> x, ssrc_rtx |-> RtxOf[x], eport |-> 3] :
      m \in mids, x \in DOMAIN RtxOf,
      sd \in { p \in MC_Addrs \X MC_Addrs : p[1] # p[2] } }

Av1Msgs ==
  { [api |-> "update_av1_svc_structure", structure |-> n] :
      n \in {"L1T2", "L1T3", "L2T9"} }

\* remove_stream for one of the receive streams, as the reconciler sends it.
RemoveMsgs ==
  { [api |-> "remove_stream", mid |-> 0, sip |-> <<1, 1111>>,
     dip |-> <<2, 2222>>, ssrc |-> 110, ssrc_rtx |-> 111] }

Inputs ==
  UNION { CASE a = "add_stream" -> AddStreamMsgs(Meetings)
            [] a = "update_av1_svc_structure" -> Av1Msgs
            [] a = "remove_stream" -> RemoveMsgs : a \in Apis }

MCSpec == Init /\ [][\E m \in Inputs : Receive(m)]_pre
=============================================================================
