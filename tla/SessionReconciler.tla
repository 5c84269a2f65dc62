-------------------------- MODULE SessionReconciler --------------------------
(***************************************************************************)
(* The session reconciler (class SFUSwitchAgent, sfu_switch_agent.py): it  *)
(* keeps meetings, participants, send streams and the derived receive      *)
(* streams, and after every topology change recomposes the receive streams *)
(* and sends the add/remove deltas, in JSON, on its WebSocket to the       *)
(* Tofino client.                                                          *)
(*                                                                         *)
(* The WebSocket is the variable ws: the messages sent and not yet        *)
(* received by the peer, in order (websockets keeps one TCP stream).       *)
(*                                                                         *)
(* Abstractions: a participant address (ip, port) is an element of Addrs;  *)
(* media_type is copied but never read by any decision and is left out;    *)
(* Python dict iteration order, which orders the deltas of one recompose,  *)
(* is a fixed order of the keys (DictOrder).                               *)
(***************************************************************************)
EXTENDS Integers, Sequences, FiniteSets, SequencesExt, TLC

CONSTANTS
  Meetings,     \* meeting ids
  Addrs,        \* participant transport addresses (ip, port)
  Ssrcs,        \* RTP SSRCs of send streams
  RtxOf,        \* RtxOf[ssrc]: the retransmission SSRC a client pairs with ssrc
  NO_RTX_SSRC,  \* reserved SSRC meaning "no retransmission stream"
  PortNames,    \* port names a client can name (veth4, veth6, ...)
  PortEport,    \* ports.eport: port name -> egress port number
  QualityInputs, \* qualities a set_quality request may ask for
  MaxInFlight   \* bound on ws: no handler starts while this many are in flight

Qualities == {"base", "mid", "high"}

ASSUME /\ RtxOf \in [Ssrcs -> Nat]
       /\ NO_RTX_SSRC \notin Ssrcs
       /\ PortNames \subseteq DOMAIN PortEport
       /\ QualityInputs \subseteq Qualities
       /\ MaxInFlight \in Nat

VARIABLES
  meetings,      \* self.meetings: set of meeting ids
  participants,  \* self.participants: <<mid, addr>> -> egress port
  snd_streams,   \* self.snd_streams: <<mid, addr, ssrc>> -> ssrc_rtx
  rcv_streams,   \* self.rcv_streams: <<mid, sip, dip, ssrc>> -> receive stream
  ws             \* messages sent on self.websocket, not yet received

vars == <<meetings, participants, snd_streams, rcv_streams, ws>>

-----------------------------------------------------------------------------
(* Messages (ReceiveStream.get_api_message).                               *)

\* Mutant: the add message is built without its "eport" entry.
AddMsg_noeport(k, rs) ==
  [api |-> "add_stream", mid |-> k[1], sip |-> k[2], dip |-> k[3],
   ssrc |-> k[4], ssrc_rtx |-> rs.ssrc_rtx]

AddMsg(k, rs) ==
  [api |-> "add_stream", mid |-> k[1], sip |-> k[2], dip |-> k[3],
   ssrc |-> k[4], ssrc_rtx |-> rs.ssrc_rtx, eport |-> rs.egress_port]

RemoveMsg(k, rs) ==
  [api |-> "remove_stream", mid |-> k[1], sip |-> k[2], dip |-> k[3],
   ssrc |-> k[4], ssrc_rtx |-> rs.ssrc_rtx]

QualityMsg(k, rs) ==
  [api |-> "set_quality", mid |-> k[1], sip |-> k[2], dip |-> k[3],
   ssrc |-> k[4], quality |-> rs.quality]

RECURSIVE DictOrder(_)
DictOrder(S) ==
  IF S = {} THEN <<>>
  ELSE LET k == CHOOSE x \in S : TRUE IN <<k>> \o DictOrder(S \ {k})

\* The messages for the keys of K, in dict order.
Msgs(K, Mk(_)) == LET s == DictOrder(K) IN [i \in 1..Len(s) |-> Mk(s[i])]

-----------------------------------------------------------------------------
(* recompose_receive_streams, run with the participants P and send        *)
(* streams S that the calling handler has just written.                    *)

\* Mutant: the pairing loop without the "not the sender itself" test.
ActiveKeys_noself(P, S) ==
  { <<k[1], k[2], p[2], k[3]>> :
      <<k, p>> \in { x \in (DOMAIN S) \X (DOMAIN P) : x[1][1] = x[2][1] } }

\* active_rcv_stream_keys: every send stream times every other participant
\* of its meeting.
ActiveKeys(P, S) ==
  { <<k[1], k[2], p[2], k[3]>> :
      <<k, p>> \in { x \in (DOMAIN S) \X (DOMAIN P) :
                       x[1][1] = x[2][1] /\ x[1][2] # x[2][2] } }

NewRcvStream(P, S, k) ==
  [ssrc_rtx    |-> S[<<k[1], k[2], k[4]>>],
   egress_port |-> P[<<k[1], k[3]>>],
   quality     |-> "high"]

\* Mutant: stale streams are deleted without sending remove_stream.
Recompose_nosend_remove(P, S) ==
  LET active  == ActiveKeys(P, S)
      gone    == DOMAIN rcv_streams \ active
      fresh   == active \ DOMAIN rcv_streams
      added   == [k \in fresh |-> NewRcvStream(P, S, k)]
  IN /\ rcv_streams' = Restrict(rcv_streams, DOMAIN rcv_streams \ gone) @@ added
     /\ ws' = ws \o Msgs(fresh, LAMBDA k : AddMsg(k, added[k]))

Recompose(P, S) ==
  LET active  == ActiveKeys(P, S)
      gone    == DOMAIN rcv_streams \ active
      kept    == Restrict(rcv_streams, DOMAIN rcv_streams \ gone)
      fresh   == active \ DOMAIN rcv_streams
      added   == [k \in fresh |-> NewRcvStream(P, S, k)]
  IN /\ rcv_streams' = kept @@ added
     /\ ws' = ws \o Msgs(gone, LAMBDA k : RemoveMsg(k, rcv_streams[k]))
                 \o Msgs(fresh, LAMBDA k : AddMsg(k, added[k]))

-----------------------------------------------------------------------------
(* Handlers.                                                               *)

Init ==
  /\ meetings = {}
  /\ participants = << >>
  /\ snd_streams = << >>
  /\ rcv_streams = << >>
  /\ ws = << >>

\* Mutant: add_participant without its "already exists" check, so a
\* participant takes the port of its latest stream.
add_stream_overwrite_port(m, a, ssrc, pn) ==
  LET P == (<<m, a>> :> PortEport[pn]) @@ participants
      S == snd_streams @@ (<<m, a, ssrc>> :> RtxOf[ssrc])
  IN /\ Len(ws) < MaxInFlight
     /\ meetings' = meetings \cup {m}
     /\ participants' = P
     /\ IF <<m, a, ssrc>> \in DOMAIN snd_streams
          THEN UNCHANGED <<snd_streams, rcv_streams, ws>>
          ELSE /\ snd_streams' = S
               /\ Recompose(P, S)

\* add_stream, with add_meeting and add_participant inlined: the meeting
\* and the participant are created before the duplicate check, and a
\* participant keeps the egress port of its first stream.
add_stream(m, a, ssrc, pn) ==
  LET P == IF <<m, a>> \in DOMAIN participants THEN participants
           ELSE participants @@ (<<m, a>> :> PortEport[pn])
      S == snd_streams @@ (<<m, a, ssrc>> :> RtxOf[ssrc])
  IN /\ Len(ws) < MaxInFlight
     /\ meetings' = meetings \cup {m}
     /\ participants' = P
     /\ IF <<m, a, ssrc>> \in DOMAIN snd_streams
          THEN UNCHANGED <<snd_streams, rcv_streams, ws>>
          ELSE /\ snd_streams' = S
               /\ Recompose(P, S)

\* Mutant: the meeting is never removed.
remove_stream_keepmeeting(m, a, ssrc) ==
  LET S == Restrict(snd_streams, DOMAIN snd_streams \ {<<m, a, ssrc>>})
      active_participant == \E k \in DOMAIN S : k[1] = m /\ k[2] = a
      P == IF active_participant THEN participants
           ELSE Restrict(participants, DOMAIN participants \ {<<m, a>>})
  IN /\ Len(ws) < MaxInFlight
     /\ <<m, a, ssrc>> \in DOMAIN snd_streams
     /\ snd_streams' = S
     /\ participants' = P
     /\ UNCHANGED meetings
     /\ Recompose(P, S)

\* remove_stream, with remove_participant and remove_meeting inlined.
remove_stream(m, a, ssrc) ==
  LET S == Restrict(snd_streams, DOMAIN snd_streams \ {<<m, a, ssrc>>})
      active_participant == \E k \in DOMAIN S : k[1] = m /\ k[2] = a
      P == IF active_participant THEN participants
           ELSE Restrict(participants, DOMAIN participants \ {<<m, a>>})
      active_meeting == \E k \in DOMAIN P : k[1] = m
  IN /\ Len(ws) < MaxInFlight
     /\ <<m, a, ssrc>> \in DOMAIN snd_streams
     /\ snd_streams' = S
     /\ participants' = P
     /\ meetings' = IF active_meeting THEN meetings ELSE meetings \ {m}
     /\ Recompose(P, S)

\* set_quality: only an existing receive stream is updated and announced.
set_quality(m, s, d, ssrc, q) ==
  LET k == <<m, s, d, ssrc>>
      rs == [rcv_streams[k] EXCEPT !.quality = q]
  IN /\ Len(ws) < MaxInFlight
     /\ k \in DOMAIN rcv_streams
     /\ rcv_streams' = [rcv_streams EXCEPT ![k] = rs]
     /\ ws' = Append(ws, QualityMsg(k, rs))
     /\ UNCHANGED <<meetings, participants, snd_streams>>

Next ==
  \/ \E m \in Meetings, a \in Addrs, x \in Ssrcs, pn \in PortNames :
       add_stream(m, a, x, pn)
  \/ \E m \in Meetings, a \in Addrs, x \in Ssrcs : remove_stream(m, a, x)
  \/ \E m \in Meetings, s, d \in Addrs, x \in Ssrcs, q \in QualityInputs :
       set_quality(m, s, d, x, q)

Spec == Init /\ [][Next]_vars

-----------------------------------------------------------------------------
(* Properties.                                                             *)

RcvStream == [ssrc_rtx : Nat,
              egress_port : Nat, quality : Qualities]

Message ==
  [api : {"add_stream"}, mid : Meetings, sip : Addrs, dip : Addrs,
   ssrc : Ssrcs, ssrc_rtx : Nat, eport : Nat]
  \cup [api : {"remove_stream"}, mid : Meetings, sip : Addrs, dip : Addrs,
        ssrc : Ssrcs, ssrc_rtx : Nat]
  \cup [api : {"set_quality"}, mid : Meetings, sip : Addrs, dip : Addrs,
        ssrc : Ssrcs, quality : Qualities]

TypeOK ==
  /\ meetings \subseteq Meetings
  /\ DOMAIN participants \subseteq Meetings \X Addrs
  /\ DOMAIN snd_streams \subseteq Meetings \X Addrs \X Ssrcs
  /\ DOMAIN rcv_streams \subseteq Meetings \X Addrs \X Addrs \X Ssrcs
  /\ \A k \in DOMAIN rcv_streams : rcv_streams[k] \in RcvStream
  /\ ws \in Seq(Message)

\* The receive-stream law (spec P1, P6): after every handler the receive
\* streams are exactly one per send stream and other participant of its
\* meeting -- never the sender itself -- and each carries the send stream's
\* ssrc_rtx and the destination participant's egress port.  This is what
\* recompose_receive_streams must restore after add_stream and remove_stream
\* have created or deleted participants and meetings.
ReceiveStreamLaw ==
  /\ DOMAIN rcv_streams = ActiveKeys(participants, snd_streams)
  /\ \A k \in DOMAIN rcv_streams :
       /\ k[2] # k[3]
       /\ rcv_streams[k].ssrc_rtx = snd_streams[<<k[1], k[2], k[4]>>]
       /\ rcv_streams[k].egress_port = participants[<<k[1], k[3]>>]

\* Session lifecycle: a participant exists exactly while it owns a send
\* stream in its meeting, and a meeting exists exactly while it has a
\* participant.  remove_stream must clean up both after the last stream of
\* a participant, or of a meeting, goes.
SessionLifecycle ==
  /\ DOMAIN participants = { <<k[1], k[2]>> : k \in DOMAIN snd_streams }
  /\ meetings = { k[1] : k \in DOMAIN participants }

\* What a peer learns from the messages: an add installs a stream at quality
\* high, a remove deletes it, a set_quality changes its quality.  A message
\* that adds a present stream, or removes or changes an absent one, makes
\* the view Invalid.
Invalid == [invalid |-> TRUE]

ApplyMsg(view, msg) ==
  LET k == <<msg.mid, msg.sip, msg.dip, msg.ssrc>>
  IN IF view = Invalid THEN Invalid
     ELSE CASE msg.api = "add_stream" /\ k \notin DOMAIN view ->
                 view @@ (k :> [ssrc_rtx |-> msg.ssrc_rtx,
                                egress_port |-> msg.eport, quality |-> "high"])
            [] msg.api = "remove_stream" /\ k \in DOMAIN view ->
                 Restrict(view, DOMAIN view \ {k})
            [] msg.api = "set_quality" /\ k \in DOMAIN view ->
                 [view EXCEPT ![k].quality = msg.quality]
            [] OTHER -> Invalid

\* Delta consistency against a peer holding view: applying the messages in
\* flight, in order, to what the peer has applied so far never meets an add
\* of a present stream or a remove of an absent one, and ends at exactly
\* the receive streams the reconciler holds, qualities included.
DeltaReplayFrom(view) ==
  FoldLeft(ApplyMsg, view, ws) = rcv_streams

=============================================================================
