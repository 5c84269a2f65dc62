--------------------------- MODULE SwitchForwarding ---------------------------
(***************************************************************************)
(* What the Tofino client promises the reconciler (spec section 4.4), with *)
(* no ids, groups or rule sets: the switch forwards a set of flows         *)
(* <<sender, SSRC, destination>>, and handling one add_stream message adds *)
(* the flows of that receive stream -- its SSRC and its rtx SSRC -- and    *)
(* nothing else.  The WebSocket is the reconciler's ordered queue chan.    *)
(***************************************************************************)
EXTENDS Integers, Sequences

CONSTANT NO_RTX_SSRC

VARIABLES
  fwd,   \* the flows the switch forwards to their destination
  chan   \* add_stream messages sent and not yet handled, oldest first

fvars == <<fwd, chan>>

\* The flows receive stream m asks for.
Flows(m) ==
  { <<m.sip, x, m.dip>> : x \in {m.ssrc} \cup ({m.ssrc_rtx} \ {NO_RTX_SSRC}) }

Init == fwd = {} /\ chan = << >>

\* The reconciler appends add_stream messages.
Send ==
  /\ Len(chan') > Len(chan)
  /\ SubSeq(chan', 1, Len(chan)) = chan
  /\ \A i \in Len(chan) + 1 .. Len(chan') : chan'[i].api = "add_stream"
  /\ UNCHANGED fwd

\* The client handles the oldest message.
Apply ==
  /\ chan # << >>
  /\ fwd' = fwd \cup Flows(Head(chan))
  /\ chan' = Tail(chan)

\* The connection ends and the messages not yet sent are lost.
Drop ==
  /\ \E n \in 0 .. Len(chan) - 1 : chan' = SubSeq(chan, 1, n)
  /\ UNCHANGED fwd

\* The client starts again on a flushed switch; its connection's messages
\* are lost.
Flush == fwd' = {} /\ chan' = << >>

Next == Send \/ Apply \/ Drop \/ Flush

Spec == Init /\ [][Next]_fvars
=============================================================================
