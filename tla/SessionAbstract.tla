---------------------------- MODULE SessionAbstract ----------------------------
(***************************************************************************)
(* What the session reconciler promises (spec sections 3 and 4.3), with   *)
(* no messages and no bookkeeping: the send streams clients publish, the   *)
(* egress port each participant got when it joined, and a quality for     *)
(* every receive stream -- one per send stream and other participant of   *)
(* its meeting.  A topology change keeps the quality of every receive     *)
(* stream that survives it and gives the new ones "high".                  *)
(***************************************************************************)
EXTENDS Integers, FiniteSets, Functions, TLC

CONSTANTS Meetings, Addrs, Ssrcs, RtxOf, Eports, Qualities

VARIABLES
  streams,  \* <<mid, addr, ssrc>> -> rtx SSRC of a published send stream
  eport,    \* <<mid, addr>> -> egress port of a participant
  quality   \* <<mid, sip, dip, ssrc>> -> quality of a receive stream

avars == <<streams, eport, quality>>

\* The receive streams the send streams S owe the participants E.
Receivers(S, E) ==
  { <<s[1], s[2], p[2], s[3]>> :
      <<s, p>> \in { x \in (DOMAIN S) \X (DOMAIN E) :
                       x[1][1] = x[2][1] /\ x[1][2] # x[2][2] } }

\* Receive streams after a topology change: survivors keep their quality.
Requalify(S, E) ==
  [k \in Receivers(S, E) |-> IF k \in DOMAIN quality THEN quality[k] ELSE "high"]

Init == streams = << >> /\ eport = << >> /\ quality = << >>

\* A client publishes a new send stream; a participant new to the meeting
\* joins with egress port e.
Publish(m, a, x, e) ==
  LET S == streams @@ (<<m, a, x>> :> RtxOf[x])
      E == IF <<m, a>> \in DOMAIN eport THEN eport ELSE eport @@ (<<m, a>> :> e)
  IN /\ <<m, a, x>> \notin DOMAIN streams
     /\ streams' = S
     /\ eport' = E
     /\ quality' = Requalify(S, E)

\* A send stream ends; its participant leaves with its last stream.
Unpublish(m, a, x) ==
  LET S == Restrict(streams, DOMAIN streams \ {<<m, a, x>>})
      E == IF \E k \in DOMAIN S : k[1] = m /\ k[2] = a THEN eport
           ELSE Restrict(eport, DOMAIN eport \ {<<m, a>>})
  IN /\ <<m, a, x>> \in DOMAIN streams
     /\ streams' = S
     /\ eport' = E
     /\ quality' = Requalify(S, E)

\* A receiver's quality of one receive stream changes.
Choose(k, q) ==
  /\ k \in DOMAIN quality
  /\ quality' = [quality EXCEPT ![k] = q]
  /\ UNCHANGED <<streams, eport>>

Next ==
  \/ \E m \in Meetings, a \in Addrs, x \in Ssrcs, e \in Eports : Publish(m, a, x, e)
  \/ \E m \in Meetings, a \in Addrs, x \in Ssrcs : Unpublish(m, a, x)
  \/ \E k \in DOMAIN quality, q \in Qualities : Choose(k, q)

Spec == Init /\ [][Next]_avars
=============================================================================
