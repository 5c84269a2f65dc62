--------------------------------- MODULE Sfu ---------------------------------
(***************************************************************************)
(* The two processes together: the session reconciler (sfu_switch_agent,  *)
(* the WebSocket server), the WebSocket, and the Tofino client with its    *)
(* PRE object and the switch tables (tofino_interface).                    *)
(*                                                                         *)
(* The server creates a fresh SFUSwitchAgent for every connection          *)
(* (sfu_switch_agent.py:334) and the process ends with os._exit(0) when    *)
(* the handler returns (line 428); a send that raises ends the handler     *)
(* too.  The client catches the closed connection, sleeps and reconnects   *)
(* (tofino_interface.py:456-461), keeping the PRE object built once before *)
(* its loop (line 402).  Messages already handed to the kernel reach the  *)
(* client; the rest are lost.                                              *)
(***************************************************************************)
EXTENDS Integers, Sequences, FiniteSets

CONSTANTS
  Meetings, Addrs, Ssrcs, RtxOf, NO_RTX_SSRC, PortNames, PortEport,
  QualityInputs, MaxInFlight,                     \* as in SessionReconciler
  EGRESS_PORTS, MgidCap, NidCap, RidCap, CpuPort,
  AV1_DIVISOR,                                    \* as in RuleMaterializer
  MaxRestarts,       \* bound on the number of server restarts
  MaxClientRestarts  \* bound on the number of client restarts

VARIABLES
  meetings, participants, snd_streams, rcv_streams,  \* the reconciler
  ws,                                                \* sent, not yet received
  pre,                                               \* the Tofino client
  restarts,                                          \* server restarts so far
  client_restarts                                    \* client restarts so far

srvars == <<meetings, participants, snd_streams, rcv_streams>>
vars == <<meetings, participants, snd_streams, rcv_streams, ws, pre, restarts,
          client_restarts>>

SR == INSTANCE SessionReconciler
RM == INSTANCE RuleMaterializer

Init == SR!Init /\ RM!Init /\ restarts = 0 /\ client_restarts = 0

\* A reconciler handler runs to completion; the client is untouched.
AddStream ==
  /\ \E m \in Meetings, a \in Addrs, x \in Ssrcs, pn \in PortNames :
       SR!add_stream(m, a, x, pn)
  /\ UNCHANGED <<pre, restarts, client_restarts>>

\* tofino_client_agent receives the oldest message and handles it.
ClientRecv ==
  /\ ws # << >>
  /\ RM!Receive(Head(ws))
  /\ ws' = Tail(ws)
  /\ UNCHANGED <<srvars, restarts, client_restarts>>

\* A new connection is served by a new SFUSwitchAgent (line 334).
NewSession ==
  /\ meetings' = {}
  /\ participants' = << >>
  /\ snd_streams' = << >>
  /\ rcv_streams' = << >>

\* The server's connection ends: the messages not yet handed to the kernel
\* are lost, the next connection starts a new, empty SFUSwitchAgent, and
\* the client reconnects with its PRE object as it was.
Restart ==
  /\ restarts < MaxRestarts
  /\ \E n \in 0 .. Len(ws) : ws' = SubSeq(ws, 1, n)
  /\ NewSession
  /\ restarts' = restarts + 1
  /\ UNCHANGED <<pre, client_restarts>>

\* The client process ends (an exception it does not catch, or it is
\* killed) and is started again: PRE.__init__ flushes the tables it
\* finds on the switch.  The server's handler raises at its next send on
\* the closed connection and what it had not yet sent is lost; the new
\* connection gets a new, empty SFUSwitchAgent.
ClientRestart ==
  /\ client_restarts < MaxClientRestarts
  /\ ws' = << >>
  /\ NewSession
  /\ pre' = RM!NewPre(pre.tables)
  /\ client_restarts' = client_restarts + 1
  /\ UNCHANGED restarts

Next == AddStream \/ ClientRecv \/ Restart \/ ClientRestart

\* The client loop always awaits the next message (line 414): once one is
\* in flight it is eventually received.  Nothing forces the server to act.
\* Weak fairness of ClientRecv only: Restart and ClientRestart are failures
\* the environment may or may not cause.
Fairness == WF_vars(ClientRecv)

Spec == Init /\ [][Next]_vars /\ Fairness

-----------------------------------------------------------------------------
(* What the switch does with the tables: a packet from sender s with SSRC *)
(* x matches packet_replication, is replicated to every node of the       *)
(* multicast group except those the L2 prune removes (node RID equal to   *)
(* the packet RID and node port listed for the packet's L2 exclusion id),  *)
(* and each copy is rewritten by ipv4_route on (s, x, node RID).           *)

Unrouted == <<"unrouted">>

Copies(s, x) ==
  LET T == pre.tables IN
  IF <<s, x>> \notin DOMAIN T.packet_replication THEN {}
  ELSE
    LET e == T.packet_replication[<<s, x>>]
        nodes == IF e.mgid \in DOMAIN T.mgid
                   THEN { T.mgid[e.mgid].nids[i] : i \in DOMAIN T.mgid[e.mgid].nids }
                   ELSE {}
        kept == { n \in nodes \cap DOMAIN T.node :
                    ~ (T.node[n].rid = e.rid
                       /\ e.l2_xid \in DOMAIN T.prune
                       /\ T.node[n].port = T.prune[e.l2_xid]) }
    IN { [dst  |-> IF <<s, x, T.node[n].rid>> \in DOMAIN T.ipv4_route
                     THEN T.ipv4_route[<<s, x, T.node[n].rid>>] ELSE Unrouted,
          port |-> T.node[n].port] : n \in kept }

\* The SSRCs of receive stream k that reach the destination.
StreamSsrcs(k) ==
  {k[4]} \cup (IF rcv_streams[k].ssrc_rtx # NO_RTX_SSRC
                 THEN {rcv_streams[k].ssrc_rtx} ELSE {})

\* Every message sent has been handled and the client is still running.
Quiescent == ws = << >> /\ pre.fault = "none"

-----------------------------------------------------------------------------
(* Properties.                                                             *)

\* End-to-end delivery (spec sections 3 and 4.4): once the client has
\* handled everything the reconciler sent, the switch delivers every SSRC
\* of every receive stream to its destination, and delivers no copy that
\* is not a receive stream of the reconciler.  The reconciler derives the
\* streams; the client turns the add_stream deltas into five rule families
\* through ids allocated on its own.
HardwareMatchesSessions ==
  Quiescent =>
    /\ \A k \in DOMAIN rcv_streams : \A x \in StreamSsrcs(k) :
         \E c \in Copies(k[2], x) : c.dst = k[3]
    /\ \A s \in Addrs, x \in Ssrcs \cup {RtxOf[y] : y \in Ssrcs} : \A c \in Copies(s, x) :
         \E k \in DOMAIN rcv_streams :
           k[2] = s /\ k[3] = c.dst /\ x \in StreamSsrcs(k)

\* Each copy leaves on the destination participant's egress port, the one
\* the reconciler resolved from the participant's port name and sent as
\* "eport" in add_stream.
EgressPortAgrees ==
  \A k \in DOMAIN rcv_streams : \A x \in StreamSsrcs(k) :
    \A c \in Copies(k[2], x) : c.dst = k[3] => c.port = rcv_streams[k].egress_port

\* The client survives everything the reconciler sends it, including its
\* own restarts: PRE.__init__ must leave no entry behind on the switch
\* that the new PRE would add again (entry_add of a present key raises and
\* nothing catches it).
ClientAlive == pre.fault = "none"

\* The flows the switch forwards with a destination rewrite, as
\* SwitchForwarding sees them.
RoutedFlows ==
  UNION { { <<p[1], p[2], c.dst>> : c \in { c2 \in Copies(p[1], p[2]) : c2.dst # Unrouted } } :
            p \in Addrs \X (Ssrcs \cup {RtxOf[y] : y \in Ssrcs}) }

\* A receive stream of the reconciler is delivered by the switch.
Delivered(k) == \A y \in StreamSsrcs(k) : \E c \in Copies(k[2], y) : c.dst = k[3]

\* At the MGID cap (tofino_interface.py:291) the add_stream of a meeting
\* that gets no multicast group is dropped with a log line, as the spec's
\* CapacityExhausted asks: the client keeps running and, once it is quiet,
\* every meeting that has a group is served in full.
MgidSoftFail ==
  /\ pre.fault = "none"
  /\ Quiescent => \A k \in DOMAIN rcv_streams :
                    k[1] \in DOMAIN pre.meeting_mgid_map => Delivered(k)

Fwd == INSTANCE SwitchForwarding WITH fwd <- RoutedFlows, chan <- ws

\* Refinement: the client implements SwitchForwarding.  Handling an
\* add_stream message makes the switch forward that receive stream's SSRCs
\* to its destination and changes no other flow -- although it rewrites
\* the multicast group every sender of the meeting replicates to -- and a
\* client restart leaves nothing forwarded.
RefinesForwarding == Fwd!Spec

\* Convergence: whatever the reconciler has done, including a restart that
\* lost messages, the switch again and again comes to deliver every one of
\* the reconciler's receive streams -- nothing sent is left undone for
\* ever.
Converges == []<>(\A k \in DOMAIN rcv_streams : Delivered(k))

=============================================================================
