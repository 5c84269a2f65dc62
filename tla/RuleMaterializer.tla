--------------------------- MODULE RuleMaterializer ---------------------------
(***************************************************************************)
(* The Tofino client's rule materializer (class PRE, tofino_interface.py)  *)
(* and the switch tables it writes through the BF Runtime agent.           *)
(*                                                                         *)
(* The single variable pre is the PRE object: its maps and installed-rule  *)
(* sets under the code's names, the switch tables as tables (one function  *)
(* per table, key -> data), and fault, the exception that ended the       *)
(* client, if any.  A handler is a chain of stages, each a function from   *)
(* the object before to the object after; a stage does nothing once an    *)
(* earlier one returned early (ret) or raised (fault).  An exception is    *)
(* not caught by tofino_client_agent's loop, so it ends the client.        *)
(*                                                                         *)
(* The BF Runtime rejects entry_add of a present key and entry_mod of an   *)
(* absent one; both raise BfruntimeRpcException ("dup_key", "no_entry").   *)
(***************************************************************************)
EXTENDS Integers, Sequences, FiniteSets, SequencesExt, TLC

CONSTANTS
  Addrs,          \* participant addresses <<ip, port>>, ordered as sorted() does
  NO_RTX_SSRC,    \* reserved SSRC meaning "no retransmission stream"
  EGRESS_PORTS,   \* ip -> egress port (the module-level EGRESS_PORTS dict)
  MgidCap,        \* 64000 in the code
  NidCap,         \* 2^32 - 1 in the code
  RidCap,         \* 2^16 - 1 in the code
  CpuPort,        \* TOFINO_MODEL_CPU_PORT or TOFINO_HARDWARE_CPU_PORT
  AV1_DIVISOR     \* AV1_TEMPLATE_ID_MODS[structure]["divisor"]

TemplateIds == 0 .. (2^6 - 1)

ASSUME /\ \A a \in Addrs : a[1] \in DOMAIN EGRESS_PORTS
       /\ {MgidCap, NidCap, RidCap} \subseteq Nat \ {0}
       /\ "L1T2" \in DOMAIN AV1_DIVISOR
       /\ 0 \notin {CpuPort} \cup {EGRESS_PORTS[i] : i \in DOMAIN EGRESS_PORTS}

VARIABLE pre

-----------------------------------------------------------------------------
(* Helpers.                                                                *)

\* dict assignment self.m[k] = v
Put(f, k, v) == (k :> v) @@ f

Rng(f) == { f[k] : k \in DOMAIN f }

\* What the id loops leave when they find no free id: Python's None.
NoneId == 0

\* The allocation loop "for i in range(1, cap + 1): if i not in
\* map.values(): ... break": the smallest id from i on that is unused.
RECURSIVE FirstFree(_, _, _)
FirstFree(used, i, cap) ==
  IF i > cap THEN NoneId
  ELSE IF i \notin used THEN i ELSE FirstFree(used, i + 1, cap)

\* sorted() of a list of (ip, port) tuples: lexicographic order.
AddrLess(a, b) == a[1] < b[1] \/ (a[1] = b[1] /\ a[2] < b[2])

RECURSIVE DictOrderSeq(_)
DictOrderSeq(S) ==
  IF S = {} THEN << >>
  ELSE LET a == CHOOSE x \in S : TRUE IN <<a>> \o DictOrderSeq(S \ {a})

SortedAddrs(S) == SortSeq(DictOrderSeq(S), AddrLess)

Go(st) == st.fault = "none" /\ ~st.ret

\* The ints a rule's Match and Action are built from (ExactKey, IntData,
\* IntArrayData), per table.
RuleInts(t, k, v) ==
  CASE t = "packet_replication" -> {v.mgid, v.rid, v.l2_xid}
    [] t = "node"               -> {k, v.rid, v.port}
    [] t = "mgid"               -> {k} \cup Range(v.nids) \cup Range(v.l1_xids)
    [] t = "prune"              -> {k, v}
    [] t = "ipv4_route"         -> {k[3]}
    [] t = "port"               -> {k}

\* check_type: the wrappers raise BfruntimeRpcException on a None.
Typed(t, k, v) == NoneId \notin RuleInts(t, k, v)

\* BFRuntimeAgent.add_entry / mod_entry on table t, after the Match and
\* Action are built.
AddEntry(st, t, k, v) ==
  IF ~Typed(t, k, v) THEN [st EXCEPT !.fault = "type_mismatch"]
  ELSE IF k \in DOMAIN st.tables[t] THEN [st EXCEPT !.fault = "dup_key"]
  ELSE [st EXCEPT !.tables[t] = Put(@, k, v)]

ModEntry(st, t, k, v) ==
  IF ~Typed(t, k, v) THEN [st EXCEPT !.fault = "type_mismatch"]
  ELSE IF k \notin DOMAIN st.tables[t] THEN [st EXCEPT !.fault = "no_entry"]
  ELSE [st EXCEPT !.tables[t][k] = v]

-----------------------------------------------------------------------------
(* update_av1_svc_structure: flush the template table and install one     *)
(* entry per 6-bit template id.  It does not set self.svc_structure.       *)

ModTable(structure) == [t \in TemplateIds |-> t % AV1_DIVISOR[structure]]

\* Mutant: the structure is recorded before it is validated.
UpdateAv1_assign_first(st, structure) ==
  IF structure \notin DOMAIN AV1_DIVISOR THEN [st EXCEPT !.svc_structure = structure]
  ELSE [st EXCEPT !.svc_structure = structure,
                  !.tables.av1_template_id_mod_lookup = ModTable(structure)]

UpdateAv1(st, structure) ==
  IF structure \notin DOMAIN AV1_DIVISOR THEN st
  ELSE [st EXCEPT !.tables.av1_template_id_mod_lookup = ModTable(structure)]

\* The tables PRE.__init__ loads and flushes, in its order (the receive
\* report, NACK/PLI and layer suppression tables are never written).
TableOrder == <<"av1_template_id_mod_lookup", "packet_replication", "node",
                "mgid", "prune", "ipv4_route", "port">>

\* The switch's tables before the client first starts: all empty.
EmptyTables == [t \in Range(TableOrder) |-> << >>]

\* Mutant: entries are deleted only when there are more than one.
FlushTable_gt1(tbls, t) ==
  IF Cardinality(DOMAIN tbls[t]) > 1 THEN [tbls EXCEPT ![t] = << >>] ELSE tbls

\* BFRuntimeAgent.flush_table: read back every key of the table and delete
\* them all in one entry_del (skipped when there are none).
FlushTable(tbls, t) ==
  IF Cardinality(DOMAIN tbls[t]) > 0 THEN [tbls EXCEPT ![t] = << >>] ELSE tbls

\* PRE.__init__ on a switch whose tables hold tbls: empty maps and
\* installed sets, every table loaded and flushed, the CPU port entry added
\* to $pre.port, then update_av1_svc_structure("L1T2").
NewPre(tbls) ==
  LET st == [sender_meeting_map                   |-> << >>,
             meeting_participants                 |-> << >>,
             meetingparticipant_eport_map         |-> << >>,
             meeting_mgid_map                     |-> << >>,
             participant_nodeid_map               |-> << >>,
             meetingparticipant_replicationid_map |-> << >>,
             meetingparticipant_l1exclusionid_map |-> << >>,
             eport_l2exclusionid_map              |-> << >>,
             tofino_senders_replication           |-> {},
             tofino_participants_nodes            |-> {},
             tofino_mgids_participants            |-> {},
             tofino_eports_l2exclusionids         |-> {},
             tofino_ipv4_routes                   |-> {},
             svc_structure                        |-> "L1T2",
             tables |-> FoldLeft(FlushTable, tbls, TableOrder),
             ret   |-> FALSE,
             fault |-> "none"]
      s1 == AddEntry(st, "port", CpuPort, TRUE)
  IN IF s1.fault # "none" THEN s1 ELSE UpdateAv1(s1, "L1T2")

\* The client's first start.
InitPre == NewPre(EmptyTables)

-----------------------------------------------------------------------------
(* add_stream(mid, sip, sport, ssrc, ssrc_rtx, dip, dport), stage by      *)
(* stage; m is the message, s and d its sender and destination addresses. *)

\* 1.1 Assign sender (and its rtx SSRC) to the meeting, once.
AssignSender(st, m) ==
  IF <<m.sip, m.ssrc>> \in DOMAIN st.sender_meeting_map THEN st
  ELSE [st EXCEPT !.sender_meeting_map =
          LET f == Put(@, <<m.sip, m.ssrc>>, m.mid)
          IN IF m.ssrc_rtx # NO_RTX_SSRC THEN Put(f, <<m.sip, m.ssrc_rtx>>, m.mid)
             ELSE f]

\* 1.2 Add both participants to the meeting's participant list.
AddMembers(st, m) ==
  [st EXCEPT !.meeting_participants =
     Put(@, m.mid, (IF m.mid \in DOMAIN @ THEN @[m.mid] ELSE {})
                   \cup {m.sip, m.dip})]

\* 1.3 and 2.4 and 2.5: keyed maps filled once, for the sender then the
\* destination.
FillOnce(f, keys, V(_)) ==
  [k \in DOMAIN f \cup keys |-> IF k \in DOMAIN f THEN f[k] ELSE V(k)]

AssignEports(st, m) ==
  [st EXCEPT !.meetingparticipant_eport_map =
     FillOnce(@, {<<m.mid, m.sip>>, <<m.mid, m.dip>>},
              LAMBDA k : EGRESS_PORTS[k[2][1]])]

\* Mutant: the allocation loop starts at 2.
Allocate_from2(st, f, k, cap) ==
  IF ~Go(st) \/ k \in DOMAIN st[f] THEN st
  ELSE IF Cardinality(DOMAIN st[f]) = cap THEN [st EXCEPT !.ret = TRUE]
  ELSE [st EXCEPT ![f] = Put(@, k, FirstFree(Rng(@), 2, cap))]

\* Mutant: the cap check is missing; the loop leaves None.
Allocate_nocap(st, f, k, cap) ==
  IF ~Go(st) \/ k \in DOMAIN st[f] THEN st
  ELSE [st EXCEPT ![f] = Put(@, k, FirstFree(Rng(@), 1, cap))]

\* 2.1-2.3: allocate the smallest free id for key k in map f (a field of
\* the PRE object), or return early when the map holds cap ids.
Allocate(st, f, k, cap) ==
  IF ~Go(st) \/ k \in DOMAIN st[f] THEN st
  ELSE IF Cardinality(DOMAIN st[f]) = cap THEN [st EXCEPT !.ret = TRUE]
  ELSE [st EXCEPT ![f] = Put(@, k, FirstFree(Rng(@), 1, cap))]

AllocateIds(st, m) ==
  LET s1 == Allocate(st, "meeting_mgid_map", m.mid, MgidCap)
      s2 == Allocate(s1, "participant_nodeid_map", m.sip, NidCap)
      s3 == Allocate(s2, "participant_nodeid_map", m.dip, NidCap)
      s4 == Allocate(s3, "meetingparticipant_replicationid_map",
                     <<m.mid, m.sip>>, RidCap)
  IN Allocate(s4, "meetingparticipant_replicationid_map",
              <<m.mid, m.dip>>, RidCap)

\* 2.4 L1 exclusion id := replication id; 2.5 L2 exclusion id := eport.
AssignExclusionIds(st, m) ==
  [st EXCEPT
     !.meetingparticipant_l1exclusionid_map =
        FillOnce(@, {<<m.mid, m.sip>>, <<m.mid, m.dip>>},
                 LAMBDA k : st.meetingparticipant_replicationid_map[k]),
     !.eport_l2exclusionid_map =
        FillOnce(@, {EGRESS_PORTS[m.sip[1]], EGRESS_PORTS[m.dip[1]]},
                 LAMBDA e : e)]

\* Mutant: the rule is written without consulting the installed set.
InstallOnce_noguard(st, f, r, t, k, v) ==
  IF ~Go(st) THEN st
  ELSE LET s1 == AddEntry(st, t, k, v)
       IN IF s1.fault # "none" THEN s1 ELSE [s1 EXCEPT ![f] = @ \cup {r}]

\* A rule installed once: the tuple r goes into the installed set f and the
\* entry k -> v into table t, unless r is already in f.
InstallOnce(st, f, r, t, k, v) ==
  IF ~Go(st) \/ r \in st[f] THEN st
  ELSE LET s1 == AddEntry(st, t, k, v)
       IN IF s1.fault # "none" THEN s1 ELSE [s1 EXCEPT ![f] = @ \cup {r}]


\* Mutant: the replication entry is installed for ssrc only, not ssrc_rtx.
AddSenderReplication_nortx(st, m) ==
  LET mgid   == st.meeting_mgid_map[m.mid]
      rid    == st.meetingparticipant_replicationid_map[<<m.mid, m.sip>>]
      l2_xid == st.eport_l2exclusionid_map[
                  st.meetingparticipant_eport_map[<<m.mid, m.sip>>]]
  IN InstallOnce(st, "tofino_senders_replication",
                 <<m.sip, m.ssrc, mgid, rid, l2_xid>>, "packet_replication",
                 <<m.sip, m.ssrc>>, [mgid |-> mgid, rid |-> rid, l2_xid |-> l2_xid])

\* 3.1 packet_replication: (sip, sport, ssrc) -> setup_replication(mgid,
\* rid, l2_xid) with the sender's ids.
AddSenderReplication(st, m) ==
  LET mgid   == st.meeting_mgid_map[m.mid]
      rid    == st.meetingparticipant_replicationid_map[<<m.mid, m.sip>>]
      l2_xid == st.eport_l2exclusionid_map[
                  st.meetingparticipant_eport_map[<<m.mid, m.sip>>]]
      one(s0, x) == InstallOnce(s0, "tofino_senders_replication",
                      <<m.sip, x, mgid, rid, l2_xid>>, "packet_replication",
                      <<m.sip, x>>, [mgid |-> mgid, rid |-> rid, l2_xid |-> l2_xid])
      s1 == one(st, m.ssrc)
  IN IF m.ssrc_rtx # NO_RTX_SSRC THEN one(s1, m.ssrc_rtx) ELSE s1

\* 3.2 $pre.node: node id -> (rid, [eport]), for the sender then the
\* destination.
AddMulticastNodes(st, m) ==
  LET one(s0, a) ==
        LET nid   == s0.participant_nodeid_map[a]
            rid   == s0.meetingparticipant_replicationid_map[<<m.mid, a>>]
            eport == s0.meetingparticipant_eport_map[<<m.mid, a>>]
        IN InstallOnce(s0, "tofino_participants_nodes", <<nid, rid, eport>>,
                       "node", nid, [rid |-> rid, port |-> eport])
  IN one(one(st, m.sip), m.dip)

\* Mutant: the group entry is only ever added, never modified.
UpdateMulticastGroup_addonly(st, m) ==
  LET mgid    == st.meeting_mgid_map[m.mid]
      members == SortedAddrs(st.meeting_participants[m.mid])
      grp     == [nids |-> [i \in 1..Len(members) |->
                              st.participant_nodeid_map[members[i]]],
                  l1_xids |-> [i \in 1..Len(members) |->
                      st.meetingparticipant_l1exclusionid_map[<<m.mid, members[i]>>]]]
  IN IF mgid \notin { x[1] : x \in st.tofino_mgids_participants }
       THEN LET s1 == AddEntry(st, "mgid", mgid, grp)
            IN IF s1.fault # "none" THEN s1
               ELSE [s1 EXCEPT !.tofino_mgids_participants = @ \cup {<<mgid, grp>>}]
     ELSE st

\* 3.3 $pre.mgid: mgid -> node ids and L1 exclusion ids of the meeting's
\* participants in sorted order (validity flags all False, left out).  The
\* entry is added for a new mgid and modified when the lists changed.  A
\* participant listed without a node or exclusion id is a KeyError.
UpdateMulticastGroup(st, m) ==
  LET mgid    == st.meeting_mgid_map[m.mid]
      members == SortedAddrs(st.meeting_participants[m.mid])
      ok      == \A i \in 1..Len(members) :
                   /\ members[i] \in DOMAIN st.participant_nodeid_map
                   /\ <<m.mid, members[i]>> \in DOMAIN st.meetingparticipant_l1exclusionid_map
      grp     == [nids |-> [i \in 1..Len(members) |->
                              st.participant_nodeid_map[members[i]]],
                  l1_xids |-> [i \in 1..Len(members) |->
                      st.meetingparticipant_l1exclusionid_map[<<m.mid, members[i]>>]]]
      r       == <<mgid, grp>>
  IN IF ~Go(st) THEN st
     ELSE IF ~ok THEN [st EXCEPT !.fault = "key_error"]
     ELSE IF mgid \notin { x[1] : x \in st.tofino_mgids_participants }
       THEN LET s1 == AddEntry(st, "mgid", mgid, grp)
            IN IF s1.fault # "none" THEN s1
               ELSE [s1 EXCEPT !.tofino_mgids_participants = @ \cup {r}]
     ELSE IF r \notin st.tofino_mgids_participants
       THEN LET s1 == ModEntry(st, "mgid", mgid, grp)
            IN IF s1.fault # "none" THEN s1
               ELSE [s1 EXCEPT !.tofino_mgids_participants = @ \cup {r}]
     ELSE st

\* Mutant: the L2 exclusion entry is installed for the destination's port.
AddL2Exclusion_dest(st, m) ==
  LET eport  == st.meetingparticipant_eport_map[<<m.mid, m.dip>>]
      l2_xid == st.eport_l2exclusionid_map[eport]
  IN InstallOnce(st, "tofino_eports_l2exclusionids", <<eport, l2_xid>>,
                 "prune", eport, l2_xid)

\* 3.4 $pre.prune: called as add_l2_exclusion_port(eport, l2_xid) against
\* the signature (_l2_xid, _eport), so the key is the eport and the port
\* list holds the l2_xid.
AddL2Exclusion(st, m) ==
  LET eport  == st.meetingparticipant_eport_map[<<m.mid, m.sip>>]
      l2_xid == st.eport_l2exclusionid_map[eport]
  IN InstallOnce(st, "tofino_eports_l2exclusionids", <<eport, l2_xid>>,
                 "prune", eport, l2_xid)

\* Mutant: the route keeps the sender's rid from stage 3.1 (line 343).
AddIpv4Routes_srcrid(st, m) ==
  LET rid == st.meetingparticipant_replicationid_map[<<m.mid, m.sip>>]
      one(s0, x) == InstallOnce(s0, "tofino_ipv4_routes", <<m.sip, x, rid, m.dip>>,
                                "ipv4_route", <<m.sip, x, rid>>, m.dip)
      s1 == one(st, m.ssrc)
  IN IF m.ssrc_rtx # NO_RTX_SSRC THEN one(s1, m.ssrc_rtx) ELSE s1

\* 3.5 ipv4_route: (sip, sport, ssrc, destination rid) -> (dip, dport).
AddIpv4Routes(st, m) ==
  LET rid == st.meetingparticipant_replicationid_map[<<m.mid, m.dip>>]
      one(s0, x) == InstallOnce(s0, "tofino_ipv4_routes", <<m.sip, x, rid, m.dip>>,
                                "ipv4_route", <<m.sip, x, rid>>, m.dip)
      s1 == one(st, m.ssrc)
  IN IF m.ssrc_rtx # NO_RTX_SSRC THEN one(s1, m.ssrc_rtx) ELSE s1

Stage(st, m, Op(_, _)) == IF Go(st) THEN Op(st, m) ELSE st

\* add_stream: the stages in order, each skipped once one
\* has raised.  Every intermediate state is bound once, as the handler's
\* locals are computed once.
AddStream(m) ==
  \E s1 \in {AssignSender(pre, m)} :
  \E s2 \in {AddMembers(s1, m)} :
  \E s3 \in {AssignEports(s2, m)} :
  \E s4 \in {AllocateIds(s3, m)} :
  \E s5 \in {Stage(s4, m, AssignExclusionIds)} :
  \E s6 \in {Stage(s5, m, AddSenderReplication)} :
  \E s7 \in {Stage(s6, m, AddMulticastNodes)} :
  \E s8 \in {Stage(s7, m, UpdateMulticastGroup)} :
  \E s9 \in {Stage(s8, m, AddL2Exclusion)} :
    pre' = [Stage(s9, m, AddIpv4Routes) EXCEPT !.ret = FALSE]

-----------------------------------------------------------------------------
(* tofino_client_agent's dispatch of one received message.  PRE defines no *)
(* remove_stream or set_quality: the call raises AttributeError.          *)

Handle(st, m) ==
  CASE m.api = "update_av1_svc_structure" -> UpdateAv1(st, m.structure)
    [] m.api \in {"remove_stream", "set_quality"} ->
         [st EXCEPT !.fault = "no_handler"]
    [] OTHER -> st

Init == pre = InitPre

\* The client receives message m and handles it, while it is still running.
Receive(m) ==
  /\ pre.fault = "none"
  /\ IF m.api = "add_stream" THEN AddStream(m) ELSE pre' = Handle(pre, m)

-----------------------------------------------------------------------------
(* Properties.                                                             *)

TypeOK ==
  /\ pre.fault \in {"none", "dup_key", "no_entry", "key_error", "no_handler",
                   "type_mismatch"}
  /\ pre.ret = FALSE
  /\ pre.svc_structure \in DOMAIN AV1_DIVISOR
  /\ \A f \in {"meeting_mgid_map", "participant_nodeid_map",
               "meetingparticipant_replicationid_map",
               "meetingparticipant_l1exclusionid_map"} : Rng(pre[f]) \subseteq Nat
  /\ DOMAIN pre.participant_nodeid_map \subseteq Addrs

\* The client never dies of an exception: every add_stream it is sent, in
\* any order and repeated (spec P4), is handled without a duplicate table
\* key, a modify of a missing entry or a KeyError.  The installed-rule sets
\* are keyed by whole rules while the tables are keyed by match fields
\* only, so this fails when two different rules share a match key.
NoFault == pre.fault = "none"

\* The id maps (spec P3, P5): meeting -> MGID, participant -> NID and
\* meeting-participant -> RID are injective and dense from 1, and the L1
\* exclusion id of every meeting-participant is its RID.  The ids are
\* found by the first-free loops of add_stream, stage 2.
IdsBijective ==
  /\ \A f \in {"meeting_mgid_map", "participant_nodeid_map",
               "meetingparticipant_replicationid_map"} :
       /\ Cardinality(Rng(pre[f])) = Cardinality(DOMAIN pre[f])
       /\ Rng(pre[f]) = 1 .. Cardinality(DOMAIN pre[f])
  /\ pre.meetingparticipant_l1exclusionid_map
       = pre.meetingparticipant_replicationid_map

\* Sender exclusion (spec section 3): for every packet_replication entry of
\* a sender, the replication engine's L2 pruning -- a copy is pruned when
\* its node's RID equals the packet RID and its port is listed for the
\* packet's L2 exclusion id -- removes exactly the copy to the sender's own
\* node among the nodes of the packet's multicast group.
SenderExcluded ==
  LET T == pre.tables IN
  \A k \in DOMAIN T.packet_replication :
    LET e == T.packet_replication[k] IN
    /\ e.mgid \in DOMAIN T.mgid
    /\ e.l2_xid \in DOMAIN T.prune
    /\ \A i \in DOMAIN T.mgid[e.mgid].nids :
         LET n == T.mgid[e.mgid].nids[i] IN
         /\ n \in DOMAIN T.node
         /\ (T.node[n].rid = e.rid /\ T.node[n].port = T.prune[e.l2_xid])
              <=> n = pre.participant_nodeid_map[k[1]]

\* The multicast group of every meeting lists the node ids and L1 exclusion
\* ids of exactly its current participants, in sorted address order, so
\* the same membership always gives the same entry.
GroupMatchesMembers ==
  \A mid \in DOMAIN pre.meeting_mgid_map :
    LET members == SortedAddrs(pre.meeting_participants[mid]) IN
    /\ pre.meeting_mgid_map[mid] \in DOMAIN pre.tables.mgid
    /\ pre.tables.mgid[pre.meeting_mgid_map[mid]]
         = [nids |-> [i \in 1..Len(members) |->
                        pre.participant_nodeid_map[members[i]]],
            l1_xids |-> [i \in 1..Len(members) |->
                  pre.meetingparticipant_l1exclusionid_map[<<mid, members[i]>>]]]

\* The SVC structure the client records (self.svc_structure, which the
\* quality handling of the spec reads) is the one the template-id table
\* was last built for by update_av1_svc_structure.
SvcStructureCurrent ==
  pre.tables.av1_template_id_mod_lookup = ModTable(pre.svc_structure)

=============================================================================
