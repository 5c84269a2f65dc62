# TLA+ models of the Scallop Tofino control plane

This directory holds TLA+ models of the control plane under
`src/hardware/tofino/control_plane/`, the TLC configurations that check them,
and `PROJECT.json`. `PROJECT.json` lists the components, runs, mutants, the
source lines each definition models, the findings and the hazards.

## The system

Two processes talk over one WebSocket (`ws://localhost:8765`):

* **Session reconciler**: `SFUSwitchAgent` in `sfu_switch_agent.py`, the
  WebSocket server.
  * It keeps `meetings`, `participants` ((mid, ip, port) -> egress port),
    `snd_streams` ((mid, ip, port, ssrc) -> ssrc_rtx, media) and the derived
    `rcv_streams` ((mid, sip, sport, dip, dport, ssrc) -> ssrc_rtx, egress
    port, quality).
  * `add_stream` and `remove_stream` change the topology. They create or
    delete participants and meetings, then call `recompose_receive_streams`.
  * That call computes the receive streams every send stream owes every other
    participant of its meeting. It sends a `remove_stream` message for each
    stale stream, then an `add_stream` message for each new one.
  * `set_quality` changes one receive stream and sends `set_quality`.
  * A new agent is created for every connection. The process exits when the
    handler ends (`os._exit(0)`).
* **Rule materializer**: class `PRE` in `tofino_interface.py`, inside the
  client loop `tofino_client_agent`.
  * It receives each message and calls the PRE method named by `api`.
  * `PRE.add_stream` has three groups of stages:
    * local maps (stages 1.1-1.3);
    * identifier allocation, where the MGID, node id (NID), replication id
      (RID) and L1/L2 exclusion ids are each the first free id under a cap
      (stages 2.1-2.5);
    * switch rules, written through `BFRuntimeAgent.add_entry/mod_entry` in
      `bfrt_agent.py` (stages 3.1-3.5).
  * Each rule is guarded by an "installed" set.
  * `PRE.__init__` loads and flushes every table (`flush_table`), then adds
    the CPU port entry. The `Match`/`Action` wrappers of `bfrt_agent.py`
    check that every id is an int; a `None` raises.
  * `update_av1_svc_structure` rebuilds the AV1 template table.
  * `PRE` defines no `remove_stream` or `set_quality`.
  * The `PRE` object is built once, outside the reconnect loop.
* The server creates a fresh `SFUSwitchAgent` per connection and exits
  when the handler ends; the client catches the closed connection, sleeps
  and reconnects, keeping its `PRE`.
* `ports.py` maps port names to egress port numbers.
* `test_pre_limits.py` is a probe script run by hand: it flushes `$pre.node`
  and writes node entries, reading each back with `get_entry`, until an
  add fails or an entry reads back different, to find the table's size.

## Modules

| Module | Models | State | Actions |
|---|---|---|---|
| `SessionReconciler` | `SFUSwitchAgent` | `meetings`, `participants`, `snd_streams`, `rcv_streams`, `ws` (messages sent and not yet received) | `add_stream`, `remove_stream`, `set_quality`; each one calls `Recompose` as its last step, as the code does |
| `MC_SessionReconciler` | adds a peer at the other end of the socket | `peer`, the receive streams learnt from the messages | `Deliver` takes the head of `ws` and applies it (`ApplyMsg`) |
| `RuleMaterializer` | `PRE`, the BF Runtime tables, `tofino_client_agent` dispatch | `pre`: every PRE map and installed set under its code name, the tables, `ret` (an early `return` was taken), `fault` (the exception that ended the client) | `Receive(m)`: handle one message |
| `MC_RuleMaterializer` | the inputs of the client | none | messages: every `add_stream` the reconciler can send for the test meeting's participants, SVC structure updates, and optionally `remove_stream` |
| `SessionAbstract` | what the reconciler promises | `streams` (send streams), `eport` (participant -> egress port), `quality` (receive stream -> quality) | `Publish`, `Unpublish`, `Choose`; the receive streams are `Receivers(streams, eport)`, derived, not stored |
| `SwitchForwarding` | what the client promises | `fwd` (flows <<sender, SSRC, destination>> forwarded), `chan` (add_stream messages not yet handled) | `Send`, `Apply` (adds exactly the message's flows), `Drop` (unsent suffix lost), `Flush` (client restart) |
| `Sfu` | the two processes together: `SessionReconciler` and `RuleMaterializer` instantiated over shared `ws` | the reconciler's variables, `ws`, `pre`, `restarts`, `client_restarts` | `AddStream` (a reconciler handler), `ClientRecv` (the client handles the head of `ws`), `Restart` (the server's connection ends), `ClientRestart` (the client process starts again: `PRE.__init__` flushes the switch, the server serves the new connection with a new agent) |
| `MC_Sfu` | constants for `Sfu` | none | none |
| `PreLimitProbe` | `test_pre_limits.py` and the hardware it probes | `cap` (the node table's capacity, chosen by `Init`), `table` (`$pre.node` as stored), the loop counters `node_id`, `replication_id`, `egress_port`, `pc` (running, or how the loop ended) | `Step`: one loop iteration (`Iterate`: add, read back, compare, break on an exception or a mismatch) |

Notes on the mapping to the code:

* Python dict iteration order fixes the order of the deltas within one
  recompose. It is modelled as a fixed order of the keys (`DictOrder`).
* An address `(ip, port)` is a pair `<<ip, port>>`.
* `media_type` is left out because no decision reads it.
* `add_stream` of the materializer is a chain of functions on the `pre`
  record, one per stage. `AddStream(m)` binds each stage's result once and
  sets `pre'` to the last.
  * `Go` stops the chain after an early `return` or an exception, so an
    action is the whole handler.
  * `AddEntry` raises `dup_key` on a present key; `ModEntry` raises
    `no_entry` on an absent one. These are the `BfruntimeRpcException`s of
    `entry_add` and `entry_mod`.
  * An exception is not caught by the client loop, which only catches
    connection errors. So `fault` ends the client: `Receive` is then
    disabled.

## Runs

| Run | Cfg | Expect | What it shows |
|---|---|---|---|
| `sr_reconcile` | `MC_SessionReconciler.cfg` | pass | Every interleaving of `add_stream`/`remove_stream`/`set_quality` and message delivery keeps the session state consistent, the peer's replay matches it, and `SessionReconciler` implements `SessionAbstract` |
| `rm_materialize` | `MC_RuleMaterializer.cfg` | pass | Any order and repetition of one meeting's `add_stream` messages, mixed with SVC updates, installs correct rules without an exception |
| `rm_no_remove_handler` | `MC_RM_NoRemoveHandler.cfg` | violation | A `remove_stream` message kills the client |
| `rm_shared_participant` | `MC_RM_SharedParticipant.cfg` | violation | One sender in two meetings kills the client with a duplicate key |
| `rm_rid_exhausted` | `MC_RM_RidExhausted.cfg` | violation | The early return at the RID cap leaves a half-added member; the next add raises `KeyError` |
| `rm_svc_structure` | `MC_RM_SvcStructure.cfg` | violation | `self.svc_structure` is stale after `update_av1_svc_structure` |
| `sfu_deliver` | `MC_Sfu.cfg` | pass | The client never dies, also across a restart of its own; when it has handled everything sent, the switch delivers exactly the reconciler's receive streams |
| `sfu_converge` | `MC_Sfu_Converge.cfg` | pass | With a server restart that loses messages and a client restart, the composition implements `SwitchForwarding`, and the switch still again and again delivers every receive stream |
| `sfu_restart_stale` | `MC_Sfu_Restart.cfg` | violation | After a server restart the switch keeps forwarding the old session's streams (a gap in the spec: it expects the client to keep its state, and says nothing of removing it) |
| `sfu_eport` | `MC_Sfu_Eport.cfg` | violation | Copies leave on `EGRESS_PORTS[ip]`, not on the egress port the reconciler sent |
| `sfu_mgid_cap` | `MC_Sfu_MgidCap.cfg` | pass | At the MGID cap the second meeting is dropped, as the spec's `CapacityExhausted` says; the client survives and the first meeting is served in full |
| `probe_capacity` | `MC_PreLimitProbe.cfg` | pass | For every node table capacity up to 14, the probe's counters stay within their wraps through the whole loop |

Properties:

* **Reconciler:**
  * `ReceiveStreamLaw`: the receive streams are exactly the (send stream,
    other participant) pairs, with the right rtx SSRC and egress port.
  * `SessionLifecycle`: participants and meetings exist exactly while they
    own streams.
  * `DeltaReplay`: the in-flight messages applied to the peer's view, in
    order, never add a present or remove an absent stream, and give exactly
    `rcv_streams`.
* **Materializer:**
  * `NoFault`: the client never raises.
  * `IdsBijective`: the id maps are injective and dense, and L1 exclusion
    id = RID.
  * `SenderExcluded`: with the PRE's L2 prune semantics, each sender's
    packets reach every group member except the sender.
  * `GroupMatchesMembers`: each multicast group lists exactly the sorted
    current members.

* **Refinement:** `RefinesAbstract` is `SessionAbstract!Spec` under the
  mapping `streams <- snd_streams`, `eport <- participants`,
  `quality <- ` the qualities of `rcv_streams`; `ws` and `meetings` are
  hidden. It says that a handler changes the receive streams only as the
  change of send streams dictates, keeps the qualities of surviving
  streams (the quality preservation of spec P2) and never moves a
  participant to another port.
* **Composition (`Sfu`):**
  * `Copies(s, x)` is what the switch does with the tables (from the spec;
    the P4 program is not in the repository): replication to the group's
    nodes, minus the L2 prune, rewritten by `ipv4_route`.
  * `HardwareMatchesSessions`: when `ws` is empty and the client alive,
    every SSRC of every receive stream reaches its destination, and every
    copy is a receive stream.
  * `EgressPortAgrees`: a copy leaves on the destination's egress port.
  * `ClientAlive`: the client never raises, also after restarting on a
    switch that still holds rules.
  * `MgidSoftFail`: at the MGID cap the client survives and every meeting
    with a group is served once the client is quiet.
  * `RefinesForwarding`: `SwitchForwarding!Spec` under the mapping `fwd <-`
    the routed copies of `Copies`, `chan <- ws`. Handling one message adds
    exactly its stream's flows, even though it rewrites the multicast group
    every sender of the meeting replicates to.
  * `Converges` (liveness): `[]<>` all receive streams are delivered.
* **Limit probe:** only its type invariant is checked: the counters stay
  within their wraps. With the hardware's field widths as the script's
  comment gives them (rid field 65536, ports up to 71), the probe always
  stops on the add to the full table. That follows from the constants and
  from how `AddFails` is written, so it is not stated as a property.

Each property of a passing run has a mutant in `PROJECT.json`: a plausible
bug in the mapped definition that TLC finds.

## Bounds

* **`sr_reconcile`:**
  * One meeting and three participants. These are the test scenario's
    ports; three is the least number of participants for which removing
    one leaves a meeting.
  * Two SSRCs, one with an rtx stream and one without.
  * Two port names, so that a participant could be moved (which
    `RefinesAbstract` forbids), and set_quality to `base`. This is the only
    value that differs from the initial `high`.
  * At most 1 message in flight. Every mutant is still found with it.
  * This is 2.3 million states. Deadlock checking is off only because the
    in-flight bound stops the handlers.
* **`rm_materialize`:**
  * Three participants on two IPs. Two IPs give two egress ports, so
    exclusion by port is non-trivial.
  * Both SSRC kinds, and the SVC structures `L1T2`, `L1T3` and an unknown
    one.
  * Caps MGID 2, NID 3, RID 3: exactly enough that the passing run never
    reaches a cap.
  * The violation runs change one of these bounds (RID cap 2, a second
    meeting, a `remove_stream` message) to reach the behaviour they show.
* **`sfu_*`:** one meeting, three participants, two SSRCs, one port name,
  add_stream only (the client has no remove or quality handler: those
  messages end it, which `rm_no_remove_handler` shows), caps as in
  `rm_materialize`. A server restart loses any suffix of the unsent
  messages. The violation runs change one bound: a server restart, or two
  message slots so that the egress port mismatch shows.
  * `sfu_deliver` allows one client restart; `sfu_converge` one of each
    kind of restart with one message in flight (184 thousand states;
    checking the fairness condition makes every state costly).
  * `sfu_mgid_cap`: two meetings of two participants each (four
    addresses), MGID cap 1, node and RID caps 4. The state constraint
    `OneMeetingEach` keeps every participant in one meeting; a participant
    in two meetings is the separate bug `rm_shared_participant` shows.
* **`probe_capacity`:** every capacity from 1 to 14. The hardware's
  65536 and 72 are scaled down to a rid field of 4 values and ports 0..2.
  A port above 2 is stored as 4. Both wraps and both fields are reached:
  capacity 14 takes the rid through three wraps and the port through four.
  The run is one path per capacity (133 states). The script stops, so
  deadlock checking is off.
* **Fairness:** only `sfu_converge` assumes any: weak fairness of
  `ClientRecv`, since the client loop always awaits the next message
  (`tofino_interface.py:414`) and a message handed to the socket arrives.
  The specification states it as `WF_vars(ClientRecv)`. The reconciler
  gets no fairness: nothing forces a participant to join, and restarts are
  failures that may or may not happen. So that TLC can evaluate
  `ENABLED ClientRecv` quickly, `RuleMaterializer!AddStream` binds each
  stage's result once (`\E s1 \in {...}`), just as the handler computes
  each of its locals once.

## Not modelled

* `remove_stream` and `set_quality` in the composition: the client has no
  handler for them, so after the first one it is dead (shown in isolation).
* The receive-report and NACK/PLI forwarding messages: the reconciler never
  sends them.
* argparse and socket setup, logging, and the probe's printing.
* `bfrt_agent.py`: gRPC setup, `load_table`, and `del_entry` and
  `print_table`, which nothing calls. (`get_entry` is the probe's
  read-back.)
* The data plane beyond the forwarding of one packet per rule family.
