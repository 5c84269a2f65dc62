---------------------------- MODULE PreLimitProbe ----------------------------
(***************************************************************************)
(* test_pre_limits.py: a probe that fills the $pre.node table with node   *)
(* id -> (rid, [port]) entries, reading each one back, until an add fails  *)
(* or an entry reads back different.  The hardware is part of the state:   *)
(* its node table holds cap entries (unknown to the probe, chosen by Init) *)
(* and it stores an egress port above PortMax as PortRound.                *)
(***************************************************************************)
EXTENDS Naturals, FiniteSets, TLC

CONSTANTS
  MaxCap,     \* largest node table capacity the model lets the hardware have
  RidMod,     \* 65536: the probe wraps the replication id at RidMod
  RidWidth,   \* the hardware's RID field holds values below RidWidth
  PortMod,    \* 72: the probe wraps the egress port at PortMod
  PortMax,    \* 71: the largest egress port the hardware stores as given
  PortRound   \* 128: what the hardware stores for a larger port

ASSUME MaxCap \in Nat \ {0} /\ PortMax < PortRound

VARIABLES
  cap,             \* the hardware's node table capacity
  table,           \* $pre.node: node id -> [rid, port] as stored
  node_id, replication_id, egress_port,
  pc               \* "run", or how the loop ended: "mismatch" or "error"

vars == <<cap, table, node_id, replication_id, egress_port, pc>>

\* What the hardware keeps of an entry written with rid r and port e.
Stored(r, e) ==
  [rid |-> r % RidWidth, port |-> IF e <= PortMax THEN e ELSE PortRound]

\* bfa.add_entry raises when the key is present or the table is full.
AddFails(n) == n \in DOMAIN table \/ Cardinality(DOMAIN table) >= cap

\* bfa.get_entry of node id n after it was written: the stored entry.
GetEntry(tbl, n) == tbl[n]

\* The probe starts on a freshly loaded and flushed $pre.node.
Init ==
  /\ cap \in 1 .. MaxCap
  /\ table = [n \in {} |-> Stored(0, 0)]
  /\ node_id = 0 /\ replication_id = 0 /\ egress_port = 0
  /\ pc = "run"

\* The body of the while loop once the counters are advanced to node id n,
\* rid r and port e: add the entry, read it back and compare; an exception
\* or a mismatch ends the loop.
Iterate(n, r, e) ==
  /\ pc = "run"
  /\ node_id' = n /\ replication_id' = r /\ egress_port' = e
  /\ IF AddFails(n)
       THEN pc' = "error" /\ UNCHANGED table
       ELSE LET t2 == table @@ (n :> Stored(r, e))
            IN /\ table' = t2
               /\ pc' = IF GetEntry(t2, n) = [rid |-> r, port |-> e]
                          THEN "run" ELSE "mismatch"
  /\ UNCHANGED cap

\* Mutant: the egress port is not wrapped.
Step_nowrap ==
  Iterate(node_id + 1, (replication_id + 1) % RidMod, egress_port + 1)

\* One iteration: node_id, replication_id and egress_port advance, the last
\* two wrapping at 65536 and 72.
Step ==
  Iterate(node_id + 1, (replication_id + 1) % RidMod, (egress_port + 1) % PortMod)

Next == Step

Spec == Init /\ [][Next]_vars

-----------------------------------------------------------------------------
\* The probe's counters stay in the ranges it wraps them to.
TypeOK ==
  /\ cap \in 1 .. MaxCap
  /\ DOMAIN table \subseteq 1 .. node_id
  /\ node_id \in 0 .. MaxCap + 1
  /\ replication_id \in 0 .. RidMod - 1 /\ egress_port \in 0 .. PortMod - 1
  /\ pc \in {"run", "mismatch", "error"}

=============================================================================
