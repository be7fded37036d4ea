------------------------------- MODULE MCCalls -------------------------------
(* Values for the constants of the run of ToolCalls.                        *)
EXTENDS CallProperties, TLC

CONSTANTS n1, n2, v1, c1, k1

\* Both guests are on the node that is allowed.
OneHost == [g \in Guests |-> n1]

\* Words of 6 bits and a kilo of 2: a target that is larger in fewer, smaller or
\* equal in other units, one whose product overflows to a small number, one
\* that does not parse, and "+0" and "+1".
SomeSizes ==
  {[plus |-> FALSE, num |-> 3, unit |-> "K"], [plus |-> FALSE, num |-> 1, unit |-> "G"],
   [plus |-> FALSE, num |-> 5, unit |-> "T"], [plus |-> FALSE, num |-> 40, unit |-> "K"],
   [plus |-> TRUE, num |-> 0, unit |-> "G"], [plus |-> TRUE, num |-> 1, unit |-> "K"]}

OneDisk == [sized : BOOLEAN, entry : {[plus |-> FALSE, num |-> 2, unit |-> "M"]}]

Ask(tools, nodes, forms, sizes) == [tool : tools, node : nodes, confirm : forms, size : sizes]
Switches(ops, shutdown) == [nodeOps : ops, nodeShutdown : shutdown]

\* What call k1 asks for and what the other one does.
Both(asked, others) == {a \in [Calls -> asked \union others] : \A k \in Calls : a[k] \in IF k = k1 THEN asked ELSE others}

\* A preview, or a reboot that was confirmed.
PlainReboot == Ask({"pve_node_reboot"}, {n1}, {"absent", "true"}, {None})

\* A node's reboot, asked for in every way, beside another.
Reboots ==
  [settings : Switches({"text yes"}, {"absent"}),
   args : Both(Ask({"pve_node_reboot"}, {n1}, BoolForms, {None})
               \union Ask({"pve_node_reboot"}, {n2, Invalid}, {"true"}, {None}), PlainReboot)]

\* Its shutdown, or a reboot, under every setting of the two switches.
Gated ==
  [settings : Switches({"text yes", "absent"}, {"text yes", "text other"}),
   args : Both(Ask(NodeTools, {n1}, {"true"}, {None}), Ask({"pve_node_shutdown"}, {n1}, {"absent"}, {None}))]

\* Two resizes, or one and a call of the status tool.
Others ==
  [settings : Switches({"absent"}, {"absent"}),
   args : Both(Ask({"pve_task_status"}, {n2, Invalid}, {"true"}, {None})
               \union Ask({"pve_qemu_resize_disk"}, {n1}, {"absent", "true", "text yes"}, SomeSizes),
               Ask({"pve_qemu_resize_disk"}, {n1}, {"true"}, {t \in SomeSizes : t.num \in {0, 1}}))]

AllScenarios == Reboots \union Gated \union Others
=============================================================================
