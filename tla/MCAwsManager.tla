--------------------------- MODULE MCAwsManager ---------------------------
(***************************************************************************)
(* Instances of AwsManager for TLC: two gateways, one of which may change  *)
(* address, and a NAT gateway that routes may point at as well.            *)
(***************************************************************************)
EXTENDS AwsManager

CONSTANTS g1, g2, a1, a2, b1, eniA1, eniA2, eniB, nat

MCAddr == {a1, a2, b1}
MCEni == {eniA1, eniA2, eniB}
MCEniOf == [a \in MCAddr |-> CASE a = a1 -> eniA1 [] a = a2 -> eniA2 [] a = b1 -> eniB]

OneAddress == [g \in Gateway |-> IF g = g1 THEN {a1} ELSE {b1}]
TwoAddresses == [g \in Gateway |-> IF g = g1 THEN {a1, a2} ELSE {b1}]

(* Lists that do not change, where the first prefix is on that of g1 only. *)
ListsFixed == [g \in Gateway |-> IF g = g1 THEN {{1, 2}} ELSE {{2}}]
ListsChanging == [g \in Gateway |-> IF g = g1 THEN {{1}, {1, 2}} ELSE {{2}}]

(* Every prefix free, on the NAT gateway, or on a dead route to gateway 1. *)
InitialRoutes ==
  {None, [target |-> nat, active |-> TRUE], [target |-> eniA1, active |-> FALSE]}
AnyTables == [Table -> [Prefix -> InitialRoutes]]

(* The first table is of any content, the others are empty. *)
FirstTableAny ==
  {ts \in AnyTables : \A t \in Table \ {1} : ts[t] = [p \in Prefix |-> None]}

=============================================================================
