-------------------------- MODULE MCYandexManager --------------------------
(***************************************************************************)
(* Instances of YandexManager for TLC: up to three gateways with lists of  *)
(* their own, a prefix that is on nobody's list, and a foreign next hop.   *)
(***************************************************************************)
EXTENDS YandexManager

CONSTANTS g1, g2, g3, ip1, ip2, ip3, nat

MCAddressOf ==
  [g \in Gateway |-> CASE g = g1 -> ip1 [] g = g2 -> ip2 [] g = g3 -> ip3]

ListsAlone == [g \in Gateway |-> {{"a", "b"}}]
ListsApart == [g \in Gateway |-> {{CASE g = g1 -> "a" [] g = g2 -> "b" [] g = g3 -> "c"}}]

AnyTables == [Table -> [Prefix -> {None, nat}]]

(* The first table is of any content, the others are empty. *)
FirstTableAny == {ts \in AnyTables : \A t \in Table \ {1} : ts[t] = NoRoutes}

EmptyTables == {[t \in Table |-> NoRoutes]}

=============================================================================
