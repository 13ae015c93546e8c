---------------------------- MODULE RouteTables ----------------------------
(***************************************************************************)
(* What cloud.Manager.Sync promises, whatever the provider, told as the    *)
(* changes that may be seen in the route tables: a gateway instance points *)
(* prefixes of its own list at itself and changes nothing else; only an    *)
(* operator changes a route otherwise, and only an operator removes one.   *)
(* Each change of a gateway is one step here, however many calls, retries  *)
(* and failures it took; AwsManager and YandexManager say how it is made.  *)
(***************************************************************************)

CONSTANTS
  Gateway,  \* the instances that run the service
  Table,    \* the route tables of destination.route-table-ids
  Prefix,   \* the destination prefixes that occur
  Wanted,   \* Wanted[g]: every prefix the sources of g ever publish
  Own,      \* Own[g]: the route targets that are g itself
  Foreign,  \* every other target: another instance, a NAT, a gateway
  None      \* the prefix has no route

VARIABLE table  \* table[t][p]: the target of prefix p in table t, or None

Target == Foreign \cup UNION {Own[g] : g \in Gateway}

Init == table \in [Table -> [Prefix -> Target \cup {None}]]

(* Sync of gateway g points the prefixes ps of its list at itself. *)
Claim(g, t) ==
  \E own \in Own[g], ps \in SUBSET Wanted[g] :
    table' = [table EXCEPT ![t] =
                [p \in Prefix |-> IF p \in ps THEN own ELSE table[t][p]]]

(* Somebody edits the table in the console. *)
OperatorEdit(t, p) ==
  \E r \in Foreign \cup {None} : table' = [table EXCEPT ![t][p] = r]

Next ==
  \/ \E g \in Gateway, t \in Table : Claim(g, t)
  \/ \E t \in Table, p \in Prefix : OperatorEdit(t, p)

Spec == Init /\ [][Next]_table

=============================================================================
