--------------------------- MODULE YandexManager ---------------------------
(***************************************************************************)
(* internal/cloud/yandex: gateway instances that keep Yandex Cloud route   *)
(* tables pointing at themselves. The API has no call for a single route:  *)
(* per table, a pass reads all static routes, computes the list it wants   *)
(* and sends that whole list back (PATCH). The API answers with an         *)
(* operation, which is executed later and polled until it is done.         *)
(*                                                                         *)
(* Nothing ties the list sent to the table it was computed from, and an    *)
(* operation nobody waits for any more (poll failed, opTimeout over,       *)
(* process gone) is still executed: both are what this module is about.    *)
(***************************************************************************)
EXTENDS Naturals, FiniteSets

CONSTANTS
  Gateway,         \* the instances that run the service
  NumTables,       \* length of destination.route-table-ids
  Prefix,          \* the destination prefixes that occur
  Address,         \* next hop addresses of the gateways
  AddressOf,       \* AddressOf[g]: the address netinfo.Detect finds on g
  Foreign,         \* every other next hop: an address or a gatewayId
  Lists,           \* Lists[g]: the route lists source.Collect can return
  DryRun,          \* the gateways configured with general.dry-run
  Edited,          \* the prefixes that operators edit
  InitialTables,   \* the contents the tables may start with
  None,            \* no route
  MaxOperations,   \* bound: operations known to the API at a time
  Disturbances,    \* the kinds of disturbance that occur
  MaxDisturbances  \* bound: how many occur

Table       == 1 .. NumTables
OperationId == 1 .. MaxOperations
Target      == Address \cup Foreign

(* staticRoutes: one next hop per destination prefix. *)
StaticRoutes == [Prefix -> Target \cup {None}]

Kind == {"fault", "expire", "reject", "crash", "edit"}

ASSUME YandexAssumption ==
  /\ NumTables \in Nat \ {0}
  /\ AddressOf \in [Gateway -> Address]
  /\ Address \cap Foreign = {}
  /\ Lists \in [Gateway -> SUBSET ((SUBSET Prefix) \ {{}})]
  /\ DryRun \subseteq Gateway
  /\ Edited \subseteq Prefix
  /\ InitialTables \subseteq [Table -> StaticRoutes]
  /\ None \notin Target
  /\ MaxOperations \in Nat \ {0}
  /\ Disturbances \subseteq Kind
  /\ MaxDisturbances \in Nat

VARIABLES
  table,       \* the route tables, held by the API
  operations,  \* the update operations the API knows
  pass,        \* the pass each gateway is in
  budget       \* disturbances left

vars == <<table, operations, pass, budget>>

Operation ==
  [state : {"free", "running", "done", "failed"}, table : Table, routes : StaticRoutes]

NoRoutes == [p \in Prefix |-> None]

FreeOperation == [state |-> "free", table |-> 1, routes |-> NoRoutes]

(* cloud.Change, without the previous next hop, which is only logged. *)
Change == [table : Table, prefix : Prefix, action : {"noop", "create", "replace"}]

(***************************************************************************)
(* A pass: where it is, the list it works with, the table it is at, the    *)
(* routes it will send for it, the operation it waits for, the changes     *)
(* collected, whether an error was and whether its context has ended. made *)
(* is a history variable: the tables the API updated before it said so.    *)
(***************************************************************************)
Pass ==
  [pc : {"idle", "get", "patch", "wait", "report"},
   list : SUBSET Prefix, at : 1 .. NumTables + 1, desired : StaticRoutes,
   op : OperationId \cup {0}, changes : SUBSET Change,
   failed : BOOLEAN, expired : BOOLEAN, made : SUBSET Table]

Idle == [pc |-> "idle", list |-> {}, at |-> 1, desired |-> NoRoutes, op |-> 0,
         changes |-> {}, failed |-> FALSE, expired |-> FALSE, made |-> {}]

TypeOK ==
  /\ table \in [Table -> StaticRoutes]
  /\ operations \in [OperationId -> Operation]
  /\ pass \in [Gateway -> Pass]
  /\ \A g \in Gateway : pass[g].pc \in {"get", "patch", "wait"} => pass[g].at \in Table
  /\ budget \in 0 .. MaxDisturbances

Init ==
  /\ table \in InitialTables
  /\ operations = [i \in OperationId |-> FreeOperation]
  /\ pass = [g \in Gateway |-> Idle]
  /\ budget = MaxDisturbances

Disturb(kind) ==
  /\ kind \in Disturbances
  /\ budget > 0
  /\ budget' = budget - 1

(* A call of g fails, always so once the context of the pass has ended. *)
CallError(g) ==
  IF pass[g].expired THEN UNCHANGED budget ELSE Disturb("fault")

-----------------------------------------------------------------------------
(* Decisions of syncTable, and what they do to the state of the pass.      *)

Action(current, hop) ==
  IF current = None THEN "create" ELSE IF current = hop THEN "noop" ELSE "replace"

ChangesOf(t, list, routes, hop) ==
  {[table |-> t, prefix |-> p, action |-> Action(routes[p], hop)] : p \in list}

DesiredOnlyListed(list, routes, hop) ==
  [p \in Prefix |-> IF p \in list THEN hop ELSE None]

(* Prefixes of the list at the next hop, every other route as it was read. *)
Desired(list, routes, hop) ==
  [p \in Prefix |-> IF p \in list THEN hop ELSE routes[p]]

FailSwallowed(s) == s

Fail(s) == [s EXCEPT !.failed = TRUE]

NextTableTooFar(s) ==
  [s EXCEPT !.at = @ + 1, !.desired = NoRoutes, !.op = 0,
            !.pc = IF s.at > NumTables THEN "report" ELSE "get"]

NextTable(s) ==
  [s EXCEPT !.at = @ + 1, !.desired = NoRoutes, !.op = 0,
            !.pc = IF s.at = NumTables THEN "report" ELSE "get"]

-----------------------------------------------------------------------------
(* The pass of gateway g.                                                  *)

(* cycle: detect the address, collect the list, call Sync. *)
StartPass(g) ==
  /\ pass[g].pc = "idle"
  /\ \E list \in Lists[g] :
       pass' = [pass EXCEPT ![g] = [Idle EXCEPT !.pc = "get", !.list = list]]
  /\ UNCHANGED <<table, operations, budget>>

GetTableUnderDryRun(g) ==
  LET s == pass[g]
      changes == ChangesOf(s.at, s.list, table[s.at], AddressOf[g])
      read == [s EXCEPT !.changes = @ \cup changes]
      mutated == \E c \in changes : c.action # "noop" IN
  /\ s.pc = "get" /\ ~s.expired
  /\ pass' = [pass EXCEPT ![g] =
       IF mutated
       THEN [read EXCEPT !.pc = "patch",
                         !.desired = Desired(s.list, table[s.at], AddressOf[g])]
       ELSE NextTable(read)]
  /\ UNCHANGED <<table, operations, budget>>

(* GET the table and compute the update; send none if nothing changes. *)
GetTable(g) ==
  LET s == pass[g]
      changes == ChangesOf(s.at, s.list, table[s.at], AddressOf[g])
      read == [s EXCEPT !.changes = @ \cup changes]
      mutated == \E c \in changes : c.action # "noop" IN
  /\ s.pc = "get" /\ ~s.expired
  /\ pass' = [pass EXCEPT ![g] =
       IF mutated /\ g \notin DryRun
       THEN [read EXCEPT !.pc = "patch",
                         !.desired = Desired(s.list, table[s.at], AddressOf[g])]
       ELSE NextTable(read)]
  /\ UNCHANGED <<table, operations, budget>>

GetFails(g) ==
  /\ pass[g].pc = "get"
  /\ CallError(g)
  /\ pass' = [pass EXCEPT ![g] = NextTable(Fail(pass[g]))]
  /\ UNCHANGED <<table, operations>>

(* The API accepts the update as operation i. *)
Accept(g, i) ==
  /\ pass[g].pc = "patch" /\ ~pass[g].expired
  /\ operations[i].state = "free"
  /\ \A j \in OperationId : operations[j].state = "free" => i <= j
  /\ operations' = [operations EXCEPT ![i] =
       [state |-> "running", table |-> pass[g].at, routes |-> pass[g].desired]]

PatchAccepted(g, i) ==
  /\ Accept(g, i)
  /\ pass' = [pass EXCEPT ![g] = [@ EXCEPT !.pc = "wait", !.op = i]]
  /\ UNCHANGED <<table, budget>>

(* The answer is lost, or the context of the pass ends before it arrives. *)
PatchAnswerLost(g, i) ==
  /\ Accept(g, i)
  /\ \E cut \in BOOLEAN :
       /\ Disturb(IF cut THEN "expire" ELSE "fault")
       /\ pass' = [pass EXCEPT ![g] =
                     NextTable(Fail([pass[g] EXCEPT !.expired = cut]))]
  /\ UNCHANGED table

(* The changes computed for the table stay in the report of the pass. *)
PatchFails(g) ==
  /\ pass[g].pc = "patch"
  /\ CallError(g)
  /\ pass' = [pass EXCEPT ![g] = NextTable(Fail(pass[g]))]
  /\ UNCHANGED <<table, operations>>

PollDone(g) ==
  LET s == pass[g] IN
  /\ s.pc = "wait" /\ ~s.expired
  /\ operations[s.op].state = "done"
  /\ operations' = [operations EXCEPT ![s.op] = FreeOperation]
  /\ pass' = [pass EXCEPT ![g] = NextTable([s EXCEPT !.made = @ \cup {s.at}])]
  /\ UNCHANGED <<table, budget>>

PollRejectedIgnored(g) ==
  LET s == pass[g] IN
  /\ s.pc = "wait" /\ ~s.expired
  /\ operations[s.op].state = "failed"
  /\ operations' = [operations EXCEPT ![s.op] = FreeOperation]
  /\ pass' = [pass EXCEPT ![g] = NextTable(s)]
  /\ UNCHANGED <<table, budget>>

PollRejected(g) ==
  LET s == pass[g] IN
  /\ s.pc = "wait" /\ ~s.expired
  /\ operations[s.op].state = "failed"
  /\ operations' = [operations EXCEPT ![s.op] = FreeOperation]
  /\ pass' = [pass EXCEPT ![g] = NextTable(Fail(s))]
  /\ UNCHANGED <<table, budget>>

(* What is left of the operations when g stops waiting for its own. *)
WithoutWaiter(g) ==
  [i \in OperationId |->
     IF i = pass[g].op /\ operations[i].state # "running"
     THEN FreeOperation ELSE operations[i]]

(* A poll fails, or opTimeout is over: the operation is left to itself. *)
PollFails(g) ==
  /\ pass[g].pc = "wait"
  /\ CallError(g)
  /\ pass' = [pass EXCEPT ![g] = NextTable(Fail(pass[g]))]
  /\ operations' = WithoutWaiter(g)
  /\ UNCHANGED table

(* Sync returns; the loop sleeps until the next pass. *)
EndPass(g) ==
  /\ pass[g].pc = "report"
  /\ pass' = [pass EXCEPT ![g] = Idle]
  /\ UNCHANGED <<table, operations, budget>>

-----------------------------------------------------------------------------
(* The API and the surroundings.                                           *)

(* The API forgets an operation once it is over and nobody waits for it. *)
Finish(i, outcome) ==
  operations' = [operations EXCEPT ![i] =
    IF \E g \in Gateway : pass[g].op = i THEN [@ EXCEPT !.state = outcome]
                                         ELSE FreeOperation]

(* Operations are executed at any later time, in any order. *)
Execute(i) ==
  /\ operations[i].state = "running"
  /\ table' = [table EXCEPT ![operations[i].table] = operations[i].routes]
  /\ Finish(i, "done")
  /\ UNCHANGED <<pass, budget>>

Reject(i) ==
  /\ operations[i].state = "running"
  /\ Disturb("reject")
  /\ Finish(i, "failed")
  /\ UNCHANGED <<table, pass>>

(* The context of the pass ends: general.timeout or a shutdown. *)
Expire(g) ==
  /\ Disturb("expire")
  /\ pass[g].pc \in {"get", "patch", "wait"}
  /\ ~pass[g].expired
  /\ pass' = [pass EXCEPT ![g].expired = TRUE]
  /\ UNCHANGED <<table, operations>>

(* The process dies and is restarted; its operations go on. *)
Crash(g) ==
  /\ Disturb("crash")
  /\ pass' = [pass EXCEPT ![g] = Idle]
  /\ operations' = WithoutWaiter(g)
  /\ UNCHANGED table

OperatorEdit(t, p) ==
  /\ Disturb("edit")
  /\ p \in Edited
  /\ \E r \in Foreign \cup {None} : table' = [table EXCEPT ![t][p] = r]
  /\ UNCHANGED <<operations, pass>>

-----------------------------------------------------------------------------

Step(g) ==
  \/ StartPass(g)
  \/ GetTable(g) \/ GetFails(g)
  \/ \E i \in OperationId : PatchAccepted(g, i) \/ PatchAnswerLost(g, i)
  \/ PatchFails(g)
  \/ PollDone(g) \/ PollRejected(g) \/ PollFails(g)
  \/ EndPass(g)

Environment ==
  \/ \E i \in OperationId : Reject(i)
  \/ \E g \in Gateway : Expire(g) \/ Crash(g)
  \/ \E t \in Table, p \in Prefix : OperatorEdit(t, p)

Next ==
  \/ \E g \in Gateway : Step(g)
  \/ \E i \in OperationId : Execute(i)
  \/ Environment

Spec == Init /\ [][Next]_vars

(***************************************************************************)
(* Every pass ends, since general.timeout and opTimeout bound its calls,   *)
(* and is followed by another; every operation is executed in the end,     *)
(* unless it is rejected.                                                  *)
(***************************************************************************)
FairSpec ==
  /\ Spec
  /\ \A g \in Gateway : WF_vars(Step(g))
  /\ \A i \in OperationId : WF_vars(Execute(i))

-----------------------------------------------------------------------------
(* Properties.                                                             *)

Updated(s) == {c.table : c \in {d \in s.changes : d.action # "noop"}}

Claimable(g) == IF g \in DryRun THEN {} ELSE UNION Lists[g]

Managed == UNION {Claimable(g) : g \in Gateway}

(***************************************************************************)
(* Routes that are on no gateway's list, or only on lists of gateways      *)
(* under dry-run, and that no operator edits are never changed, by any     *)
(* number of gateways on the same tables, although every update rewrites   *)
(* all of them, maybe long after they were read.                           *)
(***************************************************************************)
UnmanagedUntouched ==
  [][\A t \in Table, p \in Prefix \ (Managed \cup Edited) :
       table'[t][p] = table[t][p]]_table

(***************************************************************************)
(* waitOperation: a pass never reports success for an update that the API  *)
(* rejected, or whose outcome it does not know.                            *)
(***************************************************************************)
NoSuccessForRejectedUpdate ==
  \A g \in Gateway \ DryRun :
    pass[g].pc = "report" /\ ~pass[g].failed => Updated(pass[g]) \subseteq pass[g].made

(***************************************************************************)
(* A pass that reports no error leaves every prefix of its list at its     *)
(* next hop, even if operations of earlier passes are still to come. Meant *)
(* for one instance whose list does not change.                            *)
(***************************************************************************)
RoutedWhenSuccessful ==
  \A g \in Gateway \ DryRun :
    pass[g].pc = "report" /\ ~pass[g].failed =>
      \A t \in Table, p \in pass[g].list : table[t][p] = AddressOf[g]

(***************************************************************************)
(* Sync does what RouteTables promises. So it does for one instance whose  *)
(* list does not change and whose tables nobody else writes, an instance   *)
(* under dry-run beside it included; two writers undo each other's work.   *)
(***************************************************************************)
Promise == INSTANCE RouteTables WITH
  Wanted <- [g \in Gateway |-> Claimable(g)],
  Own <- [g \in Gateway |-> {AddressOf[g]}],
  Foreign <- Target \ {AddressOf[g] : g \in Gateway}

ImplementsPromise == Promise!Spec

(***************************************************************************)
(* Nothing is ever deleted from a table, unless by an operator. Does not   *)
(* hold with two instances: one sends a list without the route of another. *)
(***************************************************************************)
NothingDeleted ==
  [][\A t \in Table, p \in Prefix \ Edited :
       table[t][p] # None => table'[t][p] # None]_table

(***************************************************************************)
(* Lost updates are made good: once disturbances stop, every gateway gets  *)
(* all its prefixes in every table and keeps them, and no operation that   *)
(* could take them away is still to come.                                  *)
(***************************************************************************)
Routed(g) ==
  \A t \in Table, p \in UNION Lists[g] : table[t][p] = AddressOf[g]

Converges ==
  <>[](/\ \A g \in Gateway \ DryRun : Routed(g)
       /\ \A i \in OperationId : operations[i].state = "free")

=============================================================================
