---------------------------- MODULE AwsManager ----------------------------
(***************************************************************************)
(* internal/cloud/aws: gateway instances that keep EC2 route tables        *)
(* pointing at themselves. A pass resolves the network interface (ENI) of  *)
(* the detected address, cached for the life of the process, and then, per *)
(* table, reads the table once and issues one CreateRoute or ReplaceRoute  *)
(* per prefix that is not already right. Instances and operators share the *)
(* tables, so every call meets a table that may differ from the one read.  *)
(*                                                                         *)
(* A call and its answer are one step: the calling goroutine waits. What   *)
(* can go wrong with it (throttling, an answer lost after the call took    *)
(* effect) is a disturbance, and so is the end of the context of a pass,   *)
(* by general.timeout or by a shutdown: from then on its calls fail.       *)
(***************************************************************************)
EXTENDS Naturals, FiniteSets

CONSTANTS
  Gateway,         \* the instances that run the service
  NumTables,       \* length of destination.route-table-ids
  NumPrefixes,     \* prefixes are their rank in the order of routes.Less
  Addr,            \* the addresses an instance can have
  AddrsOf,         \* AddrsOf[g]: the primary addresses g can be given
  Eni,             \* the network interfaces
  EniOf,           \* EniOf[a]: the interface that carries address a
  Foreign,         \* route targets that are no interface of a gateway
  Lists,           \* Lists[g]: the route lists source.Collect can return
  DryRun,          \* the gateways configured with general.dry-run
  Edited,          \* the prefixes whose routes operators and EC2 change
  InitialTables,   \* the contents the tables may start with
  None,            \* no route, no interface, no address
  Disturbances,    \* the kinds of disturbance that occur
  MaxDisturbances  \* bound: how many occur

Table  == 1 .. NumTables
Prefix == 1 .. NumPrefixes
Target == Eni \cup Foreign

(* ec2types.Route: a target and whether its state is active or blackhole. *)
Route == [target : Target, active : BOOLEAN]

TableContent == [Prefix -> Route \cup {None}]

Kind == {"fault", "expire", "crash", "edit", "blackhole", "readdress"}

ASSUME AwsAssumption ==
  /\ NumTables \in Nat \ {0}
  /\ NumPrefixes \in Nat
  /\ AddrsOf \in [Gateway -> SUBSET Addr]
  /\ EniOf \in [Addr -> Eni]
  /\ Eni \cap Foreign = {}
  /\ Lists \in [Gateway -> SUBSET ((SUBSET Prefix) \ {{}})]
  /\ DryRun \subseteq Gateway
  /\ Edited \subseteq Prefix
  /\ InitialTables \subseteq [Table -> TableContent]
  /\ None \notin Route \cup Eni \cup Addr \cup Target
  /\ Disturbances \subseteq Kind
  /\ MaxDisturbances \in Nat

VARIABLES
  table,   \* the route tables, held by EC2
  addr,    \* addr[g]: the address netinfo.Detect finds on g now
  eni,     \* Manager.eni of each gateway, None until resolved
  pass,    \* the pass each gateway is in
  budget   \* disturbances left

vars == <<table, addr, eni, pass, budget>>

(* cloud.Change, without the previous next hop, which is only logged. *)
Change == [table : Table, prefix : Prefix, action : {"noop", "create", "replace"}]

(***************************************************************************)
(* A pass: where it is, the next hop and the list it works with, the table *)
(* it is at with the routes read from it and the prefixes still to do, the *)
(* changes collected, whether an error was, and whether its context ended. *)
(* made is a history variable: the routes EC2 changed for this pass,       *)
(* whether the pass knows it or not.                                       *)
(***************************************************************************)
Pass ==
  [pc : {"idle", "resolve", "describe", "apply", "report"},
   hop : Addr \cup {None}, list : SUBSET Prefix, at : 1 .. NumTables + 1,
   existing : TableContent, todo : SUBSET Prefix,
   changes : SUBSET Change, failed : BOOLEAN, expired : BOOLEAN,
   made : SUBSET (Table \X Prefix)]

NothingRead == [p \in Prefix |-> None]

Idle == [pc |-> "idle", hop |-> None, list |-> {}, at |-> 1,
         existing |-> NothingRead, todo |-> {},
         changes |-> {}, failed |-> FALSE, expired |-> FALSE, made |-> {}]

TypeOK ==
  /\ table \in [Table -> TableContent]
  /\ addr \in [Gateway -> Addr]
  /\ eni \in [Gateway -> Eni \cup {None}]
  /\ pass \in [Gateway -> Pass]
  /\ \A g \in Gateway : pass[g].pc \in {"describe", "apply"} => pass[g].at \in Table
  /\ budget \in 0 .. MaxDisturbances

Init ==
  /\ table \in InitialTables
  /\ addr \in [Gateway -> Addr]
  /\ \A g \in Gateway : addr[g] \in AddrsOf[g]
  /\ eni = [g \in Gateway |-> None]
  /\ pass = [g \in Gateway |-> Idle]
  /\ budget = MaxDisturbances

Disturb(kind) ==
  /\ kind \in Disturbances
  /\ budget > 0
  /\ budget' = budget - 1

(* A call of g fails, always so once the context of the pass has ended. *)
CallError(g) ==
  IF pass[g].expired THEN UNCHANGED budget ELSE Disturb("fault")

-----------------------------------------------------------------------------
(* Decisions of syncTable, and what they do to the state of the pass.      *)

UpToDateIgnoringState(r, e) == r # None /\ r.target = e

UpToDate(r, e) == r # None /\ r.target = e /\ r.active

PlanAlwaysWrites(r, e) == IF r = None THEN "create" ELSE "replace"

Plan(r, e) ==
  IF r = None THEN "create" ELSE IF UpToDate(r, e) THEN "noop" ELSE "replace"

ToSyncWholeTable(list, existing) ==
  list \cup {p \in Prefix : existing[p] # None}

(* The loop of syncTable runs over the list, not over the table. *)
ToSync(list, existing) == list

FailSwallowed(s) == s

Fail(s) == [s EXCEPT !.failed = TRUE]

Report(s, p, action) ==
  [s EXCEPT !.changes = @ \cup {[table |-> s.at, prefix |-> p, action |-> action]}]

NextTableTooFar(s) ==
  [s EXCEPT !.at = @ + 1, !.existing = NothingRead, !.todo = {},
            !.pc = IF s.at > NumTables THEN "report" ELSE "describe"]

NextTable(s) ==
  [s EXCEPT !.at = @ + 1, !.existing = NothingRead, !.todo = {},
            !.pc = IF s.at = NumTables THEN "report" ELSE "describe"]

NextPrefix(s, p) ==
  IF s.todo = {p} THEN NextTable(s) ELSE [s EXCEPT !.todo = @ \ {p}]

IsNext(s, p) == p \in s.todo /\ \A q \in s.todo : p <= q

-----------------------------------------------------------------------------
(* The pass of gateway g.                                                  *)

(* cycle: detect the address, collect the list, call Sync. *)
StartPass(g) ==
  /\ pass[g].pc = "idle"
  /\ \E list \in Lists[g] :
       pass' = [pass EXCEPT ![g] = [Idle EXCEPT !.pc = "resolve", !.list = list,
                                                !.hop = addr[g]]]
  /\ UNCHANGED <<table, addr, eni, budget>>

ResolveCached(g) ==
  /\ pass[g].pc = "resolve"
  /\ eni[g] # None
  /\ pass' = [pass EXCEPT ![g].pc = "describe"]
  /\ UNCHANGED <<table, addr, eni, budget>>

(* Instance metadata or, failing that, DescribeNetworkInterfaces answers. *)
ResolveLookup(g) ==
  /\ pass[g].pc = "resolve"
  /\ eni[g] = None
  /\ ~pass[g].expired
  /\ eni' = [eni EXCEPT ![g] = EniOf[pass[g].hop]]
  /\ pass' = [pass EXCEPT ![g].pc = "describe"]
  /\ UNCHANGED <<table, addr, budget>>

ResolveFails(g) ==
  /\ pass[g].pc = "resolve"
  /\ eni[g] = None
  /\ CallError(g)
  /\ pass' = [pass EXCEPT ![g] = [Fail(pass[g]) EXCEPT !.pc = "report"]]
  /\ UNCHANGED <<table, addr, eni>>

Describe(g) ==
  LET s == pass[g] IN
  /\ s.pc = "describe" /\ ~s.expired
  /\ pass' = [pass EXCEPT ![g] = [s EXCEPT !.pc = "apply", !.existing = table[s.at],
                                           !.todo = ToSync(s.list, table[s.at])]]
  /\ UNCHANGED <<table, addr, eni, budget>>

DescribeFails(g) ==
  /\ pass[g].pc = "describe"
  /\ CallError(g)
  /\ pass' = [pass EXCEPT ![g] = NextTable(Fail(pass[g]))]
  /\ UNCHANGED <<table, addr, eni>>

(* A noop, or a change that dry-run only reports. *)
NoCall(g, p) ==
  LET s == pass[g]
      action == Plan(s.existing[p], eni[g]) IN
  /\ s.pc = "apply" /\ IsNext(s, p)
  /\ action = "noop" \/ g \in DryRun
  /\ pass' = [pass EXCEPT ![g] = NextPrefix(Report(s, p, action), p)]
  /\ UNCHANGED <<table, addr, eni, budget>>

CallsUnderDryRun(g, p) ==
  /\ pass[g].pc = "apply" /\ IsNext(pass[g], p)
  /\ Plan(pass[g].existing[p], eni[g]) # "noop"

Calls(g, p) ==
  /\ pass[g].pc = "apply" /\ IsNext(pass[g], p)
  /\ Plan(pass[g].existing[p], eni[g]) # "noop"
  /\ g \notin DryRun

(* EC2: CreateRoute needs the prefix to be free, ReplaceRoute to be taken. *)
Accepts(action, r) == (action = "create") <=> (r = None)

Ec2Write(g, p) ==
  LET s == pass[g] IN
  /\ Accepts(Plan(s.existing[p], eni[g]), table[s.at][p])
  /\ table' = [table EXCEPT ![s.at][p] = [target |-> eni[g], active |-> TRUE]]

Made(s, p) == [s EXCEPT !.made = @ \cup {<<s.at, p>>}]

CallSucceeds(g, p) ==
  LET s == pass[g] IN
  /\ Calls(g, p) /\ ~s.expired
  /\ Ec2Write(g, p)
  /\ pass' = [pass EXCEPT ![g] =
                NextPrefix(Report(Made(s, p), p, Plan(s.existing[p], eni[g])), p)]
  /\ UNCHANGED <<addr, eni, budget>>

(* The call took effect but its answer did not arrive: it got lost, or the *)
(* context of the pass ended while the call was under way.                 *)
CallAnswerLost(g, p) ==
  LET s == pass[g] IN
  /\ Calls(g, p) /\ ~s.expired
  /\ Ec2Write(g, p)
  /\ \E cut \in BOOLEAN :
       /\ Disturb(IF cut THEN "expire" ELSE "fault")
       /\ pass' = [pass EXCEPT ![g] =
                     NextPrefix(Fail([Made(s, p) EXCEPT !.expired = cut]), p)]
  /\ UNCHANGED <<addr, eni>>

RefusedReported(s, p) ==
  NextPrefix(Fail(Report(s, p, "replace")), p)

(* errs = append(...); continue: no change is reported for the prefix. *)
Refused(s, p) == NextPrefix(Fail(s), p)

(* The table changed since it was read: the route exists, or is gone. *)
CallRefused(g, p) ==
  LET s == pass[g] IN
  /\ Calls(g, p) /\ ~s.expired
  /\ ~Accepts(Plan(s.existing[p], eni[g]), table[s.at][p])
  /\ pass' = [pass EXCEPT ![g] = Refused(s, p)]
  /\ UNCHANGED <<table, addr, eni, budget>>

CallFails(g, p) ==
  /\ Calls(g, p)
  /\ CallError(g)
  /\ pass' = [pass EXCEPT ![g] = Refused(pass[g], p)]
  /\ UNCHANGED <<table, addr, eni>>

(* Sync returns; the loop sleeps until the next pass. *)
EndPass(g) ==
  /\ pass[g].pc = "report"
  /\ pass' = [pass EXCEPT ![g] = Idle]
  /\ UNCHANGED <<table, addr, eni, budget>>

-----------------------------------------------------------------------------
(* The surroundings.                                                       *)

(* The context of the pass ends. *)
Expire(g) ==
  /\ Disturb("expire")
  /\ pass[g].pc \in {"resolve", "describe", "apply"}
  /\ ~pass[g].expired
  /\ pass' = [pass EXCEPT ![g].expired = TRUE]
  /\ UNCHANGED <<table, addr, eni>>

(* The process dies and is restarted: its memory is gone. *)
Crash(g) ==
  /\ Disturb("crash")
  /\ pass' = [pass EXCEPT ![g] = Idle]
  /\ eni' = [eni EXCEPT ![g] = None]
  /\ UNCHANGED <<table, addr>>

OperatorEdit(t, p) ==
  /\ Disturb("edit")
  /\ p \in Edited
  /\ \E r \in [target : Foreign, active : {TRUE}] \cup {None} :
       table' = [table EXCEPT ![t][p] = r]
  /\ UNCHANGED <<addr, eni, pass>>

(* EC2 marks a route whose target went away. *)
Blackhole(t, p) ==
  /\ Disturb("blackhole")
  /\ p \in Edited
  /\ table[t][p] # None
  /\ table' = [table EXCEPT ![t][p] = [target |-> @.target, active |-> FALSE]]
  /\ UNCHANGED <<addr, eni, pass>>

(* The default route of g moves to another interface of the instance. *)
Readdress(g) ==
  /\ Disturb("readdress")
  /\ \E a \in AddrsOf[g] : addr' = [addr EXCEPT ![g] = a]
  /\ UNCHANGED <<table, eni, pass>>

-----------------------------------------------------------------------------

Step(g) ==
  \/ StartPass(g)
  \/ ResolveCached(g) \/ ResolveLookup(g) \/ ResolveFails(g)
  \/ Describe(g) \/ DescribeFails(g)
  \/ \E p \in Prefix :
       \/ NoCall(g, p) \/ CallSucceeds(g, p) \/ CallAnswerLost(g, p)
       \/ CallRefused(g, p) \/ CallFails(g, p)
  \/ EndPass(g)

Environment ==
  \/ \E g \in Gateway : Expire(g) \/ Crash(g) \/ Readdress(g)
  \/ \E t \in Table, p \in Prefix : OperatorEdit(t, p) \/ Blackhole(t, p)

Next == (\E g \in Gateway : Step(g)) \/ Environment

Spec == Init /\ [][Next]_vars

(***************************************************************************)
(* Every pass ends (each call has a deadline, general.timeout) and is      *)
(* followed by another (general.interval), so a gateway never stops for    *)
(* good; nothing is assumed of the surroundings.                           *)
(***************************************************************************)
FairSpec == Spec /\ \A g \in Gateway : WF_vars(Step(g))

-----------------------------------------------------------------------------
(* Properties.                                                             *)

Reported(s) == {<<c.table, c.prefix>> : c \in {d \in s.changes : d.action # "noop"}}

(***************************************************************************)
(* Sync does what RouteTables promises: whatever fails, in whatever order  *)
(* instances and operators write, and even on a network interface that is  *)
(* no longer the right one, the only routes a gateway ever touches are     *)
(* those of its lists, it only ever points them at itself, and a gateway   *)
(* under dry-run touches none.                                             *)
(***************************************************************************)
Owned(g) == {EniOf[a] : a \in AddrsOf[g]}

Claimable(g) == IF g \in DryRun THEN {} ELSE UNION Lists[g]

Shown(r) == IF r = None THEN None ELSE r.target

ShownTable == [t \in Table |-> [p \in Prefix |-> Shown(table[t][p])]]

Promise == INSTANCE RouteTables WITH
  table <- ShownTable,
  Wanted <- [g \in Gateway |-> Claimable(g)],
  Own <- [g \in Gateway |-> Owned(g)],
  Foreign <- Target \ UNION {Owned(g) : g \in Gateway}

ImplementsPromise == Promise!Spec

(***************************************************************************)
(* A pass that reports no error leaves every prefix of its list active and *)
(* pointing at the instance, in every table, however its calls went, but   *)
(* for those that others edit. Meant for an instance that no other one     *)
(* takes prefixes from.                                                    *)
(***************************************************************************)
RoutedWhenSuccessful ==
  \A g \in Gateway \ DryRun :
    pass[g].pc = "report" /\ ~pass[g].failed =>
      \A t \in Table, p \in pass[g].list \ Edited :
        table[t][p] = [target |-> EniOf[pass[g].hop], active |-> TRUE]

(***************************************************************************)
(* The report of Sync is an account of what happened: a change it reports  *)
(* was made, and one that was made is reported unless an error is.         *)
(***************************************************************************)
AccountedChanges ==
  \A g \in Gateway \ DryRun :
    LET s == pass[g] IN
    s.pc = "report" => /\ Reported(s) \subseteq s.made
                       /\ s.made \subseteq Reported(s) \/ s.failed

(***************************************************************************)
(* Once disturbances stop, every gateway gets all its prefixes in every    *)
(* table, whatever state the tables were left in, and keeps them.          *)
(***************************************************************************)
Routed(g) ==
  \A t \in Table, p \in UNION Lists[g] :
    table[t][p] = [target |-> EniOf[addr[g]], active |-> TRUE]

Converges == <>[](\A g \in Gateway \ DryRun : Routed(g))

(***************************************************************************)
(* ... and from then on its passes change nothing and report no error, so  *)
(* that success actions run once per change and not once per pass.         *)
(***************************************************************************)
Quiet(g) == pass[g].pc = "report" => ~pass[g].failed /\ Reported(pass[g]) = {}

QuietOnceConverged == <>[](\A g \in Gateway \ DryRun : Quiet(g))

=============================================================================
