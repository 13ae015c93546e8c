------------------------ MODULE YandexManagerProofs ------------------------
(***************************************************************************)
(* Proofs about YandexManager, for any number of gateways, tables,         *)
(* prefixes, operations and disturbances.                                  *)
(***************************************************************************)
EXTENDS YandexManager, TLAPS

-----------------------------------------------------------------------------
(* Type correctness.                                                       *)

(***************************************************************************)
(* What g's pass s is, apart from its type: it takes the tables one after  *)
(* the other, works with a list of g and waits for a known operation.      *)
(***************************************************************************)
Sound(g, s) ==
  /\ s \in Pass
  /\ s.pc \in {"get", "patch", "wait"} => s.at \in Table
  /\ s.pc = "wait" => s.op \in OperationId
  /\ s.list \subseteq UNION Lists[g]

LEMMA FreeType == NoRoutes \in StaticRoutes /\ FreeOperation \in Operation
<1>1. NoRoutes \in StaticRoutes
  BY DEF NoRoutes, StaticRoutes
<1>2. 1 \in Table
  BY YandexAssumption DEF YandexAssumption, Table
<1> QED
  BY <1>1, <1>2, Zenon DEF FreeOperation, Operation

LEMMA IdleSound == \A g \in Gateway : Sound(g, Idle)
<1>1. 1 \in 1 .. NumTables + 1
  BY YandexAssumption DEF YandexAssumption
<1>2. Idle \in Pass
  BY <1>1, FreeType, Zenon DEF Idle, Pass
<1> QED
  BY <1>2, Zenon DEF Sound, Idle

LEMMA FailSound ==
  ASSUME NEW g, NEW s, Sound(g, s)
  PROVE  Sound(g, Fail(s)) /\ Fail(s).pc = s.pc
<1>1. /\ Fail(s) \in Pass /\ Fail(s).pc = s.pc /\ Fail(s).at = s.at
      /\ Fail(s).op = s.op /\ Fail(s).list = s.list
  BY Zenon DEF Sound, Fail, Pass
<1> QED
  BY <1>1, Zenon DEF Sound

LEMMA NextTableSound ==
  ASSUME NEW g, NEW s, Sound(g, s), s.pc \in {"get", "patch", "wait"}
  PROVE  Sound(g, NextTable(s)) /\ NextTable(s).pc \in {"get", "report"}
<1> DEFINE n == NextTable(s)
<1>1. s.at \in Table /\ s \in Pass /\ s.list \subseteq UNION Lists[g]
  BY Zenon DEF Sound
<1>2. s.at + 1 \in 1 .. NumTables + 1 /\ (s.at # NumTables => s.at + 1 \in Table)
  BY <1>1, YandexAssumption DEF YandexAssumption, Table
<1>3. n \in Pass
  BY <1>1, <1>2, FreeType, Zenon DEF NextTable, Pass
<1>4. /\ n.pc = (IF s.at = NumTables THEN "report" ELSE "get")
      /\ n.at = s.at + 1 /\ n.list = s.list
  BY <1>1, Zenon DEF NextTable, Pass
<1> QED
  BY <1>1, <1>2, <1>3, <1>4, Zenon DEF Sound

LEMMA DesiredType ==
  ASSUME NEW list, NEW routes \in StaticRoutes, NEW hop \in Address
  PROVE  Desired(list, routes, hop) \in StaticRoutes
  BY DEF Desired, StaticRoutes, Target

LEMMA ChangesType ==
  ASSUME NEW t \in Table, NEW list \in SUBSET Prefix, NEW routes, NEW hop
  PROVE  ChangesOf(t, list, routes, hop) \in SUBSET Change
<1>1. ASSUME NEW p \in list
      PROVE  [table |-> t, prefix |-> p, action |-> Action(routes[p], hop)] \in Change
  <2>1. Action(routes[p], hop) \in {"noop", "create", "replace"}
    BY Zenon DEF Action
  <2> QED
    BY <2>1, Zenon DEF Change
<1> QED
  BY <1>1, Zenon DEF ChangesOf

SInv ==
  /\ TypeOK
  /\ \A g \in Gateway : Sound(g, pass[g])

LEMMA PassStep ==
  ASSUME SInv, NEW g \in Gateway, NEW s,
         Sound(g, s), pass' = [pass EXCEPT ![g] = s],
         table' \in [Table -> StaticRoutes],
         operations' \in [OperationId -> Operation],
         budget' \in 0 .. MaxDisturbances
  PROVE  SInv'
<1>1. s \in Pass
  BY Zenon DEF Sound
<1>2. ASSUME NEW h \in Gateway PROVE Sound(h, pass'[h])
  BY Zenon DEF SInv, TypeOK
<1>3. \A h \in Gateway :
        pass'[h].pc \in {"get", "patch", "wait"} => pass'[h].at \in Table
  BY <1>2, Zenon DEF Sound
<1>4. TypeOK'
  BY <1>1, <1>3, Zenon DEF SInv, TypeOK
<1> QED
  BY <1>2, <1>4, Zenon DEF SInv

LEMMA BudgetStep ==
  ASSUME SInv
  PROVE  /\ \A kind : Disturb(kind) => budget' \in 0 .. MaxDisturbances
         /\ \A g : CallError(g) => budget' \in 0 .. MaxDisturbances
         /\ UNCHANGED budget => budget' \in 0 .. MaxDisturbances
<1>1. budget \in 0 .. MaxDisturbances
  BY Zenon DEF SInv, TypeOK
<1>2. ASSUME NEW kind, Disturb(kind) PROVE budget' \in 0 .. MaxDisturbances
  BY <1>1, <1>2, YandexAssumption DEF Disturb, YandexAssumption
<1> QED
  BY <1>1, <1>2, Zenon DEF CallError

LEMMA WithoutWaiterType ==
  ASSUME SInv, NEW g
  PROVE  WithoutWaiter(g) \in [OperationId -> Operation]
  BY FreeType, Zenon DEF SInv, TypeOK, WithoutWaiter

LEMMA InitSInv == Init => SInv
<1> SUFFICES ASSUME Init PROVE SInv
  OBVIOUS
<1>1. ASSUME NEW g \in Gateway PROVE pass[g] = Idle /\ pass[g] \in Pass
  BY <1>1, IdleSound, Zenon DEF Init, Sound
<1>2. pass \in [Gateway -> Pass]
  BY <1>1, Zenon DEF Init
<1>3. table \in [Table -> StaticRoutes] /\ budget \in 0 .. MaxDisturbances
  BY YandexAssumption DEF Init, YandexAssumption
<1>4. operations \in [OperationId -> Operation]
  BY FreeType, Zenon DEF Init
<1>5. \A g \in Gateway :
        Sound(g, pass[g]) /\ (pass[g].pc \in {"get", "patch", "wait"} => pass[g].at \in Table)
  BY <1>1, IdleSound, Zenon DEF Sound
<1> QED
  BY <1>2, <1>3, <1>4, <1>5, Zenon DEF SInv, TypeOK, Init

LEMMA StepSInv ==
  ASSUME SInv, NEW g \in Gateway, Step(g)
  PROVE  SInv'
<1> DEFINE s == pass[g]
<1>0. /\ Sound(g, s) /\ s \in Pass /\ s.list \subseteq UNION Lists[g]
      /\ table \in [Table -> StaticRoutes]
      /\ operations \in [OperationId -> Operation]
  BY Zenon DEF SInv, TypeOK, Sound
<1>f. s.pc \in {"get", "patch", "wait"} => Sound(g, NextTable(Fail(s)))
  BY <1>0, FailSound, NextTableSound, Zenon
<1>1. CASE StartPass(g)
  <2>1. PICK list \in Lists[g] :
          pass' = [pass EXCEPT ![g] = [Idle EXCEPT !.pc = "get", !.list = list]]
    BY <1>1, Zenon DEF StartPass
  <2> DEFINE n == [Idle EXCEPT !.pc = "get", !.list = list]
  <2>2. Idle \in Pass /\ Idle.at = 1 /\ 1 \in Table
    <3>1. 1 \in Table
      BY YandexAssumption DEF YandexAssumption, Table
    <3> QED
      BY <3>1, IdleSound, Zenon DEF Sound, Idle
  <2>3. list \in SUBSET Prefix /\ list \subseteq UNION Lists[g]
    BY YandexAssumption DEF YandexAssumption
  <2>4. n \in Pass /\ n.pc = "get" /\ n.at = 1 /\ n.list = list
    BY <2>2, <2>3, Zenon DEF Pass
  <2>5. Sound(g, n)
    BY <2>2, <2>3, <2>4, Zenon DEF Sound
  <2> QED
    BY <1>0, <1>1, <2>1, <2>5, BudgetStep, PassStep, Zenon DEF StartPass
<1>2. CASE GetTable(g)
  <2> DEFINE changes == ChangesOf(s.at, s.list, table[s.at], AddressOf[g])
             all == s.changes \cup changes
             read == [s EXCEPT !.changes = all]
             desired == Desired(s.list, table[s.at], AddressOf[g])
             n == [read EXCEPT !.pc = "patch", !.desired = desired]
  <2>1. s.pc = "get" /\ s.at \in Table
    BY <1>0, <1>2, Zenon DEF GetTable, Sound
  <2>2. table[s.at] \in StaticRoutes /\ AddressOf[g] \in Address /\ s.list \in SUBSET Prefix
    BY <1>0, <2>1, YandexAssumption, Zenon DEF YandexAssumption, Pass
  <2>3. all \in SUBSET Change
    BY <1>0, <2>1, <2>2, ChangesType, Zenon DEF Pass
  <2>4. desired \in StaticRoutes
    BY <2>2, DesiredType
  <2>5. pass' = [pass EXCEPT ![g] = n] \/ pass' = [pass EXCEPT ![g] = NextTable(read)]
    BY <1>2, Zenon DEF GetTable
  <2> HIDE DEF all, desired
  <2>6. read \in Pass /\ read.pc = "get" /\ read.at = s.at /\ read.list = s.list
    BY <1>0, <2>1, <2>3, Zenon DEF Pass
  <2>7. Sound(g, read)
    BY <1>0, <2>1, <2>6, Zenon DEF Sound
  <2>8. Sound(g, NextTable(read))
    BY <2>6, <2>7, NextTableSound
  <2> HIDE DEF read
  <2>9. n \in Pass /\ n.pc = "patch" /\ n.at = s.at /\ n.list = s.list
    BY <2>4, <2>6, Zenon DEF Pass
  <2>10. Sound(g, n)
    BY <1>0, <2>1, <2>9, Zenon DEF Sound
  <2> HIDE DEF n
  <2>11. UNCHANGED <<table, operations>> /\ budget' \in 0 .. MaxDisturbances
    BY <1>2, BudgetStep, Zenon DEF GetTable
  <2> QED
    BY <1>0, <2>5, <2>8, <2>10, <2>11, PassStep, Zenon
<1>3. CASE GetFails(g) \/ PatchFails(g)
  BY <1>0, <1>f, <1>3, BudgetStep, PassStep, Zenon DEF GetFails, PatchFails
<1>4. ASSUME NEW i \in OperationId, Accept(g, i)
      PROVE  operations' \in [OperationId -> Operation] /\ s.pc = "patch" /\ s.at \in Table
  <2>1. s.pc = "patch" /\ s.at \in Table /\ s.desired \in StaticRoutes
    BY <1>0, <1>4, Zenon DEF Accept, Sound, Pass
  <2> DEFINE o == [state |-> "running", table |-> s.at, routes |-> s.desired]
  <2>2. o \in Operation
    BY <2>1, Zenon DEF Operation
  <2>3. operations' = [operations EXCEPT ![i] = o]
    BY <1>4, Zenon DEF Accept
  <2> QED
    BY <1>0, <2>1, <2>2, <2>3, Zenon
<1>5. ASSUME NEW i \in OperationId, PatchAccepted(g, i) PROVE SInv'
  <2> DEFINE n == [s EXCEPT !.pc = "wait", !.op = i]
  <2>1. operations' \in [OperationId -> Operation] /\ s.at \in Table
    BY <1>4, <1>5, Zenon DEF PatchAccepted
  <2>2. n \in Pass /\ n.pc = "wait" /\ n.op = i /\ n.at = s.at /\ n.list = s.list
    BY <1>0, Zenon DEF Pass
  <2>3. Sound(g, n)
    BY <1>0, <2>1, <2>2, Zenon DEF Sound
  <2>4. pass' = [pass EXCEPT ![g] = n] /\ UNCHANGED table /\ budget' \in 0 .. MaxDisturbances
    BY <1>5, BudgetStep, Zenon DEF PatchAccepted
  <2> QED
    BY <1>0, <2>1, <2>3, <2>4, PassStep, Zenon
<1>6. ASSUME NEW i \in OperationId, PatchAnswerLost(g, i) PROVE SInv'
  <2>1. PICK cut \in BOOLEAN :
          /\ Disturb(IF cut THEN "expire" ELSE "fault")
          /\ pass' = [pass EXCEPT ![g] = NextTable(Fail([s EXCEPT !.expired = cut]))]
    BY <1>6, Zenon DEF PatchAnswerLost
  <2>2. operations' \in [OperationId -> Operation] /\ s.pc = "patch" /\ UNCHANGED table
    BY <1>4, <1>6, Zenon DEF PatchAnswerLost
  <2> DEFINE n == [s EXCEPT !.expired = cut]
  <2>3. /\ n \in Pass /\ n.pc = "patch" /\ n.at = s.at /\ n.op = s.op
        /\ n.list = s.list
    BY <1>0, <2>2, Zenon DEF Pass
  <2>4. Sound(g, n)
    BY <1>0, <2>2, <2>3, Zenon DEF Sound
  <2> HIDE DEF n
  <2>5. Sound(g, Fail(n)) /\ Fail(n).pc = "patch"
    BY <2>3, <2>4, FailSound, Zenon
  <2>6. Sound(g, NextTable(Fail(n)))
    BY <2>5, NextTableSound, Zenon
  <2> QED
    BY <1>0, <2>1, <2>2, <2>6, BudgetStep, PassStep, Zenon DEF n
<1>7. CASE PollDone(g)
  <2> DEFINE m == s.made \cup {s.at}
             n == [s EXCEPT !.made = m]
  <2>1. s.pc = "wait" /\ s.at \in Table /\ s.op \in OperationId
    BY <1>0, <1>7, Zenon DEF PollDone, Sound
  <2>2. m \in SUBSET Table
    BY <1>0, <2>1, Zenon DEF Pass
  <2>3. pass' = [pass EXCEPT ![g] = NextTable(n)]
    BY <1>7, Zenon DEF PollDone
  <2> HIDE DEF m
  <2>4. n \in Pass /\ n.pc = "wait" /\ n.at = s.at /\ n.op = s.op /\ n.list = s.list
    BY <1>0, <2>1, <2>2, Zenon DEF Pass
  <2>5. Sound(g, NextTable(n))
    <3>1. Sound(g, n)
      BY <1>0, <2>1, <2>4, Zenon DEF Sound
    <3> HIDE DEF n
    <3> QED
      BY <2>4, <3>1, NextTableSound, Zenon
  <2>6. operations' \in [OperationId -> Operation] /\ UNCHANGED <<table, budget>>
    BY <1>0, <1>7, FreeType, Zenon DEF PollDone
  <2> QED
    BY <1>0, <2>3, <2>5, <2>6, BudgetStep, PassStep, Zenon
<1>8. CASE PollRejected(g)
  <2>1. operations' \in [OperationId -> Operation] /\ UNCHANGED <<table, budget>>
    BY <1>0, <1>8, FreeType, Zenon DEF PollRejected
  <2> QED
    BY <1>0, <1>f, <1>8, <2>1, BudgetStep, PassStep, Zenon DEF PollRejected
<1>9. CASE PollFails(g)
  BY <1>0, <1>f, <1>9, WithoutWaiterType, BudgetStep, PassStep, Zenon DEF PollFails
<1>10. CASE EndPass(g)
  BY <1>0, <1>10, IdleSound, BudgetStep, PassStep, Zenon DEF EndPass
<1> QED
  BY <1>1, <1>2, <1>3, <1>5, <1>6, <1>7, <1>8, <1>9, <1>10, Zenon DEF Step

LEMMA FinishType ==
  ASSUME SInv, NEW i \in OperationId, NEW outcome \in {"done", "failed"},
         Finish(i, outcome)
  PROVE  operations' \in [OperationId -> Operation]
<1>1. operations \in [OperationId -> Operation]
  BY Zenon DEF SInv, TypeOK
<1> DEFINE o == [operations[i] EXCEPT !.state = outcome]
<1>2. o \in Operation
  BY <1>1, Zenon DEF Operation
<1>3. operations' = [operations EXCEPT ![i] = o] \/ operations' = [operations EXCEPT ![i] = FreeOperation]
  BY Zenon DEF Finish
<1> QED
  BY <1>1, <1>2, <1>3, FreeType, Zenon

LEMMA ApiSInv ==
  ASSUME SInv, NEW i \in OperationId, Execute(i) \/ Reject(i)
  PROVE  SInv'
<1>1. operations' \in [OperationId -> Operation]
  BY FinishType, Zenon DEF Execute, Reject
<1>2. operations[i].routes \in StaticRoutes
  BY Zenon DEF SInv, TypeOK, Operation
<1>3. table' \in [Table -> StaticRoutes]
  BY <1>2, Zenon DEF SInv, TypeOK, Execute, Reject
<1>4. budget' \in 0 .. MaxDisturbances /\ UNCHANGED pass
  BY BudgetStep, Zenon DEF Execute, Reject
<1> QED
  BY <1>1, <1>3, <1>4, Zenon DEF SInv, TypeOK

LEMMA SurroundingsSInv ==
  ASSUME SInv,
         \/ \E g \in Gateway : Expire(g) \/ Crash(g)
         \/ \E t \in Table, p \in Prefix : OperatorEdit(t, p)
  PROVE  SInv'
<1>0. /\ table \in [Table -> StaticRoutes]
      /\ operations \in [OperationId -> Operation]
      /\ pass \in [Gateway -> Pass]
      /\ \A g \in Gateway : Sound(g, pass[g])
  BY Zenon DEF SInv, TypeOK
<1>1. ASSUME NEW g \in Gateway, Expire(g) PROVE SInv'
  <2> DEFINE n == [pass[g] EXCEPT !.expired = TRUE]
  <2>1. /\ n \in Pass /\ n.pc = pass[g].pc /\ n.at = pass[g].at
        /\ n.op = pass[g].op /\ n.list = pass[g].list
    BY <1>0, Zenon DEF Pass
  <2>2. Sound(g, n)
    BY <1>0, <2>1, Zenon DEF Sound
  <2>3. pass' = [pass EXCEPT ![g] = n]
    BY <1>0, <1>1, Zenon DEF Expire
  <2> QED
    BY <1>0, <1>1, <2>2, <2>3, BudgetStep, PassStep, Zenon DEF Expire
<1>2. ASSUME NEW g \in Gateway, Crash(g) PROVE SInv'
  BY <1>0, <1>2, IdleSound, WithoutWaiterType, BudgetStep, PassStep, Zenon DEF Crash
<1>3. ASSUME NEW t \in Table, NEW p \in Prefix, OperatorEdit(t, p) PROVE SInv'
  <2>1. PICK r \in Foreign \cup {None} : table' = [table EXCEPT ![t][p] = r]
    BY <1>3, Zenon DEF OperatorEdit
  <2>2. [table[t] EXCEPT ![p] = r] \in StaticRoutes
    BY <1>0, Zenon DEF StaticRoutes, Target
  <2>3. table' \in [Table -> StaticRoutes]
    BY <1>0, <2>1, <2>2, Zenon
  <2> QED
    BY <1>0, <1>3, <2>3, BudgetStep, Zenon DEF OperatorEdit, SInv, TypeOK
<1> QED
  BY <1>1, <1>2, <1>3, Zenon

LEMMA NextSInv == SInv /\ [Next]_vars => SInv'
<1> SUFFICES ASSUME SInv, [Next]_vars PROVE SInv'
  OBVIOUS
<1>1. CASE UNCHANGED vars
  BY <1>1, Zenon DEF vars, SInv, TypeOK
<1>2. CASE Next
  BY <1>2, StepSInv, ApiSInv, SurroundingsSInv, Zenon DEF Next, Environment
<1> QED
  BY <1>1, <1>2

LEMMA SoundAlways == Spec => []SInv
  BY InitSInv, NextSInv, PTL DEF Spec

(***************************************************************************)
(* Whatever fails, expires, is rejected or edited, tables, operations and  *)
(* passes are of their types: in particular no pass goes past the last of  *)
(* the route tables (Sync's loop over tableIDs).                           *)
(***************************************************************************)
THEOREM TypeCorrect == Spec => []TypeOK
<1>1. SInv => TypeOK
  BY Zenon DEF SInv
<1> QED
  BY <1>1, SoundAlways, PTL

-----------------------------------------------------------------------------
(***************************************************************************)
(* Unmanaged routes. An update rewrites a whole table, so no step can be   *)
(* looked at alone: the routes that are on nobody's list must be the same  *)
(* in the table, in what every pass is about to send for it, and in every  *)
(* operation that is still to be executed.                                 *)
(***************************************************************************)
Unmanaged == Prefix \ (Managed \cup Edited)

Agrees(routes, t) == \A p \in Unmanaged : routes[p] = table[t][p]

UInv ==
  /\ \A i \in OperationId :
       operations[i].state = "running" => Agrees(operations[i].routes, operations[i].table)
  /\ \A g \in Gateway :
       pass[g].pc = "patch" => Agrees(pass[g].desired, pass[g].at)

Kept == \A t \in Table : \A p \in Unmanaged : table'[t][p] = table[t][p]

LEMMA InitUInv == Init => UInv
<1>1. FreeOperation.state = "free" /\ Idle.pc = "idle"
  BY Zenon DEF FreeOperation, Idle
<1>2. ASSUME Init, NEW i \in OperationId PROVE operations[i] = FreeOperation
  BY <1>2, Zenon DEF Init
<1>3. ASSUME Init, NEW g \in Gateway PROVE pass[g] = Idle
  BY <1>3, Zenon DEF Init
<1> QED
  BY <1>1, <1>2, <1>3, Zenon DEF UInv

(* What a step can put into a table. *)
LEMMA NextKeeps ==
  ASSUME SInv, UInv, Next
  PROVE  Kept
<1>0. table \in [Table -> StaticRoutes] /\ operations \in [OperationId -> Operation]
  BY Zenon DEF SInv, TypeOK
<1>1. ASSUME NEW g \in Gateway, Step(g) PROVE UNCHANGED table
  BY <1>1, Zenon DEF Step, StartPass, GetTable, GetFails, PatchAccepted,
     PatchAnswerLost, PatchFails, PollDone, PollRejected, PollFails, EndPass
<1>2. ASSUME NEW i \in OperationId, Execute(i) PROVE Kept
  <2> DEFINE o == operations[i]
  <2>1. /\ o.table \in Table /\ Agrees(o.routes, o.table)
        /\ table' = [table EXCEPT ![o.table] = o.routes]
    BY <1>0, <1>2, Zenon DEF Execute, UInv, Operation
  <2> QED
    BY <1>0, <2>1, Zenon DEF Agrees, Kept
<1>3. ASSUME NEW t \in Table, NEW p \in Prefix, OperatorEdit(t, p) PROVE Kept
  <2>1. PICK r : table' = [table EXCEPT ![t][p] = r]
    BY <1>3, Zenon DEF OperatorEdit
  <2>2. p \notin Unmanaged
    BY <1>3, Zenon DEF OperatorEdit, Unmanaged
  <2>3. ASSUME NEW u \in Table, NEW q \in Unmanaged PROVE table'[u][q] = table[u][q]
    <3>1. q \in Prefix /\ q # p
      BY <2>2, Zenon DEF Unmanaged
    <3>2. CASE u = t
      <4>1. table'[u] = [table[t] EXCEPT ![p] = r]
        BY <1>0, <2>1, <3>2, Zenon
      <4>2. table[t] \in StaticRoutes
        BY <1>0, Zenon
      <4> QED
        BY <3>1, <3>2, <4>1, <4>2, Zenon DEF StaticRoutes
    <3>3. CASE u # t
      BY <1>0, <2>1, <3>3, Zenon
    <3> QED
      BY <3>2, <3>3
  <2> QED
    BY <2>3, Zenon DEF Kept
<1>4. ASSUME Environment PROVE Kept
  BY <1>3, <1>4, Zenon DEF Environment, Reject, Expire, Crash, Kept
<1> QED
  BY <1>1, <1>2, <1>4, Zenon DEF Next, Kept

LEMMA NextTablePc ==
  ASSUME NEW s \in Pass
  PROVE  NextTable(s).pc # "patch"
<1>1. NextTable(s).pc = (IF s.at = NumTables THEN "report" ELSE "get")
  BY Zenon DEF NextTable, Pass
<1> QED
  BY <1>1, Zenon

(* A pass about to send an update has just computed it. *)
LEMMA StepPatch ==
  ASSUME SInv, NEW g \in Gateway, Step(g), pass'[g].pc = "patch"
  PROVE  /\ g \notin DryRun /\ pass[g].at \in Table
         /\ pass'[g].at = pass[g].at
         /\ pass'[g].desired = Desired(pass[g].list, table[pass[g].at], AddressOf[g])
<1> DEFINE s == pass[g]
<1>0. pass \in [Gateway -> Pass] /\ s \in Pass /\ Sound(g, s)
  BY Zenon DEF SInv, TypeOK
<1>1. ASSUME NEW n \in Pass PROVE pass' # [pass EXCEPT ![g] = NextTable(n)]
  BY <1>0, NextTablePc, Zenon
<1>2. Fail(s) \in Pass
  BY <1>0, FailSound, Zenon DEF Sound
<1>3. ~StartPass(g)
  <2>1. ASSUME NEW list PROVE [Idle EXCEPT !.pc = "get", !.list = list].pc = "get"
    BY Zenon DEF Idle
  <2>2. SUFFICES ASSUME StartPass(g) PROVE FALSE
    OBVIOUS
  <2>3. PICK list : pass' = [pass EXCEPT ![g] = [Idle EXCEPT !.pc = "get", !.list = list]]
    BY <2>2, Zenon DEF StartPass
  <2> QED
    BY <1>0, <2>1, <2>3, Zenon
<1>4. ~GetFails(g) /\ ~PatchFails(g) /\ ~PollRejected(g) /\ ~PollFails(g)
  BY <1>1, <1>2, Zenon DEF GetFails, PatchFails, PollRejected, PollFails
<1>5. ASSUME NEW i \in OperationId PROVE ~PatchAccepted(g, i) /\ ~PatchAnswerLost(g, i)
  <2>1. [s EXCEPT !.pc = "wait", !.op = i].pc = "wait"
    BY <1>0, Zenon DEF Pass
  <2>2. ASSUME NEW cut \in BOOLEAN PROVE Fail([s EXCEPT !.expired = cut]) \in Pass
    BY <1>0, Zenon DEF Pass, Fail
  <2>3. ~PatchAccepted(g, i)
    BY <1>0, <2>1, Zenon DEF PatchAccepted
  <2>4. ~PatchAnswerLost(g, i)
    BY <1>1, <2>2, Zenon DEF PatchAnswerLost
  <2> QED
    BY <2>3, <2>4
<1>6. ~PollDone(g)
  <2> SUFFICES ASSUME PollDone(g) PROVE FALSE
    OBVIOUS
  <2> DEFINE m == s.made \cup {s.at}
  <2>1. s.at \in Table
    BY <1>0, Zenon DEF PollDone, Sound
  <2>2. m \in SUBSET Table
    BY <1>0, <2>1, Zenon DEF Pass
  <2>3. pass' = [pass EXCEPT ![g] = NextTable([s EXCEPT !.made = m])]
    BY Zenon DEF PollDone
  <2> HIDE DEF m
  <2>4. [s EXCEPT !.made = m] \in Pass
    BY <1>0, <2>2, Zenon DEF Pass
  <2> QED
    BY <1>1, <2>3, <2>4, Zenon
<1>7. ~EndPass(g)
  <2>1. Idle.pc = "idle"
    BY Zenon DEF Idle
  <2> QED
    BY <1>0, <2>1, Zenon DEF EndPass
<1>8. GetTable(g)
  BY <1>3, <1>4, <1>5, <1>6, <1>7, Zenon DEF Step
<1> DEFINE all == s.changes \cup ChangesOf(s.at, s.list, table[s.at], AddressOf[g])
           read == [s EXCEPT !.changes = all]
           desired == Desired(s.list, table[s.at], AddressOf[g])
           n == [read EXCEPT !.pc = "patch", !.desired = desired]
<1>9. s.at \in Table
  BY <1>0, <1>8, Zenon DEF GetTable, Sound
<1>10. \/ pass' = [pass EXCEPT ![g] = n] /\ g \notin DryRun
       \/ pass' = [pass EXCEPT ![g] = NextTable(read)]
  BY <1>8, Zenon DEF GetTable
<1>11. all \in SUBSET Change
  BY <1>0, <1>9, ChangesType, Zenon DEF Pass
<1> HIDE DEF all, desired
<1>12. read \in Pass /\ read.at = s.at
  BY <1>0, <1>11, Zenon DEF Pass
<1> HIDE DEF read
<1>13. pass' = [pass EXCEPT ![g] = n] /\ g \notin DryRun
  BY <1>1, <1>10, <1>12, Zenon
<1>14. n.at = s.at /\ n.desired = desired
  BY <1>12, Zenon DEF Pass
<1> QED
  BY <1>0, <1>9, <1>13, <1>14, Zenon DEF desired

(* Operations in flight were in flight before, or are those of a patch. *)
LEMMA NextRunning ==
  ASSUME SInv, Next, NEW i \in OperationId, operations'[i].state = "running"
  PROVE  \/ operations[i].state = "running" /\ operations'[i] = operations[i]
         \/ \E g \in Gateway : /\ pass[g].pc = "patch"
                               /\ operations'[i].table = pass[g].at
                               /\ operations'[i].routes = pass[g].desired
<1>0. operations \in [OperationId -> Operation] /\ FreeOperation.state # "running"
  BY Zenon DEF SInv, TypeOK, FreeOperation
<1> DEFINE Same == operations'[i] = operations[i]
<1>1. ASSUME NEW j, operations' = [operations EXCEPT ![j] = FreeOperation] PROVE Same
  BY <1>0, <1>1, Zenon
<1>2. ASSUME NEW g, operations' = WithoutWaiter(g) PROVE Same
  BY <1>0, <1>2, Zenon DEF WithoutWaiter
<1>3. ASSUME NEW j \in OperationId, NEW outcome \in {"done", "failed"}, Finish(j, outcome)
      PROVE  Same
  BY <1>0, <1>3, Zenon DEF Finish, Operation
<1>4. ASSUME NEW g \in Gateway, NEW j \in OperationId, Accept(g, j)
      PROVE  \/ Same
             \/ /\ pass[g].pc = "patch"
                /\ operations'[i].table = pass[g].at
                /\ operations'[i].routes = pass[g].desired
  BY <1>0, <1>4, Zenon DEF Accept
<1>5. ASSUME NEW g \in Gateway, Step(g)
      PROVE  Same \/ \E j \in OperationId : Accept(g, j)
  BY <1>1, <1>2, <1>5, Zenon DEF Step, StartPass, GetTable, GetFails, PatchAccepted,
     PatchAnswerLost, PatchFails, PollDone, PollRejected, PollFails, EndPass
<1>6. ASSUME NEW j \in OperationId, Execute(j) \/ Reject(j) PROVE Same
  BY <1>3, <1>6, Zenon DEF Execute, Reject
<1>7. ASSUME Environment PROVE Same
  BY <1>2, <1>6, <1>7, Zenon DEF Environment, Expire, Crash, OperatorEdit
<1> QED
  BY <1>4, <1>5, <1>6, <1>7, Zenon DEF Next

LEMMA NextPass ==
  ASSUME SInv, Next, NEW g \in Gateway, pass'[g].pc = "patch"
  PROVE  \/ /\ pass[g].pc = "patch" /\ pass'[g].at = pass[g].at
            /\ pass'[g].desired = pass[g].desired
         \/ Step(g)
<1>0. pass \in [Gateway -> Pass]
  BY Zenon DEF SInv, TypeOK
<1> DEFINE Same == /\ pass[g].pc = "patch" /\ pass'[g].at = pass[g].at
                   /\ pass'[g].desired = pass[g].desired
<1>1. ASSUME NEW h \in Gateway, Step(h), h # g PROVE Same
  BY <1>0, <1>1, Zenon DEF Step, StartPass, GetTable, GetFails, PatchAccepted,
     PatchAnswerLost, PatchFails, PollDone, PollRejected, PollFails, EndPass
<1>2. ASSUME NEW h \in Gateway, Expire(h) PROVE Same
  BY <1>0, <1>2, Zenon DEF Expire, Pass
<1>3. ASSUME NEW h \in Gateway, Crash(h) PROVE Same
  BY <1>0, <1>3, Zenon DEF Crash, Idle
<1>4. UNCHANGED pass => Same
  BY Zenon
<1> QED
  BY <1>1, <1>2, <1>3, <1>4, Zenon DEF Next, Environment, Execute, Reject, OperatorEdit

LEMMA NextUInv == SInv /\ UInv /\ [Next]_vars => UInv'
<1> SUFFICES ASSUME SInv, UInv, [Next]_vars PROVE UInv'
  OBVIOUS
<1>1. CASE UNCHANGED vars
  BY <1>1, Zenon DEF vars, UInv, Agrees
<1>2. CASE Next
  <2>0. /\ table \in [Table -> StaticRoutes] /\ operations \in [OperationId -> Operation]
        /\ Kept
    BY <1>2, NextKeeps, Zenon DEF SInv, TypeOK
  <2>1. ASSUME NEW t \in Table, NEW routes, Agrees(routes, t)
        PROVE  \A p \in Unmanaged : routes[p] = table'[t][p]
    BY <2>0, <2>1, Zenon DEF Kept, Agrees
  <2>2. \A g \in Gateway : pass[g].pc = "patch" => pass[g].at \in Table
    BY Zenon DEF SInv, Sound
  <2>3. ASSUME NEW i \in OperationId, operations'[i].state = "running"
        PROVE  \A p \in Unmanaged :
                 operations'[i].routes[p] = table'[operations'[i].table][p]
    <3>1. CASE operations[i].state = "running" /\ operations'[i] = operations[i]
      <4>1. operations[i].table \in Table /\ Agrees(operations[i].routes, operations[i].table)
        BY <2>0, <3>1, Zenon DEF UInv, Operation
      <4> QED
        BY <2>1, <3>1, <4>1, Zenon
    <3>2. ASSUME NEW g \in Gateway, pass[g].pc = "patch",
                 operations'[i].table = pass[g].at, operations'[i].routes = pass[g].desired
          PROVE  \A p \in Unmanaged :
                   operations'[i].routes[p] = table'[operations'[i].table][p]
      <4>1. pass[g].at \in Table /\ Agrees(pass[g].desired, pass[g].at)
        BY <2>2, <3>2, Zenon DEF UInv
      <4> QED
        BY <2>1, <3>2, <4>1, Zenon
    <3> QED
      BY <1>2, <2>3, <3>1, <3>2, NextRunning, Zenon
  <2>4. ASSUME NEW g \in Gateway, pass'[g].pc = "patch"
        PROVE  \A p \in Unmanaged : pass'[g].desired[p] = table'[pass'[g].at][p]
    <3>1. CASE /\ pass[g].pc = "patch" /\ pass'[g].at = pass[g].at
               /\ pass'[g].desired = pass[g].desired
      <4>1. pass[g].at \in Table /\ Agrees(pass[g].desired, pass[g].at)
        BY <2>2, <3>1, Zenon DEF UInv
      <4> QED
        BY <2>1, <3>1, <4>1, Zenon
    <3>2. CASE Step(g)
      <4> DEFINE s == pass[g]
      <4>1. /\ g \notin DryRun /\ s.at \in Table /\ pass'[g].at = s.at
            /\ pass'[g].desired = Desired(s.list, table[s.at], AddressOf[g])
        BY <2>4, <3>2, StepPatch, Zenon
      <4>2. s.list \subseteq Managed
        BY <4>1, Zenon DEF SInv, Sound, Managed, Claimable
      <4>3. Agrees(Desired(s.list, table[s.at], AddressOf[g]), s.at)
        BY <4>2, Zenon DEF Desired, Agrees, Unmanaged
      <4> QED
        BY <2>1, <4>1, <4>3, Zenon
    <3> QED
      BY <1>2, <2>4, <3>1, <3>2, NextPass, Zenon
  <2> QED
    BY <2>3, <2>4, Zenon DEF UInv, Agrees
<1> QED
  BY <1>1, <1>2

(***************************************************************************)
(* Routes on nobody's list stay as they are (README: "left untouched"),    *)
(* for any number of gateways that rewrite the same tables at once, with   *)
(* updates that are executed late, lost, rejected or repeated.             *)
(***************************************************************************)
THEOREM LeavesUnmanaged == Spec => UnmanagedUntouched
<1>1. SInv /\ UInv /\ [Next]_vars =>
        [\A t \in Table, p \in Prefix \ (Managed \cup Edited) :
           table'[t][p] = table[t][p]]_table
  BY NextKeeps, Zenon DEF Kept, Unmanaged, vars
<1>2. Spec => [](SInv /\ UInv)
  BY InitSInv, NextSInv, InitUInv, NextUInv, PTL DEF Spec
<1> QED
  BY <1>1, <1>2, PTL DEF Spec, UnmanagedUntouched

-----------------------------------------------------------------------------
(***************************************************************************)
(* The outcome of updates. Unless it has an error already, a pass has seen *)
(* every update in its report through, but for the one it is about to send *)
(* or waits for.                                                           *)
(***************************************************************************)
Pending(s) == IF s.pc \in {"patch", "wait"} THEN {s.at} ELSE {}

SeenThrough(s) == s.failed \/ Updated(s) \subseteq s.made \cup Pending(s)

OutcomeInv == \A g \in Gateway \ DryRun : SeenThrough(pass[g])

LEMMA IdleSeenThrough == /\ Idle \in Pass /\ SeenThrough(Idle)
                         /\ Idle.changes = {} /\ Idle.made = {}
<1>1. 1 \in 1 .. NumTables + 1
  BY YandexAssumption DEF YandexAssumption
<1>2. Idle \in Pass
  BY <1>1, FreeType, Zenon DEF Idle, Pass
<1>3. Idle.changes = {} /\ Idle.made = {}
  BY DEF Idle
<1> QED
  BY <1>2, <1>3 DEF SeenThrough, Updated

(* A table is left with its update seen through, or with an error. *)
LEMMA NextTableSeen ==
  ASSUME NEW s \in Pass, s.failed \/ Updated(s) \subseteq s.made
  PROVE  SeenThrough(NextTable(s))
<1>1. /\ NextTable(s).changes = s.changes /\ NextTable(s).made = s.made
      /\ NextTable(s).failed = s.failed
  BY Zenon DEF NextTable, Pass
<1> QED
  BY <1>1, Zenon DEF SeenThrough, Updated

LEMMA FailSeen ==
  ASSUME NEW s \in Pass
  PROVE  SeenThrough(NextTable(Fail(s)))
<1>1. Fail(s) \in Pass /\ Fail(s).failed
  BY Zenon DEF Fail, Pass
<1> QED
  BY <1>1, NextTableSeen, Zenon

LEMMA StepSeen ==
  ASSUME SInv, NEW g \in Gateway \ DryRun, SeenThrough(pass[g]), Step(g)
  PROVE  SeenThrough(pass'[g])
<1> DEFINE s == pass[g]
<1>0. s \in Pass /\ pass \in [Gateway -> Pass] /\ Sound(g, s)
  BY Zenon DEF SInv, TypeOK
<1>1. CASE StartPass(g)
  <2>1. PICK list \in Lists[g] : pass'[g] = [Idle EXCEPT !.pc = "get", !.list = list]
    BY <1>0, <1>1, Zenon DEF StartPass
  <2>2. pass'[g].changes = {} /\ pass'[g].made = {}
    BY <2>1, IdleSeenThrough, Zenon DEF Pass
  <2> QED
    BY <2>2 DEF SeenThrough, Updated
<1>2. CASE GetTable(g)
  <2> DEFINE changes == ChangesOf(s.at, s.list, table[s.at], AddressOf[g])
             all == s.changes \cup changes
             read == [s EXCEPT !.changes = all]
             mutated == \E c \in changes : c.action # "noop"
             desired == Desired(s.list, table[s.at], AddressOf[g])
             n == [read EXCEPT !.pc = "patch", !.desired = desired]
  <2>1. s.pc = "get" /\ s.at \in Table /\ s.list \in SUBSET Prefix
    BY <1>0, <1>2, Zenon DEF GetTable, Sound, Pass
  <2>2. \/ mutated /\ pass'[g] = n
        \/ ~mutated /\ pass'[g] = NextTable(read)
    BY <1>0, <1>2, Zenon DEF GetTable
  <2>3. changes \in SUBSET Change /\ \A c \in changes : c.table = s.at
    <3>1. \A c \in changes : c.table = s.at
      BY DEF ChangesOf
    <3> QED
      BY <2>1, <3>1, ChangesType, Zenon
  <2> HIDE DEF changes, desired
  <2>4. all \in SUBSET Change
    BY <1>0, <2>3, Zenon DEF Pass
  <2>5. s.failed \/ Updated(s) \subseteq s.made
    BY <2>1 DEF SeenThrough, Pending
  <2>6. CASE mutated
    <3>1. /\ n.changes = s.changes \cup changes /\ n.made = s.made
          /\ n.failed = s.failed /\ n.pc = "patch" /\ n.at = s.at
      BY <1>0, Zenon DEF Pass
    <3> HIDE DEF n
    <3>2. Updated(n) \subseteq Updated(s) \cup {s.at}
      BY <2>3, <3>1 DEF Updated
    <3>3. SeenThrough(n)
      BY <2>5, <3>1, <3>2 DEF SeenThrough, Pending
    <3> QED
      BY <2>2, <2>6, <3>3, Zenon DEF n
  <2>7. CASE ~mutated
    <3>1. /\ read \in Pass /\ read.changes = s.changes \cup changes
          /\ read.made = s.made /\ read.failed = s.failed
      BY <1>0, <2>4, Zenon DEF Pass
    <3> HIDE DEF read
    <3>2. Updated(read) \subseteq Updated(s)
      BY <2>7, <3>1 DEF Updated
    <3>3. SeenThrough(NextTable(read))
      BY <2>5, <3>1, <3>2, NextTableSeen, Zenon
    <3> QED
      BY <2>2, <2>7, <3>3, Zenon DEF read
  <2> QED
    BY <2>6, <2>7
<1>3. CASE GetFails(g) \/ PatchFails(g) \/ PollRejected(g) \/ PollFails(g)
  <2>1. pass'[g] = NextTable(Fail(s))
    BY <1>0, <1>3, Zenon DEF GetFails, PatchFails, PollRejected, PollFails
  <2> QED
    BY <1>0, <2>1, FailSeen, Zenon
<1>4. ASSUME NEW i \in OperationId, PatchAccepted(g, i) PROVE SeenThrough(pass'[g])
  <2> DEFINE n == [s EXCEPT !.pc = "wait", !.op = i]
  <2>1. pass'[g] = n /\ s.pc = "patch"
    BY <1>0, <1>4, Zenon DEF PatchAccepted, Accept
  <2>2. /\ n.changes = s.changes /\ n.made = s.made /\ n.failed = s.failed
        /\ n.pc = "wait" /\ n.at = s.at
    BY <1>0, Zenon DEF Pass
  <2> HIDE DEF n
  <2> QED
    BY <2>1, <2>2 DEF SeenThrough, Pending, Updated
<1>5. ASSUME NEW i \in OperationId, PatchAnswerLost(g, i) PROVE SeenThrough(pass'[g])
  <2>1. PICK cut \in BOOLEAN :
          pass'[g] = NextTable(Fail([s EXCEPT !.expired = cut]))
    BY <1>0, <1>5, Zenon DEF PatchAnswerLost
  <2>2. [s EXCEPT !.expired = cut] \in Pass
    BY <1>0, Zenon DEF Pass
  <2> QED
    BY <2>1, <2>2, FailSeen, Zenon
<1>6. CASE PollDone(g)
  <2> DEFINE m == s.made \cup {s.at}
             n == [s EXCEPT !.made = m]
  <2>1. s.pc = "wait" /\ s.at \in Table /\ pass'[g] = NextTable(n)
    BY <1>0, <1>6, Zenon DEF PollDone, Sound
  <2>2. m \in SUBSET Table
    BY <1>0, <2>1, Zenon DEF Pass
  <2>3. s.failed \/ Updated(s) \subseteq m
    BY <2>1 DEF SeenThrough, Pending
  <2> HIDE DEF m
  <2>4. n \in Pass /\ n.changes = s.changes /\ n.made = m /\ n.failed = s.failed
    BY <1>0, <2>2, Zenon DEF Pass
  <2>5. n.failed \/ Updated(n) \subseteq n.made
    BY <2>3, <2>4, Zenon DEF Updated
  <2> QED
    BY <2>1, <2>4, <2>5, NextTableSeen, Zenon DEF m
<1>7. CASE EndPass(g)
  BY <1>0, <1>7, IdleSeenThrough, Zenon DEF EndPass
<1> QED
  BY <1>1, <1>2, <1>3, <1>4, <1>5, <1>6, <1>7, Zenon DEF Step

LEMMA NextOutcomeInv == SInv /\ OutcomeInv /\ [Next]_vars => OutcomeInv'
<1> SUFFICES ASSUME SInv, OutcomeInv, [Next]_vars, NEW g \in Gateway \ DryRun
             PROVE  SeenThrough(pass'[g])
  BY Zenon DEF OutcomeInv
<1>0. pass[g] \in Pass /\ pass \in [Gateway -> Pass] /\ SeenThrough(pass[g])
  BY Zenon DEF SInv, TypeOK, OutcomeInv
<1>1. ASSUME NEW h \in Gateway, Step(h) PROVE SeenThrough(pass'[g])
  <2>1. CASE h = g
    BY <1>0, <1>1, <2>1, StepSeen, Zenon
  <2>2. CASE h # g
    <3>1. pass'[g] = pass[g]
      BY <1>0, <1>1, <2>2, Zenon DEF Step, StartPass, GetTable, GetFails, PatchAccepted,
         PatchAnswerLost, PatchFails, PollDone, PollRejected, PollFails, EndPass
    <3> QED
      BY <1>0, <3>1, Zenon
  <2> QED
    BY <2>1, <2>2
<1>2. ASSUME NEW h \in Gateway, Expire(h) PROVE SeenThrough(pass'[g])
  <2>1. /\ pass'[g].changes = pass[g].changes /\ pass'[g].made = pass[g].made
        /\ pass'[g].failed = pass[g].failed /\ pass'[g].pc = pass[g].pc
        /\ pass'[g].at = pass[g].at
    BY <1>0, <1>2, Zenon DEF Expire, Pass
  <2> QED
    BY <1>0, <2>1, Zenon DEF SeenThrough, Updated, Pending
<1>3. ASSUME NEW h \in Gateway, Crash(h) PROVE SeenThrough(pass'[g])
  BY <1>0, <1>3, IdleSeenThrough, Zenon DEF Crash
<1>4. UNCHANGED pass => SeenThrough(pass'[g])
  BY <1>0, Zenon
<1> QED
  BY <1>1, <1>2, <1>3, <1>4, Zenon DEF Next, Environment, Execute, Reject, OperatorEdit,
     vars

(***************************************************************************)
(* No pass reports success for an update that the API rejected or whose    *)
(* outcome the pass does not know (waitOperation's comment), for any       *)
(* number of gateways, tables and operations.                              *)
(***************************************************************************)
THEOREM SuccessIsKnown == Spec => []NoSuccessForRejectedUpdate
<1>1. Init => OutcomeInv
  BY IdleSeenThrough, Zenon DEF Init, OutcomeInv
<1>2. OutcomeInv => NoSuccessForRejectedUpdate
  <2> SUFFICES ASSUME OutcomeInv, NEW g \in Gateway \ DryRun,
                      pass[g].pc = "report", ~pass[g].failed
               PROVE  Updated(pass[g]) \subseteq pass[g].made
    BY Zenon DEF NoSuccessForRejectedUpdate
  <2>1. SeenThrough(pass[g])
    BY Zenon DEF OutcomeInv
  <2>2. Pending(pass[g]) = {}
    BY DEF Pending
  <2> QED
    BY <2>1, <2>2 DEF SeenThrough
<1> QED
  BY <1>1, <1>2, SoundAlways, NextOutcomeInv, PTL DEF Spec

-----------------------------------------------------------------------------
(***************************************************************************)
(* One writer. Updates of two instances undo each other, so what a pass    *)
(* achieves can be told of one instance only, others under dry-run beside  *)
(* it, whose list is always the same and whose prefixes nobody edits.      *)
(***************************************************************************)
OneWriter == \A g, h \in Gateway \ DryRun : g = h

FixedList == \A g \in Gateway \ DryRun : \A list \in Lists[g] : list = UNION Lists[g]

NotEdited == Managed \cap Edited = {}

(* Gateways under dry-run send no update and wait for none. *)
DryInv == \A g \in DryRun : pass[g].pc \notin {"patch", "wait"} /\ pass[g].op = 0

LEMMA DryNextTable ==
  ASSUME NEW s \in Pass
  PROVE  /\ NextTable(s).pc \notin {"patch", "wait"} /\ NextTable(s).op = 0
         /\ Fail(s) \in Pass /\ Fail(s).pc = s.pc
BY Zenon DEF NextTable, Fail, Pass

LEMMA StepDry ==
  ASSUME SInv, DryInv, NEW g \in DryRun, Step(g)
  PROVE  /\ pass'[g].pc \notin {"patch", "wait"} /\ pass'[g].op = 0
         /\ UNCHANGED <<table, operations>>
<1> DEFINE s == pass[g]
<1>0. /\ g \in Gateway /\ s \in Pass /\ pass \in [Gateway -> Pass] /\ Sound(g, s)
      /\ s.pc \notin {"patch", "wait"}
  BY YandexAssumption, Zenon DEF YandexAssumption, SInv, TypeOK, DryInv
<1>1. CASE StartPass(g)
  <2>1. PICK list \in Lists[g] : pass'[g] = [Idle EXCEPT !.pc = "get", !.list = list]
    BY <1>0, <1>1, Zenon DEF StartPass
  <2>2. pass'[g].pc = "get" /\ pass'[g].op = 0
    BY <2>1, Zenon DEF Idle
  <2> QED
    BY <1>1, <2>2, Zenon DEF StartPass
<1>2. CASE GetTable(g)
  <2> DEFINE all == s.changes \cup ChangesOf(s.at, s.list, table[s.at], AddressOf[g])
             read == [s EXCEPT !.changes = all]
  <2>1. s.at \in Table
    BY <1>0, <1>2, Zenon DEF GetTable, Sound
  <2>2. all \in SUBSET Change
    BY <1>0, <2>1, ChangesType, Zenon DEF Pass
  <2>3. pass'[g] = NextTable(read)
    BY <1>0, <1>2, Zenon DEF GetTable
  <2> HIDE DEF all
  <2>4. read \in Pass
    BY <1>0, <2>2, Zenon DEF Pass
  <2> QED
    BY <1>2, <2>3, <2>4, DryNextTable, Zenon DEF GetTable
<1>3. CASE GetFails(g)
  <2>1. pass'[g] = NextTable(Fail(s)) /\ UNCHANGED <<table, operations>>
    BY <1>0, <1>3, Zenon DEF GetFails
  <2> QED
    BY <1>0, <2>1, DryNextTable, Zenon
<1>4. CASE EndPass(g)
  BY <1>0, <1>4, Zenon DEF EndPass, Idle
<1> QED
  BY <1>0, <1>1, <1>2, <1>3, <1>4, Zenon DEF Step, PatchAccepted, PatchAnswerLost, Accept,
     PatchFails, PollDone, PollRejected, PollFails

LEMMA NextDryInv == SInv /\ DryInv /\ [Next]_vars => DryInv'
<1> SUFFICES ASSUME SInv, DryInv, [Next]_vars, NEW g \in DryRun
             PROVE  pass'[g].pc \notin {"patch", "wait"} /\ pass'[g].op = 0
  BY Zenon DEF DryInv
<1>0. /\ g \in Gateway /\ pass[g] \in Pass /\ pass \in [Gateway -> Pass]
      /\ pass[g].pc \notin {"patch", "wait"} /\ pass[g].op = 0
  BY YandexAssumption, Zenon DEF YandexAssumption, SInv, TypeOK, DryInv
<1>1. ASSUME NEW h \in Gateway, Step(h), h # g PROVE pass'[g] = pass[g]
  BY <1>0, <1>1, Zenon DEF Step, StartPass, GetTable, GetFails, PatchAccepted,
     PatchAnswerLost, PatchFails, PollDone, PollRejected, PollFails, EndPass
<1>2. ASSUME NEW h \in Gateway, Expire(h)
      PROVE  pass'[g].pc = pass[g].pc /\ pass'[g].op = pass[g].op
  BY <1>0, <1>2, Zenon DEF Expire, Pass
<1>3. ASSUME NEW h \in Gateway, Crash(h)
      PROVE  pass'[g] = pass[g] \/ pass'[g] = Idle
  BY <1>0, <1>3, Zenon DEF Crash
<1>4. Idle.pc = "idle" /\ Idle.op = 0
  BY Zenon DEF Idle
<1> QED
  BY <1>0, <1>1, <1>2, <1>3, <1>4, StepDry, Zenon DEF Next, Environment, Execute, Reject,
     OperatorEdit, vars

-----------------------------------------------------------------------------
(* Every prefix of the writer's list is at its address. *)
Claims(routes) ==
  \A g \in Gateway \ DryRun : \A p \in UNION Lists[g] : routes[p] = AddressOf[g]

(***************************************************************************)
(* What holds of the writer's pass s, with the operations ops and the      *)
(* tables ts: it sends its claims and nothing less, the operation it waits *)
(* for is its own and, once done, has changed the table, and the tables it *)
(* is past are right unless it has met an error.                           *)
(***************************************************************************)
Waits(s, ops, ts) ==
  /\ ops[s.op].table = s.at
  /\ ops[s.op].state \in {"running", "done", "failed"}
  /\ ops[s.op].state = "done" => Claims(ts[s.at])

Works(g, s, ops, ts) ==
  /\ s.pc # "idle" => s.list = UNION Lists[g]
  /\ s.pc = "report" => s.at = NumTables + 1
  /\ s.pc = "patch" => Claims(s.desired)
  /\ s.pc = "wait" => Waits(s, ops, ts)
  /\ ~s.failed => \A t \in Table : t < s.at => Claims(ts[t])

ClaimsInFlight ==
  \A i \in OperationId : operations[i].state = "running" => Claims(operations[i].routes)

WriterInv ==
  /\ DryInv
  /\ ClaimsInFlight
  /\ \A g \in Gateway \ DryRun : Works(g, pass[g], operations, table)

LEMMA WritersClaims ==
  ASSUME OneWriter, NEW g \in Gateway \ DryRun, NEW routes,
         \A p \in UNION Lists[g] : routes[p] = AddressOf[g]
  PROVE  Claims(routes)
BY Zenon DEF OneWriter, Claims

LEMMA IdleWorks == \A g, ops, ts : Works(g, Idle, ops, ts)
<1>1. \A t \in Table : ~(t < 1)
  BY YandexAssumption DEF YandexAssumption, Table
<1> QED
  BY <1>1, Zenon DEF Works, Idle

LEMMA NextTableWorks ==
  ASSUME NEW g, NEW s, NEW ops, NEW ts, Sound(g, s), s.pc \in {"get", "patch", "wait"},
         Works(g, s, ops, ts), ~s.failed => Claims(ts[s.at])
  PROVE  Works(g, NextTable(s), ops, ts)
<1> DEFINE n == NextTable(s)
<1>1. s \in Pass /\ s.at \in Table
  BY Zenon DEF Sound
<1>2. /\ n.pc = (IF s.at = NumTables THEN "report" ELSE "get")
      /\ n.at = s.at + 1 /\ n.list = s.list /\ n.failed = s.failed
  BY <1>1, Zenon DEF NextTable, Pass
<1>3. \A t \in Table : t < s.at + 1 => t < s.at \/ t = s.at
  BY <1>1, YandexAssumption DEF YandexAssumption, Table
<1> HIDE DEF n
<1>4. /\ n.pc = "report" => n.at = NumTables + 1
      /\ n.pc \notin {"idle", "patch", "wait"}
  BY <1>2
<1>5. ~n.failed => \A t \in Table : t < n.at => Claims(ts[t])
  BY <1>2, <1>3, Zenon DEF Works
<1>6. n.list = UNION Lists[g]
  BY <1>2, Zenon DEF Works
<1> QED
  BY <1>4, <1>5, <1>6, Zenon DEF Works, n

(* An error makes no claim about the tables. *)
LEMMA FailWorks ==
  ASSUME NEW g, NEW s, NEW ops, NEW ts, NEW us, NEW vs,
         Sound(g, s), s.pc \in {"get", "patch", "wait"}, Works(g, s, ops, ts)
  PROVE  Works(g, NextTable(Fail(s)), us, vs)
<1> DEFINE n == NextTable(Fail(s))
<1>1. Fail(s) \in Pass /\ s.at \in Table /\ Fail(s).at = s.at
      /\ Fail(s).list = s.list /\ Fail(s).failed
  BY Zenon DEF Sound, Fail, Pass
<1>2. /\ n.pc = (IF s.at = NumTables THEN "report" ELSE "get")
      /\ n.at = s.at + 1 /\ n.list = s.list /\ n.failed
  BY <1>1, Zenon DEF NextTable, Pass
<1> HIDE DEF n
<1>3. /\ n.pc = "report" => n.at = NumTables + 1
      /\ n.pc \notin {"idle", "patch", "wait"}
  BY <1>2
<1>4. n.list = UNION Lists[g]
  BY <1>2, Zenon DEF Works
<1> QED
  BY <1>2, <1>3, <1>4, Zenon DEF Works, n

(* What is right stays right: only the writer's updates reach the tables. *)
LEMMA ClaimsStay ==
  ASSUME NotEdited, SInv, WriterInv, Next, NEW t \in Table, Claims(table[t])
  PROVE  Claims(table'[t])
<1>0. table \in [Table -> StaticRoutes] /\ operations \in [OperationId -> Operation]
  BY Zenon DEF SInv, TypeOK
<1>1. ASSUME NEW g \in Gateway, Step(g) PROVE UNCHANGED table
  BY <1>1, Zenon DEF Step, StartPass, GetTable, GetFails, PatchAccepted,
     PatchAnswerLost, PatchFails, PollDone, PollRejected, PollFails, EndPass
<1>2. ASSUME NEW i \in OperationId, Execute(i) PROVE Claims(table'[t])
  <2> DEFINE o == operations[i]
  <2>1. /\ o.table \in Table /\ Claims(o.routes)
        /\ table' = [table EXCEPT ![o.table] = o.routes]
    BY <1>0, <1>2, Zenon DEF Execute, WriterInv, ClaimsInFlight, Operation
  <2>2. table'[t] = o.routes \/ table'[t] = table[t]
    BY <1>0, <2>1, Zenon
  <2> QED
    BY <2>1, <2>2, Zenon
<1>3. ASSUME NEW u \in Table, NEW q \in Prefix, OperatorEdit(u, q) PROVE Claims(table'[t])
  <2>1. PICK r : table' = [table EXCEPT ![u][q] = r]
    BY <1>3, Zenon DEF OperatorEdit
  <2>2. q \notin Managed
    BY <1>3, Zenon DEF OperatorEdit, NotEdited
  <2>3. ASSUME NEW g \in Gateway \ DryRun, NEW p \in UNION Lists[g]
        PROVE  table'[t][p] = table[t][p]
    <3>1. p \in Managed
      BY <2>3, Zenon DEF Managed, Claimable
    <3>2. p \in Prefix /\ p # q
      BY <2>2, <3>1, YandexAssumption DEF YandexAssumption
    <3>3. table[u] \in StaticRoutes
      BY <1>0, Zenon
    <3> QED
      BY <1>0, <2>1, <3>2, <3>3 DEF StaticRoutes
  <2> QED
    BY <2>3, Zenon DEF Claims
<1>4. ASSUME Environment PROVE Claims(table'[t])
  BY <1>3, <1>4, Zenon DEF Environment, Reject, Expire, Crash
<1> QED
  BY <1>1, <1>2, <1>4, Zenon DEF Next

LEMMA FlightClaims == SInv /\ WriterInv /\ Next => ClaimsInFlight'
<1> SUFFICES ASSUME SInv, WriterInv, Next, NEW i \in OperationId,
                    operations'[i].state = "running"
             PROVE  Claims(operations'[i].routes)
  BY Zenon DEF ClaimsInFlight
<1>1. CASE operations[i].state = "running" /\ operations'[i] = operations[i]
  BY <1>1, Zenon DEF WriterInv, ClaimsInFlight
<1>2. ASSUME NEW g \in Gateway, pass[g].pc = "patch",
             operations'[i].routes = pass[g].desired
      PROVE  Claims(operations'[i].routes)
  <2>1. g \in Gateway \ DryRun
    BY <1>2, Zenon DEF WriterInv, DryInv
  <2> QED
    BY <1>2, <2>1, Zenon DEF WriterInv, Works
<1> QED
  BY <1>1, <1>2, NextRunning, Zenon

(* The operation the writer waits for, in a step that is not its own. *)
LEMMA OperationKept ==
  ASSUME OneWriter, NotEdited, SInv, WriterInv, Next,
         NEW g \in Gateway \ DryRun, ~Step(g), ~Crash(g), pass[g].pc = "wait"
  PROVE  Waits(pass[g], operations', table')
<1> DEFINE s == pass[g]
           i == s.op
<1>0. /\ operations \in [OperationId -> Operation] /\ table \in [Table -> StaticRoutes]
      /\ i \in OperationId /\ s.at \in Table /\ Waits(s, operations, table)
  BY Zenon DEF SInv, TypeOK, Sound, WriterInv, Works
<1>1. operations[i].table = s.at
  BY <1>0, Zenon DEF Waits
<1>2. CASE operations'[i] = operations[i]
  BY <1>0, <1>2, ClaimsStay, Zenon DEF Waits
<1>3. ASSUME NEW outcome, Finish(i, outcome)
      PROVE  operations'[i].table = s.at /\ operations'[i].state = outcome
  <2>1. \E h \in Gateway : pass[h].op = i
    BY Zenon
  <2>2. operations'[i] = [operations[i] EXCEPT !.state = outcome]
    BY <1>0, <1>3, <2>1, Zenon DEF Finish
  <2>3. ASSUME NEW o \in Operation
        PROVE  /\ [o EXCEPT !.state = outcome].table = o.table
               /\ [o EXCEPT !.state = outcome].state = outcome
    BY Zenon DEF Operation
  <2>4. operations[i] \in Operation
    BY <1>0, Zenon
  <2> QED
    BY <1>1, <2>2, <2>3, <2>4, Zenon
<1>4. CASE Execute(i)
  <2>1. operations'[i].table = s.at /\ operations'[i].state = "done"
    BY <1>3, <1>4, Zenon DEF Execute
  <2>2. table'[s.at] = operations[i].routes /\ Claims(operations[i].routes)
    BY <1>0, <1>1, <1>4, Zenon DEF Execute, WriterInv, ClaimsInFlight
  <2> QED
    BY <2>1, <2>2, Zenon DEF Waits
<1>5. CASE Reject(i)
  <2>1. operations'[i].table = s.at /\ operations'[i].state = "failed"
    BY <1>3, <1>5, Zenon DEF Reject
  <2> QED
    BY <2>1, Zenon DEF Waits
<1>6. ASSUME NEW h \in Gateway, Step(h) \/ Crash(h) PROVE operations'[i] = operations[i]
  <2>1. h \in DryRun
    BY <1>6, Zenon DEF OneWriter
  <2>2. Step(h) => UNCHANGED operations
    BY <2>1, StepDry, Zenon DEF WriterInv
  <2>3. pass[h].op # i
    <3>1. pass[h].op = 0
      BY <2>1, Zenon DEF WriterInv, DryInv
    <3>2. i # 0
      BY <1>0, YandexAssumption DEF OperationId, YandexAssumption
    <3> QED
      BY <3>1, <3>2, Zenon
  <2>4. Crash(h) => operations'[i] = operations[i]
    BY <1>0, <2>3, Zenon DEF Crash, WithoutWaiter
  <2> QED
    BY <1>6, <2>2, <2>4, Zenon
<1>7. ASSUME NEW j \in OperationId, j # i, Execute(j) \/ Reject(j)
      PROVE  operations'[i] = operations[i]
  BY <1>0, <1>7, Zenon DEF Execute, Reject, Finish
<1>8. ASSUME NEW h \in Gateway, Expire(h) PROVE operations'[i] = operations[i]
  BY <1>8, Zenon DEF Expire
<1>9. ASSUME NEW t \in Table, NEW p \in Prefix, OperatorEdit(t, p)
      PROVE  operations'[i] = operations[i]
  BY <1>9, Zenon DEF OperatorEdit
<1> QED
  BY <1>2, <1>4, <1>5, <1>6, <1>7, <1>8, <1>9, Zenon DEF Next, Environment

(* GET: nothing to change means that the table is right as it is. *)
LEMMA GetWorks ==
  ASSUME OneWriter, SInv, NEW g \in Gateway \ DryRun, GetTable(g),
         Works(g, pass[g], operations, table)
  PROVE  Works(g, pass'[g], operations, table)
<1> DEFINE s == pass[g]
           changes == ChangesOf(s.at, s.list, table[s.at], AddressOf[g])
           all == s.changes \cup changes
           read == [s EXCEPT !.changes = all]
           mutated == \E c \in changes : c.action # "noop"
           desired == Desired(s.list, table[s.at], AddressOf[g])
           n == [read EXCEPT !.pc = "patch", !.desired = desired]
<1>1. /\ s \in Pass /\ pass \in [Gateway -> Pass] /\ Sound(g, s) /\ s.pc = "get"
      /\ s.at \in Table /\ s.list = UNION Lists[g] /\ s.list \subseteq Prefix
  BY Zenon DEF SInv, TypeOK, Sound, GetTable, Works, Pass
<1>2. \/ mutated /\ pass'[g] = n
      \/ ~mutated /\ pass'[g] = NextTable(read)
  BY <1>1, Zenon DEF GetTable
<1>3. all \in SUBSET Change
  BY <1>1, ChangesType, Zenon DEF Pass
<1>4. Claims(desired)
  <2>1. \A p \in UNION Lists[g] : desired[p] = AddressOf[g]
    BY <1>1, Zenon DEF Desired
  <2> QED
    BY <2>1, WritersClaims, Zenon
<1>5. ~mutated => Claims(table[s.at])
  <2> SUFFICES ASSUME ~mutated, NEW p \in UNION Lists[g]
               PROVE  table[s.at][p] = AddressOf[g]
    BY WritersClaims, Zenon
  <2> DEFINE c == [table |-> s.at, prefix |-> p,
                   action |-> Action(table[s.at][p], AddressOf[g])]
  <2>1. c \in changes
    BY <1>1, Zenon DEF ChangesOf
  <2>2. Action(table[s.at][p], AddressOf[g]) = "noop"
    BY <2>1, Zenon
  <2> QED
    BY <2>2, Zenon DEF Action
<1> HIDE DEF mutated, all, desired
<1>6. /\ read \in Pass /\ read.pc = s.pc /\ read.at = s.at /\ read.op = s.op
      /\ read.list = s.list /\ read.failed = s.failed
  BY <1>1, <1>3, Zenon DEF Pass
<1> HIDE DEF read
<1>7. CASE mutated
  <2>1. /\ n.pc = "patch" /\ n.desired = desired /\ n.at = s.at
        /\ n.list = s.list /\ n.failed = s.failed
    BY <1>6, Zenon DEF Pass
  <2> HIDE DEF n
  <2>2. Works(g, n, operations, table)
    BY <1>1, <1>4, <2>1, Zenon DEF Works
  <2> QED
    BY <1>2, <1>7, <2>2, Zenon
<1>8. CASE ~mutated
  <2>1. Sound(g, read)
    BY <1>1, <1>6, Zenon DEF Sound
  <2>2. Works(g, read, operations, table)
    BY <1>1, <1>6, Zenon DEF Works
  <2>3. Works(g, NextTable(read), operations, table)
    BY <1>1, <1>5, <1>6, <1>8, <2>1, <2>2, NextTableWorks, Zenon
  <2> QED
    BY <1>2, <1>8, <2>3, Zenon
<1> QED
  BY <1>7, <1>8

LEMMA StepWorks ==
  ASSUME OneWriter, FixedList, SInv, WriterInv, NEW g \in Gateway \ DryRun, Step(g)
  PROVE  Works(g, pass'[g], operations', table')
<1> DEFINE s == pass[g]
<1>0. /\ s \in Pass /\ pass \in [Gateway -> Pass] /\ Sound(g, s)
      /\ Works(g, s, operations, table) /\ operations \in [OperationId -> Operation]
  BY Zenon DEF SInv, TypeOK, WriterInv
<1>1. CASE StartPass(g)
  <2>1. PICK list \in Lists[g] : pass'[g] = [Idle EXCEPT !.pc = "get", !.list = list]
    BY <1>0, <1>1, Zenon DEF StartPass
  <2>2. /\ pass'[g].pc = "get" /\ pass'[g].list = UNION Lists[g] /\ pass'[g].at = 1
    BY <2>1, Zenon DEF Idle, FixedList
  <2>3. \A t \in Table : ~(t < 1)
    BY YandexAssumption DEF YandexAssumption, Table
  <2> QED
    BY <2>2, <2>3, Zenon DEF Works
<1>2. CASE GetTable(g)
  BY <1>0, <1>2, GetWorks, Zenon DEF GetTable
<1>3. CASE GetFails(g) \/ PatchFails(g) \/ PollRejected(g) \/ PollFails(g)
  <2>1. pass'[g] = NextTable(Fail(s)) /\ s.pc \in {"get", "patch", "wait"}
    BY <1>0, <1>3, Zenon DEF GetFails, PatchFails, PollRejected, PollFails
  <2> QED
    BY <1>0, <2>1, FailWorks
<1>4. ASSUME NEW i \in OperationId, PatchAccepted(g, i)
      PROVE  Works(g, pass'[g], operations', table')
  <2> DEFINE n == [s EXCEPT !.pc = "wait", !.op = i]
  <2>1. /\ pass'[g] = n /\ s.pc = "patch" /\ UNCHANGED table
        /\ operations'[i].table = s.at /\ operations'[i].state = "running"
    BY <1>0, <1>4, Zenon DEF PatchAccepted, Accept
  <2>2. /\ n.pc = "wait" /\ n.at = s.at /\ n.op = i /\ n.list = s.list
        /\ n.failed = s.failed
    BY <1>0, Zenon DEF Pass
  <2> HIDE DEF n
  <2>3. Waits(n, operations', table')
    BY <2>1, <2>2, Zenon DEF Waits
  <2> QED
    BY <1>0, <2>1, <2>2, <2>3, Zenon DEF Works
<1>5. ASSUME NEW i \in OperationId, PatchAnswerLost(g, i)
      PROVE  Works(g, pass'[g], operations', table')
  <2>1. PICK cut \in BOOLEAN : pass'[g] = NextTable(Fail([s EXCEPT !.expired = cut]))
    BY <1>0, <1>5, Zenon DEF PatchAnswerLost
  <2>2. s.pc = "patch"
    BY <1>5, Zenon DEF PatchAnswerLost, Accept
  <2> DEFINE n == [s EXCEPT !.expired = cut]
  <2>3. /\ n \in Pass /\ n.pc = s.pc /\ n.at = s.at /\ n.op = s.op
        /\ n.list = s.list /\ n.failed = s.failed /\ n.desired = s.desired
    BY <1>0, Zenon DEF Pass
  <2> HIDE DEF n
  <2>4. Sound(g, n) /\ Works(g, n, operations, table)
    BY <1>0, <2>2, <2>3, Zenon DEF Sound, Works
  <2>5. Works(g, NextTable(Fail(n)), operations', table')
    BY <2>2, <2>3, <2>4, FailWorks, Zenon
  <2> QED
    BY <2>1, <2>5, Zenon DEF n
<1>6. CASE PollDone(g)
  <2> DEFINE m == s.made \cup {s.at}
             n == [s EXCEPT !.made = m]
  <2>1. /\ s.pc = "wait" /\ s.at \in Table /\ pass'[g] = NextTable(n)
        /\ operations[s.op].state = "done" /\ UNCHANGED table
    BY <1>0, <1>6, Zenon DEF PollDone, Sound
  <2>2. Claims(table[s.at])
    BY <1>0, <2>1, Zenon DEF Works, Waits
  <2>3. m \in SUBSET Table
    BY <1>0, <2>1, Zenon DEF Pass
  <2> HIDE DEF m
  <2>4. /\ n \in Pass /\ n.pc = s.pc /\ n.at = s.at /\ n.op = s.op
        /\ n.list = s.list /\ n.failed = s.failed
    BY <1>0, <2>3, Zenon DEF Pass
  <2> HIDE DEF n
  <2>5. Sound(g, n) /\ Works(g, n, operations, table)
    BY <1>0, <2>1, <2>4, Zenon DEF Sound, Works, Waits
  <2>6. Works(g, NextTable(n), operations, table)
    BY <2>1, <2>2, <2>4, <2>5, NextTableWorks, Zenon
  <2>7. NextTable(n).pc # "wait"
    BY <2>4, DryNextTable, Zenon
  <2> QED
    BY <2>1, <2>6, <2>7, Zenon DEF Works
<1>7. CASE EndPass(g)
  BY <1>0, <1>7, IdleWorks, Zenon DEF EndPass
<1> QED
  BY <1>1, <1>2, <1>3, <1>4, <1>5, <1>6, <1>7, Zenon DEF Step

(* A step of the API, of another gateway or of the surroundings. *)
LEMMA OtherWorks ==
  ASSUME OneWriter, NotEdited, SInv, WriterInv, Next,
         NEW g \in Gateway \ DryRun, ~Step(g)
  PROVE  Works(g, pass'[g], operations', table')
<1> DEFINE s == pass[g]
           n == [s EXCEPT !.expired = TRUE]
<1>0. /\ s \in Pass /\ pass \in [Gateway -> Pass] /\ Works(g, s, operations, table)
  BY Zenon DEF SInv, TypeOK, WriterInv
<1>1. CASE Crash(g)
  BY <1>0, <1>1, IdleWorks, Zenon DEF Crash
<1>2. CASE ~Crash(g)
  <2>1. s.pc = "wait" => Waits(s, operations', table')
    BY <1>2, OperationKept, Zenon
  <2>2. \A t \in Table : Claims(table[t]) => Claims(table'[t])
    BY ClaimsStay, Zenon
  <2>3. Works(g, s, operations', table')
    BY <1>0, <2>1, <2>2, Zenon DEF Works
  <2>4. /\ n.pc = s.pc /\ n.at = s.at /\ n.op = s.op /\ n.list = s.list
        /\ n.failed = s.failed /\ n.desired = s.desired
    BY <1>0, Zenon DEF Pass
  <2>5. pass'[g] = s \/ pass'[g] = n
    <3>1. ASSUME NEW h \in Gateway, Step(h) PROVE pass'[g] = s
      <4>1. h # g
        BY <3>1, Zenon
      <4> QED
        BY <1>0, <3>1, <4>1, Zenon DEF Step, StartPass, GetTable, GetFails,
           PatchAccepted, PatchAnswerLost, PatchFails, PollDone, PollRejected,
           PollFails, EndPass
    <3>2. ASSUME NEW h \in Gateway, Expire(h) PROVE pass'[g] = s \/ pass'[g] = n
      BY <1>0, <3>2, Zenon DEF Expire
    <3>3. ASSUME NEW h \in Gateway, Crash(h) PROVE pass'[g] = s
      BY <1>0, <1>2, <3>3, Zenon DEF Crash
    <3>4. UNCHANGED pass => pass'[g] = s
      BY Zenon
    <3> QED
      BY <3>1, <3>2, <3>3, <3>4, Zenon DEF Next, Environment, Execute, Reject,
         OperatorEdit
  <2> HIDE DEF n
  <2>6. Works(g, n, operations', table')
    BY <2>3, <2>4, Zenon DEF Works, Waits
  <2> QED
    BY <2>3, <2>5, <2>6, Zenon
<1> QED
  BY <1>1, <1>2

LEMMA InitWriterInv == Init => WriterInv
<1> SUFFICES ASSUME Init PROVE WriterInv
  OBVIOUS
<1>1. Idle.pc = "idle" /\ Idle.op = 0 /\ FreeOperation.state = "free"
  BY Zenon DEF Idle, FreeOperation
<1>2. DryInv
  <2>1. \A g \in DryRun : pass[g] = Idle
    BY YandexAssumption, Zenon DEF Init, YandexAssumption
  <2> QED
    BY <1>1, <2>1, Zenon DEF DryInv
<1>3. ClaimsInFlight
  <2>1. \A i \in OperationId : operations[i] = FreeOperation
    BY Zenon DEF Init
  <2> QED
    BY <1>1, <2>1, Zenon DEF ClaimsInFlight
<1>4. \A g \in Gateway \ DryRun : Works(g, pass[g], operations, table)
  <2>1. \A g \in Gateway : pass[g] = Idle
    BY Zenon DEF Init
  <2> QED
    BY <2>1, IdleWorks, Zenon
<1> QED
  BY <1>2, <1>3, <1>4, Zenon DEF WriterInv

LEMMA NextWriterInv ==
  ASSUME OneWriter, FixedList, NotEdited
  PROVE  SInv /\ WriterInv /\ [Next]_vars => WriterInv'
<1> SUFFICES ASSUME SInv, WriterInv, [Next]_vars PROVE WriterInv'
  OBVIOUS
<1>1. CASE UNCHANGED vars
  BY <1>1, Zenon DEF vars, WriterInv, DryInv, ClaimsInFlight
<1>2. CASE Next
  <2>1. DryInv'
    BY NextDryInv, Zenon DEF WriterInv
  <2>2. ClaimsInFlight'
    BY <1>2, FlightClaims, Zenon
  <2>3. ASSUME NEW g \in Gateway \ DryRun PROVE Works(g, pass'[g], operations', table')
    BY <1>2, StepWorks, OtherWorks, Zenon
  <2> QED
    BY <2>1, <2>2, <2>3, Zenon DEF WriterInv
<1> QED
  BY <1>1, <1>2

LEMMA WriterAlways ==
  ASSUME OneWriter, FixedList, NotEdited
  PROVE  Spec => [](SInv /\ WriterInv)
  BY InitSInv, NextSInv, InitWriterInv, NextWriterInv, PTL DEF Spec

LEMMA WorksRouted == WriterInv => RoutedWhenSuccessful
<1> SUFFICES ASSUME WriterInv, NEW g \in Gateway \ DryRun,
                    pass[g].pc = "report", ~pass[g].failed,
                    NEW t \in Table, NEW p \in pass[g].list
             PROVE  table[t][p] = AddressOf[g]
  BY Zenon DEF RoutedWhenSuccessful
<1>1. /\ pass[g].list = UNION Lists[g] /\ pass[g].at = NumTables + 1
      /\ \A u \in Table : u < pass[g].at => Claims(table[u])
  BY Zenon DEF WriterInv, Works
<1>2. t < pass[g].at
  BY <1>1, YandexAssumption DEF YandexAssumption, Table
<1> QED
  BY <1>1, <1>2, Zenon DEF Claims

(***************************************************************************)
(* For one writing instance with a fixed list that nobody edits: a pass of *)
(* Sync that reports no error has left every prefix of its list at its     *)
(* next hop in every table, even if updates of earlier passes, whose       *)
(* answers were lost or that nobody waited for, are executed only now.     *)
(***************************************************************************)
THEOREM SuccessMeansRouted ==
  ASSUME OneWriter, FixedList, NotEdited
  PROVE  Spec => []RoutedWhenSuccessful
  BY WriterAlways, WorksRouted, PTL

-----------------------------------------------------------------------------
(***************************************************************************)
(* Implementation of RouteTables. Whatever an operation in flight is going *)
(* to write is the table as it is by then, with the writer's claims.       *)
(***************************************************************************)
LEMMA ExecuteClaims ==
  ASSUME OneWriter, Edited = {}, SInv, UInv, WriterInv,
         NEW i \in OperationId, Execute(i)
  PROVE  Promise!Next \/ UNCHANGED table
<1> DEFINE o == operations[i]
           t == o.table
<1>1. /\ table \in [Table -> StaticRoutes] /\ t \in Table /\ o.routes \in StaticRoutes
      /\ table' = [table EXCEPT ![t] = o.routes]
      /\ Claims(o.routes) /\ Agrees(o.routes, t)
  BY Zenon DEF SInv, TypeOK, Operation, Execute, WriterInv, ClaimsInFlight, UInv
<1> HIDE DEF t
<1>2. \A p \in Prefix \ Managed : o.routes[p] = table[t][p]
  BY <1>1 DEF Agrees, Unmanaged
<1>3. CASE Gateway \ DryRun = {}
  <2>1. Managed = {}
    BY <1>3 DEF Managed, Claimable
  <2>2. o.routes = table[t]
    BY <1>1, <1>2, <2>1 DEF StaticRoutes
  <2> QED
    BY <1>1, <2>2
<1>4. ASSUME NEW g \in Gateway \ DryRun PROVE Promise!Next
  <2>1. Managed = Claimable(g) /\ Claimable(g) = UNION Lists[g]
    BY <1>4 DEF Managed, Claimable, OneWriter
  <2>2. \A p \in Managed : o.routes[p] = AddressOf[g]
    BY <1>1, <2>1, Zenon DEF Claims
  <2> DEFINE f == [p \in Prefix |-> IF p \in Managed THEN AddressOf[g] ELSE table[t][p]]
  <2>3. o.routes = f
    BY <1>1, <1>2, <2>2 DEF StaticRoutes
  <2>4. table' = [table EXCEPT ![t] = f]
    BY <1>1, <2>3
  <2>5. Promise!Claim(g, t)
    BY <2>1, <2>4 DEF Promise!Claim
  <2> QED
    BY <1>1, <2>5 DEF Promise!Next
<1> QED
  BY <1>3, <1>4

LEMMA StepImplements ==
  ASSUME OneWriter, Edited = {}
  PROVE  SInv /\ UInv /\ WriterInv /\ [Next]_vars => [Promise!Next]_table
<1> SUFFICES ASSUME SInv, UInv, WriterInv, [Next]_vars
             PROVE  Promise!Next \/ UNCHANGED table
  OBVIOUS
<1>1. ASSUME NEW g \in Gateway, Step(g) PROVE UNCHANGED table
  BY <1>1, Zenon DEF Step, StartPass, GetTable, GetFails, PatchAccepted,
     PatchAnswerLost, PatchFails, PollDone, PollRejected, PollFails, EndPass
<1>2. ASSUME NEW i \in OperationId, Execute(i) PROVE Promise!Next \/ UNCHANGED table
  BY <1>2, ExecuteClaims
<1>3. CASE Environment
  BY <1>3, Zenon DEF Environment, Reject, Expire, Crash, OperatorEdit
<1>4. CASE UNCHANGED vars
  BY <1>4, Zenon DEF vars
<1> QED
  BY <1>1, <1>2, <1>3, <1>4, Zenon DEF Next

LEMMA InitImplements == Init => Promise!Init
<1> SUFFICES ASSUME Init PROVE Promise!Init
  OBVIOUS
<1> DEFINE own == [g \in Gateway |-> {AddressOf[g]}]
           others == Target \ {AddressOf[g] : g \in Gateway}
<1>1. table \in [Table -> [Prefix -> Target \cup {None}]]
  BY YandexAssumption DEF Init, YandexAssumption, StaticRoutes
<1>2. Target \subseteq others \cup UNION {own[g] : g \in Gateway}
  OBVIOUS
<1> QED
  BY <1>1, <1>2 DEF Promise!Init, Promise!Target

(***************************************************************************)
(* For one writing instance with a fixed list whose tables nobody edits,   *)
(* any number of instances under dry-run beside it: the route tables       *)
(* change only as RouteTables lets them, although every update replaces a  *)
(* whole table (updateTable) and may be executed at any later time.        *)
(***************************************************************************)
THEOREM KeepsPromise ==
  ASSUME OneWriter, FixedList, Edited = {}
  PROVE  Spec => ImplementsPromise
<1>1. NotEdited
  BY DEF NotEdited
<1>2. Spec => [](SInv /\ WriterInv)
  BY <1>1, WriterAlways
<1>3. Spec => []UInv
  BY InitSInv, NextSInv, InitUInv, NextUInv, PTL DEF Spec
<1>4. SInv /\ UInv /\ WriterInv /\ [Next]_vars => [Promise!Next]_table
  BY StepImplements
<1>5. Spec => [][Promise!Next]_table
  BY <1>2, <1>3, <1>4, PTL DEF Spec
<1>6. Spec => Promise!Init
  BY InitImplements, PTL DEF Spec
<1> QED
  BY <1>5, <1>6, Zenon DEF ImplementsPromise, Promise!Spec

=============================================================================
