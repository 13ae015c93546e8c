-------------------------- MODULE AwsManagerProofs --------------------------
(***************************************************************************)
(* Proofs about AwsManager, for any number of gateways, tables, prefixes   *)
(* and disturbances.                                                       *)
(***************************************************************************)
EXTENDS AwsManager, TLAPS

(***************************************************************************)
(* What g's pass s and interface e are, apart from their types: the        *)
(* interface is one of g's own and known before a table is read, the       *)
(* tables are taken one after the other, and what is left to do of a table *)
(* is on a list of g.                                                      *)
(***************************************************************************)
Sound(g, s, e) ==
  /\ s \in Pass
  /\ e \in Owned(g) \cup {None}
  /\ s.pc = "resolve" => s.hop \in AddrsOf[g]
  /\ s.pc \in {"describe", "apply"} => s.at \in Table /\ e # None
  /\ s.pc = "resolve" => s.at = 1
  /\ s.list \subseteq UNION Lists[g]
  /\ s.todo \subseteq s.list

LEMMA IdleSound == \A g \in Gateway : \A e \in Owned(g) \cup {None} : Sound(g, Idle, e)
<1>1. NothingRead \in TableContent
  BY DEF NothingRead, TableContent
<1>2. 1 \in 1 .. NumTables + 1
  BY AwsAssumption DEF AwsAssumption
<1>3. Idle \in Pass
  BY <1>1, <1>2, Zenon DEF Idle, Pass
<1> QED
  BY <1>3, Zenon DEF Sound, Idle

LEMMA FailSound ==
  ASSUME NEW g, NEW s, NEW e, Sound(g, s, e)
  PROVE  Sound(g, Fail(s), e) /\ Fail(s).pc = s.pc /\ Fail(s).at = s.at
<1>1. Fail(s) \in Pass
  BY Zenon DEF Sound, Fail, Pass
<1>2. /\ Fail(s).pc = s.pc /\ Fail(s).at = s.at /\ Fail(s).hop = s.hop
      /\ Fail(s).list = s.list /\ Fail(s).todo = s.todo
  BY Zenon DEF Sound, Fail, Pass
<1> QED
  BY <1>1, <1>2, Zenon DEF Sound

LEMMA NextTableSound ==
  ASSUME NEW g, NEW s, NEW e, Sound(g, s, e), s.pc \in {"describe", "apply"}
  PROVE  Sound(g, NextTable(s), e)
<1>1. NothingRead \in TableContent
  BY DEF NothingRead, TableContent
<1> DEFINE n == NextTable(s)
<1>2. /\ s.at \in Table /\ s \in Pass /\ e # None
      /\ e \in Owned(g) \cup {None}
      /\ s.list \subseteq UNION Lists[g]
  BY Zenon DEF Sound
<1>3. s.at + 1 \in 1 .. NumTables + 1 /\ (s.at # NumTables => s.at + 1 \in Table)
  BY <1>2, AwsAssumption DEF AwsAssumption, Table
<1>4. n \in Pass
  BY <1>1, <1>2, <1>3, Zenon DEF NextTable, Pass
<1>5. /\ n.pc = (IF s.at = NumTables THEN "report" ELSE "describe")
      /\ n.at = s.at + 1 /\ n.list = s.list /\ n.todo = {}
  BY <1>2, Zenon DEF NextTable, Pass
<1> QED
  BY <1>2, <1>3, <1>4, <1>5, Zenon DEF Sound

LEMMA ReportSound ==
  ASSUME NEW g, NEW s, NEW e, Sound(g, s, e), s.pc = "apply",
         NEW p \in Prefix, NEW action \in {"noop", "create", "replace"}
  PROVE  Sound(g, Report(s, p, action), e) /\ Report(s, p, action).pc = "apply"
<1> DEFINE c == [table |-> s.at, prefix |-> p, action |-> action]
           n == Report(s, p, action)
<1>1. s.at \in Table /\ s \in Pass
  BY Zenon DEF Sound
<1>2. c \in Change
  BY <1>1, Zenon DEF Change
<1>3. s.changes \cup {c} \in SUBSET Change
  BY <1>1, <1>2, Zenon DEF Pass
<1>4. n = [s EXCEPT !.changes = s.changes \cup {c}]
  BY Zenon DEF Report
<1> HIDE DEF c
<1>5. n \in Pass /\ n.pc = s.pc /\ n.at = s.at /\ n.list = s.list /\ n.todo = s.todo
  BY <1>1, <1>3, <1>4, Zenon DEF Pass
<1> QED
  BY <1>1, <1>5, Zenon DEF Sound

LEMMA MadeSound ==
  ASSUME NEW g, NEW s, NEW e, Sound(g, s, e), s.pc = "apply", NEW p \in Prefix
  PROVE  Sound(g, Made(s, p), e) /\ Made(s, p).pc = "apply"
<1> DEFINE n == Made(s, p)
<1>1. s.at \in Table /\ s \in Pass
  BY Zenon DEF Sound
<1> DEFINE m == s.made \cup {<<s.at, p>>}
<1>2. m \in SUBSET (Table \X Prefix)
  <2>1. s.made \in SUBSET (Table \X Prefix)
    BY <1>1, Zenon DEF Pass
  <2>2. <<s.at, p>> \in Table \X Prefix
    BY <1>1
  <2> QED
    BY <2>1, <2>2
<1>3. n = [s EXCEPT !.made = m]
  BY Zenon DEF Made
<1> HIDE DEF m
<1>4. n \in Pass /\ n.pc = s.pc /\ n.at = s.at /\ n.list = s.list /\ n.todo = s.todo
  BY <1>1, <1>2, <1>3, Zenon DEF Pass
<1> QED
  BY <1>1, <1>4, Zenon DEF Sound

LEMMA NextPrefixSound ==
  ASSUME NEW g, NEW s, NEW e, Sound(g, s, e), s.pc = "apply", NEW p
  PROVE  Sound(g, NextPrefix(s, p), e)
<1>1. CASE s.todo = {p}
  BY <1>1, NextTableSound, Zenon DEF NextPrefix
<1>2. CASE s.todo # {p}
  <2> DEFINE n == [s EXCEPT !.todo = s.todo \ {p}]
  <2>1. s.todo \ {p} \in SUBSET Prefix /\ s \in Pass
    BY Zenon DEF Sound, Pass
  <2>2. n \in Pass /\ n.pc = s.pc /\ n.at = s.at /\ n.list = s.list
        /\ n.todo = s.todo \ {p}
    BY <2>1, Zenon DEF Pass
  <2>3. Sound(g, n, e)
    BY <2>2, Zenon DEF Sound
  <2> QED
    BY <1>2, <2>3, Zenon DEF NextPrefix
<1> QED
  BY <1>1, <1>2

LEMMA PlanAction == \A r, e : Plan(r, e) \in {"noop", "create", "replace"}
  BY Zenon DEF Plan

-----------------------------------------------------------------------------
(***************************************************************************)
(* The inductive invariant: the types, and every gateway works with an     *)
(* address and an interface of its own, in order, on prefixes of its list. *)
(***************************************************************************)
IInv ==
  /\ TypeOK
  /\ \A g \in Gateway : addr[g] \in AddrsOf[g] /\ Sound(g, pass[g], eni[g])

LEMMA OwnedType == \A g \in Gateway : Owned(g) \subseteq Eni
  BY AwsAssumption DEF AwsAssumption, Owned

LEMMA PassStep ==
  ASSUME IInv, NEW g \in Gateway, NEW s, NEW e,
         Sound(g, s, e), pass' = [pass EXCEPT ![g] = s],
         eni' = [eni EXCEPT ![g] = e], addr' = addr,
         table' \in [Table -> TableContent], budget' \in 0 .. MaxDisturbances
  PROVE  IInv'
<1>1. s \in Pass /\ e \in Eni \cup {None}
  BY OwnedType, Zenon DEF Sound
<1>2. ASSUME NEW h \in Gateway
      PROVE  addr'[h] \in AddrsOf[h] /\ Sound(h, pass'[h], eni'[h])
  <2>1. CASE h = g
    BY <2>1, Zenon DEF IInv, TypeOK
  <2>2. CASE h # g
    <3>1. pass'[h] = pass[h] /\ eni'[h] = eni[h]
      BY <2>2, Zenon DEF IInv, TypeOK
    <3> QED
      BY <3>1, Zenon DEF IInv
  <2> QED
    BY <2>1, <2>2
<1>3. \A h \in Gateway : pass'[h].pc \in {"describe", "apply"} => pass'[h].at \in Table
  BY <1>2, Zenon DEF Sound
<1>4. TypeOK'
  BY <1>1, <1>3, Zenon DEF IInv, TypeOK
<1> QED
  BY <1>2, <1>4, Zenon DEF IInv

LEMMA PassOnlyStep ==
  ASSUME IInv, NEW g \in Gateway, NEW s,
         Sound(g, s, eni[g]), pass' = [pass EXCEPT ![g] = s],
         eni' = eni, addr' = addr,
         table' \in [Table -> TableContent], budget' \in 0 .. MaxDisturbances
  PROVE  IInv'
<1>1. eni' = [eni EXCEPT ![g] = eni[g]]
  BY Zenon DEF IInv, TypeOK
<1> QED
  BY <1>1, PassStep, Zenon

LEMMA BudgetStep ==
  ASSUME IInv
  PROVE  /\ \A kind : Disturb(kind) => budget' \in 0 .. MaxDisturbances
         /\ \A g : CallError(g) => budget' \in 0 .. MaxDisturbances
         /\ UNCHANGED budget => budget' \in 0 .. MaxDisturbances
<1>1. budget \in 0 .. MaxDisturbances
  BY Zenon DEF IInv, TypeOK
<1>2. ASSUME NEW kind, Disturb(kind) PROVE budget' \in 0 .. MaxDisturbances
  BY <1>1, <1>2, AwsAssumption DEF Disturb, AwsAssumption
<1> QED
  BY <1>1, <1>2, Zenon DEF CallError

LEMMA WriteType ==
  ASSUME IInv, NEW t \in Table, NEW p \in Prefix, NEW r \in Route \cup {None}
  PROVE  [table EXCEPT ![t][p] = r] \in [Table -> TableContent]
<1>1. table \in [Table -> TableContent]
  BY Zenon DEF IInv, TypeOK
<1>2. [table[t] EXCEPT ![p] = r] \in TableContent
  BY <1>1 DEF TableContent
<1> QED
  BY <1>1, <1>2

LEMMA InitIInv == Init => IInv
<1> SUFFICES ASSUME Init PROVE IInv
  OBVIOUS
<1>1. ASSUME NEW g \in Gateway
      PROVE  pass[g] \in Pass /\ addr[g] \in AddrsOf[g] /\ Sound(g, pass[g], eni[g])
  <2>1. pass[g] = Idle /\ eni[g] = None /\ addr[g] \in AddrsOf[g]
    BY <1>1, Zenon DEF Init
  <2> QED
    BY <1>1, <2>1, IdleSound, Zenon DEF Sound
<1>2. budget \in 0 .. MaxDisturbances
  BY AwsAssumption DEF Init, AwsAssumption
<1>3. table \in [Table -> TableContent]
  BY AwsAssumption DEF Init, AwsAssumption
<1>4. pass \in [Gateway -> Pass]
  BY <1>1, Zenon DEF Init
<1>5. \A g \in Gateway : pass[g].pc \in {"describe", "apply"} => pass[g].at \in Table
  BY <1>1, Zenon DEF Sound
<1> QED
  BY <1>1, <1>2, <1>3, <1>4, <1>5, Zenon DEF Init, IInv, TypeOK

(* The steps of a pass that leave the tables alone. *)
LEMMA QuietStepIInv ==
  ASSUME IInv, NEW g \in Gateway,
         \/ StartPass(g) \/ ResolveCached(g) \/ ResolveLookup(g) \/ ResolveFails(g)
         \/ Describe(g) \/ DescribeFails(g) \/ EndPass(g)
  PROVE  IInv'
<1> DEFINE s == pass[g]
           e == eni[g]
<1>0. /\ Sound(g, s, e) /\ s \in Pass /\ addr[g] \in AddrsOf[g] /\ addr[g] \in Addr
      /\ table \in [Table -> TableContent]
      /\ e \in Owned(g) \cup {None} /\ s.list \subseteq UNION Lists[g]
      /\ s.todo \subseteq s.list
  BY Zenon DEF IInv, TypeOK, Sound
<1>1. CASE StartPass(g)
  <2>1. PICK list \in Lists[g] :
          pass' = [pass EXCEPT ![g] = [Idle EXCEPT !.pc = "resolve", !.list = list,
                                                   !.hop = addr[g]]]
    BY <1>1, Zenon DEF StartPass
  <2> DEFINE n == [Idle EXCEPT !.pc = "resolve", !.list = list, !.hop = addr[g]]
  <2>2. Idle \in Pass /\ Idle.at = 1 /\ Idle.todo = {}
    BY <1>0, IdleSound, Zenon DEF Sound, Idle
  <2>3. list \in SUBSET Prefix /\ list \subseteq UNION Lists[g]
    BY AwsAssumption DEF AwsAssumption
  <2>4. n \in Pass
    BY <1>0, <2>2, <2>3, Zenon DEF Pass
  <2>5. /\ n.pc = "resolve" /\ n.hop = addr[g] /\ n.at = 1
        /\ n.list = list /\ n.todo = {}
    BY <2>2, Zenon DEF Idle
  <2>6. Sound(g, n, e)
    BY <1>0, <2>3, <2>4, <2>5, Zenon DEF Sound
  <2> QED
    BY <1>0, <1>1, <2>1, <2>6, BudgetStep, PassOnlyStep, Zenon DEF StartPass
<1>2. ASSUME s.pc = "resolve", NEW f, f \in Owned(g) \cup {None}, f # None
      PROVE  Sound(g, [s EXCEPT !.pc = "describe"], f)
  <2> DEFINE n == [s EXCEPT !.pc = "describe"]
  <2>1. n \in Pass /\ n.pc = "describe" /\ n.at = s.at /\ n.list = s.list /\ n.todo = s.todo
    BY <1>0, Zenon DEF Pass
  <2>2. s.at \in Table
    <3>1. s.at = 1
      BY <1>0, <1>2, Zenon DEF Sound
    <3> QED
      BY <3>1, AwsAssumption DEF AwsAssumption, Table
  <2> QED
    BY <1>0, <1>2, <2>1, <2>2, Zenon DEF Sound
<1>3. CASE ResolveCached(g)
  BY <1>0, <1>2, <1>3, BudgetStep, PassOnlyStep, Zenon DEF ResolveCached
<1>4. CASE ResolveLookup(g)
  <2>1. s.hop \in AddrsOf[g]
    BY <1>0, <1>4, Zenon DEF Sound, ResolveLookup
  <2>2. EniOf[s.hop] \in Owned(g) /\ EniOf[s.hop] # None
    BY <2>1, OwnedType, AwsAssumption DEF Owned, AwsAssumption
  <2>3. Sound(g, [s EXCEPT !.pc = "describe"], EniOf[s.hop])
    BY <1>2, <1>4, <2>2, Zenon DEF ResolveLookup
  <2> QED
    BY <1>0, <1>4, <2>3, BudgetStep, PassStep, Zenon DEF ResolveLookup
<1>5. CASE ResolveFails(g)
  <2> DEFINE n == [Fail(s) EXCEPT !.pc = "report"]
  <2>1. Sound(g, Fail(s), e)
    BY <1>0, FailSound, Zenon
  <2>2. /\ n \in Pass /\ n.pc = "report"
        /\ n.list = Fail(s).list /\ n.todo = Fail(s).todo
    BY <2>1, Zenon DEF Sound, Pass
  <2>3. Sound(g, n, e)
    BY <2>1, <2>2, Zenon DEF Sound
  <2> QED
    BY <1>0, <1>5, <2>3, BudgetStep, PassOnlyStep, Zenon DEF ResolveFails
<1>6. CASE Describe(g)
  <2> DEFINE n == [s EXCEPT !.pc = "apply", !.existing = table[s.at],
                            !.todo = ToSync(s.list, table[s.at])]
  <2>1. s.at \in Table /\ e # None
    BY <1>0, <1>6, Zenon DEF Sound, Describe
  <2>2. table[s.at] \in TableContent /\ s.list \in SUBSET Prefix
    BY <1>0, <2>1, Zenon DEF Pass
  <2>3. n \in Pass
    BY <1>0, <2>2, Zenon DEF Pass, ToSync
  <2>4. n.pc = "apply" /\ n.at = s.at /\ n.list = s.list /\ n.todo = s.list
    BY <1>0, Zenon DEF Pass, ToSync
  <2>5. Sound(g, n, e)
    BY <1>0, <2>1, <2>3, <2>4, Zenon DEF Sound
  <2> QED
    BY <1>0, <1>6, <2>5, BudgetStep, PassOnlyStep, Zenon DEF Describe
<1>7. CASE DescribeFails(g)
  <2>1. Sound(g, NextTable(Fail(s)), e)
    BY <1>0, <1>7, FailSound, NextTableSound, Zenon DEF DescribeFails
  <2> QED
    BY <1>0, <1>7, <2>1, BudgetStep, PassOnlyStep, Zenon DEF DescribeFails
<1>8. CASE EndPass(g)
  BY <1>0, <1>8, IdleSound, BudgetStep, PassOnlyStep, Zenon DEF EndPass
<1> QED
  BY <1>1, <1>3, <1>4, <1>5, <1>6, <1>7, <1>8

(* What a call that takes effect does to the tables. *)
LEMMA WriteEffect ==
  ASSUME IInv, NEW g \in Gateway, NEW p \in Prefix, Calls(g, p), Ec2Write(g, p)
  PROVE  /\ pass[g].at \in Table
         /\ p \in UNION Lists[g]
         /\ eni[g] \in Owned(g)
         /\ table' = [table EXCEPT ![pass[g].at][p] = [target |-> eni[g], active |-> TRUE]]
         /\ table' \in [Table -> TableContent]
<1> DEFINE r == [target |-> eni[g], active |-> TRUE]
<1>1. Sound(g, pass[g], eni[g]) /\ pass[g].pc = "apply" /\ p \in pass[g].todo
  BY Zenon DEF IInv, Calls, IsNext
<1>2. pass[g].at \in Table /\ p \in UNION Lists[g] /\ eni[g] \in Owned(g)
  BY <1>1, Zenon DEF Sound
<1>3. r \in Route
  BY <1>2, OwnedType, Zenon DEF Route, Target
<1>4. table' = [table EXCEPT ![pass[g].at][p] = r]
  BY Zenon DEF Ec2Write
<1> QED
  BY <1>2, <1>3, <1>4, WriteType, Zenon

(* The steps of a pass that deal with prefix p. *)
LEMMA PrefixStepIInv ==
  ASSUME IInv, NEW g \in Gateway, NEW p \in Prefix,
         \/ NoCall(g, p) \/ CallSucceeds(g, p) \/ CallAnswerLost(g, p)
         \/ CallRefused(g, p) \/ CallFails(g, p)
  PROVE  IInv'
<1> DEFINE s == pass[g]
           e == eni[g]
           action == Plan(s.existing[p], e)
<1>0. Sound(g, s, e) /\ table \in [Table -> TableContent]
  BY Zenon DEF IInv, TypeOK
<1>1. action \in {"noop", "create", "replace"}
  BY PlanAction, Zenon
<1> HIDE DEF action
<1>2. CASE NoCall(g, p)
  <2>1. s.pc = "apply" /\ pass' = [pass EXCEPT ![g] = NextPrefix(Report(s, p, action), p)]
        /\ UNCHANGED <<table, addr, eni, budget>>
    BY <1>2, Zenon DEF NoCall, action
  <2>2. Sound(g, NextPrefix(Report(s, p, action), p), e)
    <3>1. Sound(g, Report(s, p, action), e) /\ Report(s, p, action).pc = "apply"
      BY <1>0, <1>1, <2>1, ReportSound
    <3> QED
      BY <3>1, NextPrefixSound
  <2> QED
    BY <1>0, <2>1, <2>2, BudgetStep, PassOnlyStep, Zenon
<1>3. CASE CallSucceeds(g, p)
  <2>1. /\ s.pc = "apply" /\ Calls(g, p) /\ Ec2Write(g, p)
        /\ pass' = [pass EXCEPT ![g] = NextPrefix(Report(Made(s, p), p, action), p)]
        /\ UNCHANGED <<addr, eni, budget>>
    BY <1>3, Zenon DEF CallSucceeds, Calls, action
  <2>2. Sound(g, NextPrefix(Report(Made(s, p), p, action), p), e)
    <3> DEFINE m == Made(s, p)
    <3>1. Sound(g, m, e) /\ m.pc = "apply"
      BY <1>0, <2>1, MadeSound
    <3> HIDE DEF m
    <3>2. Sound(g, Report(m, p, action), e) /\ Report(m, p, action).pc = "apply"
      BY <1>1, <3>1, ReportSound
    <3>3. Sound(g, NextPrefix(Report(m, p, action), p), e)
      BY <3>2, NextPrefixSound
    <3> QED
      BY <3>3 DEF m
  <2> QED
    BY <2>1, <2>2, WriteEffect, BudgetStep, PassOnlyStep, Zenon
<1>4. CASE CallAnswerLost(g, p)
  <2>1. PICK cut \in BOOLEAN :
          /\ Disturb(IF cut THEN "expire" ELSE "fault")
          /\ pass' = [pass EXCEPT ![g] =
                        NextPrefix(Fail([Made(s, p) EXCEPT !.expired = cut]), p)]
    BY <1>4, Zenon DEF CallAnswerLost
  <2>2. s.pc = "apply" /\ Calls(g, p) /\ Ec2Write(g, p) /\ UNCHANGED <<addr, eni>>
    BY <1>4, Zenon DEF CallAnswerLost, Calls
  <2> DEFINE m == Made(s, p)
             n == [m EXCEPT !.expired = cut]
  <2>3. Sound(g, m, e) /\ m.pc = "apply"
    BY <1>0, <2>2, MadeSound, Zenon
  <2> HIDE DEF m
  <2>4. /\ n \in Pass /\ n.pc = m.pc /\ n.at = m.at /\ n.list = m.list
        /\ n.todo = m.todo
    BY <2>3, Zenon DEF Sound, Pass
  <2>5. Sound(g, n, e) /\ n.pc = "apply"
    BY <2>3, <2>4, Zenon DEF Sound
  <2>6. Sound(g, NextPrefix(Fail(n), p), e)
    BY <2>5, FailSound, NextPrefixSound, Zenon
  <2> QED
    BY <2>1, <2>2, <2>6, WriteEffect, BudgetStep, PassOnlyStep, Zenon DEF m
<1>5. CASE CallRefused(g, p) \/ CallFails(g, p)
  <2>1. /\ s.pc = "apply" /\ pass' = [pass EXCEPT ![g] = Refused(s, p)]
        /\ UNCHANGED <<table, addr, eni>>
        /\ budget' \in 0 .. MaxDisturbances
    BY <1>5, BudgetStep, Zenon DEF CallRefused, CallFails, Calls
  <2>2. Sound(g, Refused(s, p), e)
    BY <1>0, <2>1, FailSound, NextPrefixSound, Zenon DEF Refused
  <2> QED
    BY <1>0, <2>1, <2>2, PassOnlyStep, Zenon
<1> QED
  BY <1>2, <1>3, <1>4, <1>5

LEMMA EnvironmentIInv ==
  ASSUME IInv, Environment
  PROVE  IInv'
<1>0. table \in [Table -> TableContent]
  BY Zenon DEF IInv, TypeOK
<1>1. ASSUME NEW g \in Gateway, Expire(g) PROVE IInv'
  <2> DEFINE s == pass[g]
             n == [s EXCEPT !.expired = TRUE]
  <2>1. Sound(g, s, eni[g])
    BY Zenon DEF IInv
  <2>2. /\ n \in Pass /\ n.pc = s.pc /\ n.at = s.at /\ n.hop = s.hop
        /\ n.list = s.list /\ n.todo = s.todo
    BY <2>1, Zenon DEF Sound, Pass
  <2>3. Sound(g, n, eni[g])
    BY <2>1, <2>2, Zenon DEF Sound
  <2> QED
    BY <1>0, <1>1, <2>3, BudgetStep, PassOnlyStep, Zenon DEF Expire
<1>2. ASSUME NEW g \in Gateway, Crash(g) PROVE IInv'
  <2>1. Sound(g, Idle, None)
    BY IdleSound, Zenon
  <2> QED
    BY <1>0, <1>2, <2>1, BudgetStep, PassStep, Zenon DEF Crash
<1>3. ASSUME NEW g \in Gateway, Readdress(g) PROVE IInv'
  <2>1. PICK a \in AddrsOf[g] : addr' = [addr EXCEPT ![g] = a]
    BY <1>3, Zenon DEF Readdress
  <2>2. a \in Addr
    BY AwsAssumption DEF AwsAssumption
  <2>3. UNCHANGED <<table, eni, pass>> /\ budget' \in 0 .. MaxDisturbances
    BY <1>3, BudgetStep, Zenon DEF Readdress
  <2> QED
    BY <2>1, <2>2, <2>3, Zenon DEF IInv, TypeOK
<1>4. ASSUME NEW t \in Table, NEW p \in Prefix, OperatorEdit(t, p) \/ Blackhole(t, p)
      PROVE  IInv'
  <2>1. UNCHANGED <<addr, eni, pass>> /\ budget' \in 0 .. MaxDisturbances
    BY <1>4, BudgetStep, Zenon DEF OperatorEdit, Blackhole
  <2>2. PICK r \in Route \cup {None} : table' = [table EXCEPT ![t][p] = r]
    <3>1. CASE OperatorEdit(t, p)
      <4>1. [target : Foreign, active : {TRUE}] \subseteq Route
        BY Zenon DEF Route, Target
      <4> QED
        BY <3>1, <4>1, Zenon DEF OperatorEdit
    <3>2. CASE Blackhole(t, p)
      <4>1. table[t][p] \in Route
        <5>1. table[t][p] \in Route \cup {None}
          BY <1>0, Zenon DEF TableContent
        <5> QED
          BY <3>2, <5>1, Zenon DEF Blackhole
      <4>2. [target |-> table[t][p].target, active |-> FALSE] \in Route
        BY <4>1, Zenon DEF Route
      <4>3. table' = [table EXCEPT ![t][p] = [target |-> table[t][p].target, active |-> FALSE]]
        BY <1>0, <3>2, Zenon DEF Blackhole, TableContent
      <4> QED
        BY <4>2, <4>3, Zenon
    <3> QED
      BY <1>4, <3>1, <3>2
  <2>3. table' \in [Table -> TableContent]
    BY <2>2, WriteType, Zenon
  <2> QED
    BY <2>1, <2>3, Zenon DEF IInv, TypeOK
<1> QED
  BY <1>1, <1>2, <1>3, <1>4, Zenon DEF Environment

LEMMA StepIInv == IInv /\ [Next]_vars => IInv'
<1> SUFFICES ASSUME IInv, [Next]_vars PROVE IInv'
  OBVIOUS
<1>1. ASSUME NEW g \in Gateway, Step(g) PROVE IInv'
  BY <1>1, QuietStepIInv, PrefixStepIInv, Zenon DEF Step
<1>2. CASE UNCHANGED vars
  BY <1>2, Zenon DEF vars, IInv, TypeOK
<1> QED
  BY <1>1, <1>2, EnvironmentIInv, Zenon DEF Next

(***************************************************************************)
(* Every pass is sound in every reachable state: its interface is one of   *)
(* the instance's own (networkInterfaceID) and what it has left to do is   *)
(* on a list of the instance.                                              *)
(***************************************************************************)
THEOREM InvariantHolds == Spec => []IInv
  BY InitIInv, StepIInv, PTL DEF Spec

(***************************************************************************)
(* Whatever fails, expires or is edited, tables, interfaces and passes are *)
(* of their types: in particular no pass goes past the last of the route   *)
(* tables (Sync's loop over tables).                                       *)
(***************************************************************************)
THEOREM TypeCorrect == Spec => []TypeOK
  BY InvariantHolds, PTL DEF IInv

-----------------------------------------------------------------------------
(* Implementation of RouteTables.                                          *)

LEMMA ShownWrite ==
  ASSUME IInv, NEW t \in Table, NEW p \in Prefix, NEW r,
         table' = [table EXCEPT ![t][p] = r]
  PROVE  ShownTable' = [ShownTable EXCEPT ![t][p] = Shown(r)]
<1> DEFINE f == [q \in Prefix |-> IF q = p THEN Shown(r) ELSE ShownTable[t][q]]
<1>0. table \in [Table -> TableContent]
  BY Zenon DEF IInv, TypeOK
<1>1. ASSUME NEW u \in Table, NEW q \in Prefix
      PROVE  table'[u][q] = IF u = t /\ q = p THEN r ELSE table[u][q]
  BY <1>0 DEF TableContent
<1>2. ASSUME NEW u \in Table, u # t PROVE ShownTable'[u] = ShownTable[u]
  BY <1>1, <1>2 DEF ShownTable
<1>3. ShownTable'[t] = f
  <2>1. ShownTable'[t] = [q \in Prefix |-> Shown(table'[t][q])]
    BY DEF ShownTable
  <2>2. \A q \in Prefix : ShownTable[t][q] = Shown(table[t][q])
    BY DEF ShownTable
  <2>3. \A q \in Prefix : Shown(table'[t][q]) = IF q = p THEN Shown(r) ELSE ShownTable[t][q]
    BY <1>1, <2>2
  <2> QED
    BY <2>1, <2>3
<1>4. ShownTable = [u \in Table |-> ShownTable[u]]
      /\ ShownTable' = [u \in Table |-> ShownTable'[u]]
  BY DEF ShownTable
<1>5. f = [ShownTable[t] EXCEPT ![p] = Shown(r)]
  BY DEF ShownTable
<1> HIDE DEF f
<1> QED
  BY <1>2, <1>3, <1>4, <1>5

LEMMA WriteClaims ==
  ASSUME IInv, NEW g \in Gateway, NEW p \in Prefix, Calls(g, p), Ec2Write(g, p)
  PROVE  Promise!Next
<1> DEFINE t == pass[g].at
           e == eni[g]
           r == [target |-> e, active |-> TRUE]
           f == [q \in Prefix |-> IF q \in {p} THEN e ELSE ShownTable[t][q]]
<1>1. t \in Table /\ p \in UNION Lists[g] /\ e \in Owned(g)
      /\ table' = [table EXCEPT ![t][p] = r]
  BY WriteEffect, Zenon
<1>2. r \in Route
  BY <1>1, OwnedType, Zenon DEF Route, Target
<1>3. Shown(r) = e
  BY <1>2, AwsAssumption, Zenon DEF Shown, AwsAssumption
<1> HIDE DEF t, e, r
<1>4. ShownTable' = [ShownTable EXCEPT ![t] = f]
  <2>1. ShownTable' = [ShownTable EXCEPT ![t][p] = Shown(r)]
    BY <1>1, ShownWrite
  <2>2. f = [ShownTable[t] EXCEPT ![p] = Shown(r)]
    BY <1>1, <1>3 DEF ShownTable
  <2> QED
    BY <2>1, <2>2, Zenon
<1>5. {p} \in SUBSET Claimable(g)
  BY <1>1, Zenon DEF Claimable, Calls
<1>6. Promise!Claim(g, t)
  BY <1>1, <1>4, <1>5 DEF Promise!Claim
<1> QED
  BY <1>1, <1>6 DEF Promise!Next

LEMMA EnvironmentAllowed ==
  ASSUME IInv, NEW t \in Table, NEW p \in Prefix, OperatorEdit(t, p) \/ Blackhole(t, p)
  PROVE  Promise!Next \/ UNCHANGED ShownTable
<1>0. table \in [Table -> TableContent]
  BY Zenon DEF IInv, TypeOK
<1>1. CASE OperatorEdit(t, p)
  <2>1. PICK r \in [target : Foreign, active : {TRUE}] \cup {None} :
          table' = [table EXCEPT ![t][p] = r]
    BY <1>1, Zenon DEF OperatorEdit
  <2>2. Shown(r) \in (Target \ UNION {Owned(g) : g \in Gateway}) \cup {None}
    <3>1. UNION {Owned(g) : g \in Gateway} \subseteq Eni
      BY OwnedType
    <3> QED
      BY <3>1, AwsAssumption DEF AwsAssumption, Shown, Target
  <2>3. ShownTable' = [ShownTable EXCEPT ![t][p] = Shown(r)]
    BY <2>1, ShownWrite
  <2> QED
    BY <2>2, <2>3 DEF Promise!Next, Promise!OperatorEdit
<1>2. CASE Blackhole(t, p)
  <2> DEFINE r == [target |-> table[t][p].target, active |-> FALSE]
  <2>1. table[t][p] \in Route
    <3>1. table[t][p] \in Route \cup {None}
      BY <1>0, Zenon DEF TableContent
    <3> QED
      BY <1>2, <3>1, Zenon DEF Blackhole
  <2>2. r \in Route /\ table' = [table EXCEPT ![t][p] = r]
    BY <1>0, <1>2, <2>1, Zenon DEF Blackhole, Route, TableContent
  <2>3. Shown(r) = Shown(table[t][p])
    BY <2>1, <2>2, AwsAssumption, Zenon DEF Shown, AwsAssumption
  <2> HIDE DEF r
  <2>4. ShownTable' = [ShownTable EXCEPT ![t][p] = Shown(r)]
    BY <2>2, ShownWrite
  <2>5. [ShownTable[t] EXCEPT ![p] = Shown(r)] = ShownTable[t]
    BY <2>3 DEF ShownTable
  <2>6. ShownTable' = ShownTable
    BY <2>4, <2>5 DEF ShownTable
  <2> QED
    BY <2>6
<1> QED
  BY <1>1, <1>2

LEMMA StepImplements == IInv /\ [Next]_vars => [Promise!Next]_ShownTable
<1> SUFFICES ASSUME IInv, [Next]_vars PROVE Promise!Next \/ UNCHANGED ShownTable
  OBVIOUS
<1>1. UNCHANGED table => UNCHANGED ShownTable
  BY DEF ShownTable
<1>2. ASSUME NEW g \in Gateway, Step(g) PROVE Promise!Next \/ UNCHANGED ShownTable
  <2>1. CASE \E p \in Prefix : CallSucceeds(g, p) \/ CallAnswerLost(g, p)
    BY <2>1, WriteClaims, Zenon DEF CallSucceeds, CallAnswerLost
  <2>2. CASE ~\E p \in Prefix : CallSucceeds(g, p) \/ CallAnswerLost(g, p)
    <3>1. UNCHANGED table
      BY <1>2, <2>2, Zenon DEF Step, StartPass, ResolveCached, ResolveLookup,
        ResolveFails, Describe, DescribeFails, NoCall, CallRefused, CallFails, EndPass
    <3> QED
      BY <1>1, <3>1
  <2> QED
    BY <2>1, <2>2
<1>3. CASE Environment
  <2>1. CASE \E g \in Gateway : Expire(g) \/ Crash(g) \/ Readdress(g)
    BY <1>1, <2>1, Zenon DEF Expire, Crash, Readdress
  <2>2. CASE \E t \in Table, p \in Prefix : OperatorEdit(t, p) \/ Blackhole(t, p)
    BY <2>2, EnvironmentAllowed
  <2> QED
    BY <1>3, <2>1, <2>2, Zenon DEF Environment
<1>4. CASE UNCHANGED vars
  BY <1>1, <1>4, Zenon DEF vars
<1> QED
  BY <1>2, <1>3, <1>4, Zenon DEF Next

LEMMA InitImplements == Init => Promise!Init
<1> SUFFICES ASSUME Init PROVE Promise!Init
  OBVIOUS
<1> DEFINE own == [g \in Gateway |-> Owned(g)]
           others == Target \ UNION {Owned(g) : g \in Gateway}
<1>1. table \in [Table -> TableContent]
  BY AwsAssumption DEF Init, AwsAssumption
<1>2. Target \subseteq others \cup UNION {own[g] : g \in Gateway}
  <2>1. UNION {Owned(g) : g \in Gateway} = UNION {own[g] : g \in Gateway}
    OBVIOUS
  <2> QED
    BY <2>1
<1>3. ASSUME NEW t \in Table, NEW p \in Prefix
      PROVE  Shown(table[t][p]) \in Target \cup {None}
  <2>1. table[t][p] \in Route \cup {None}
    BY <1>1, Zenon DEF TableContent
  <2> QED
    BY <2>1, Zenon DEF Shown, Route
<1>4. ShownTable \in [Table -> [Prefix -> Target \cup {None}]]
  BY <1>3 DEF ShownTable
<1> QED
  BY <1>2, <1>4 DEF Promise!Init, Promise!Target

(***************************************************************************)
(* For any number of gateways, tables, prefixes and disturbances of every  *)
(* kind, the route tables change only as RouteTables lets them: a gateway  *)
(* points prefixes of its own lists at itself and leaves all others alone. *)
(***************************************************************************)
THEOREM KeepsPromise == Spec => ImplementsPromise
<1>1. Spec => Promise!Init
  BY InitImplements, PTL DEF Spec
<1>2. Spec => [][Promise!Next]_ShownTable
  BY InvariantHolds, StepImplements, PTL DEF Spec
<1> QED
  BY <1>1, <1>2, Zenon DEF ImplementsPromise, Promise!Spec

-----------------------------------------------------------------------------
(***************************************************************************)
(* The report of a pass. It accounts for what was done all along, not only *)
(* when Sync returns.                                                      *)
(***************************************************************************)
Accounted(s) ==
  /\ Reported(s) \subseteq s.made
  /\ s.made \subseteq Reported(s) \/ s.failed

AccountInv == \A g \in Gateway \ DryRun : Accounted(pass[g])

LEMMA AccountKept ==
  ASSUME NEW s, NEW n, Accounted(s), n.changes = s.changes, n.made = s.made,
         n.failed = s.failed \/ n.failed
  PROVE  Accounted(n)
BY Zenon DEF Accounted, Reported

LEMMA IdleAccounted ==
  /\ Idle \in Pass /\ Accounted(Idle)
  /\ Idle.changes = {} /\ Idle.made = {} /\ Idle.failed = FALSE
<1>1. NothingRead \in TableContent /\ 1 \in 1 .. NumTables + 1
  BY AwsAssumption DEF NothingRead, TableContent, AwsAssumption
<1>2. Idle \in Pass
  BY <1>1, Zenon DEF Idle, Pass
<1>3. Idle.changes = {} /\ Idle.made = {} /\ Idle.failed = FALSE
  BY DEF Idle
<1> QED
  BY <1>2, <1>3 DEF Accounted, Reported

LEMMA FailAccount ==
  ASSUME NEW s \in Pass
  PROVE  /\ Fail(s) \in Pass /\ Fail(s).failed
         /\ Fail(s).changes = s.changes /\ Fail(s).made = s.made
BY Zenon DEF Fail, Pass

LEMMA NextAccount ==
  ASSUME NEW s \in Pass, Accounted(s)
  PROVE  Accounted(NextTable(s)) /\ \A p : Accounted(NextPrefix(s, p))
<1>1. Accounted(NextTable(s))
  <2>1. /\ NextTable(s).changes = s.changes /\ NextTable(s).made = s.made
        /\ NextTable(s).failed = s.failed
    BY Zenon DEF NextTable, Pass
  <2> QED
    BY <2>1, AccountKept, Zenon
<1>2. ASSUME NEW p PROVE Accounted(NextPrefix(s, p))
  <2> DEFINE n == [s EXCEPT !.todo = s.todo \ {p}]
  <2>1. n.changes = s.changes /\ n.made = s.made /\ n.failed = s.failed
    BY Zenon DEF Pass
  <2>2. Accounted(n)
    BY <2>1, AccountKept, Zenon
  <2> QED
    BY <1>1, <2>2, Zenon DEF NextPrefix
<1> QED
  BY <1>1, <1>2

(* What a report of one more change adds. *)
LEMMA ReportedMore ==
  ASSUME NEW s \in Pass, NEW p, NEW action
  PROVE  /\ Report(s, p, action).made = s.made
         /\ Report(s, p, action).failed = s.failed
         /\ Reported(Report(s, p, action)) =
              Reported(s) \cup (IF action = "noop" THEN {} ELSE {<<s.at, p>>})
<1> DEFINE c == [table |-> s.at, prefix |-> p, action |-> action]
           n == Report(s, p, action)
<1>1. n.changes = s.changes \cup {c} /\ n.made = s.made /\ n.failed = s.failed
  BY Zenon DEF Report, Pass
<1>2. c.table = s.at /\ c.prefix = p /\ c.action = action
  BY Zenon
<1> HIDE DEF c, n
<1>3. Reported(n) = Reported(s) \cup (IF action = "noop" THEN {} ELSE {<<s.at, p>>})
  BY <1>1, <1>2 DEF Reported
<1> QED
  BY <1>1, <1>3, Zenon DEF n

LEMMA PrefixStepAccount ==
  ASSUME IInv, NEW g \in Gateway \ DryRun, NEW p \in Prefix, Accounted(pass[g]),
         \/ NoCall(g, p) \/ CallSucceeds(g, p) \/ CallAnswerLost(g, p)
         \/ CallRefused(g, p) \/ CallFails(g, p)
  PROVE  Accounted(pass'[g])
<1> DEFINE s == pass[g]
           e == eni[g]
           action == Plan(s.existing[p], e)
<1>0. Sound(g, s, e) /\ s \in Pass /\ pass \in [Gateway -> Pass]
  BY Zenon DEF IInv, TypeOK, Sound
<1>1. action \in {"noop", "create", "replace"}
  BY PlanAction, Zenon
<1>2. CASE NoCall(g, p)
  <2>1. /\ s.pc = "apply" /\ action = "noop"
        /\ pass'[g] = NextPrefix(Report(s, p, action), p)
    BY <1>0, <1>2, Zenon DEF NoCall
  <2> HIDE DEF action
  <2> DEFINE n == Report(s, p, action)
  <2>2. n \in Pass
    BY <1>0, <1>1, <2>1, ReportSound, Zenon DEF Sound
  <2>3. Accounted(n)
    BY <1>0, <2>1, ReportedMore DEF Accounted
  <2> QED
    BY <2>1, <2>2, <2>3, NextAccount, Zenon
<1>3. CASE CallSucceeds(g, p)
  <2>1. /\ s.pc = "apply" /\ action # "noop"
        /\ pass'[g] = NextPrefix(Report(Made(s, p), p, action), p)
    BY <1>0, <1>3, Zenon DEF CallSucceeds, Calls
  <2> HIDE DEF action
  <2> DEFINE m == Made(s, p)
             n == Report(m, p, action)
  <2>2. Sound(g, m, e) /\ m.pc = "apply"
    BY <1>0, <2>1, MadeSound, Zenon
  <2>3. /\ m \in Pass /\ m.at = s.at /\ m.made = s.made \cup {<<s.at, p>>}
        /\ m.failed = s.failed /\ m.changes = s.changes
    BY <1>0, <2>2, Zenon DEF Made, Sound, Pass
  <2>4. Reported(m) = Reported(s)
    BY <2>3, Zenon DEF Reported
  <2> HIDE DEF m
  <2>5. n \in Pass
    BY <1>1, <2>2, ReportSound, Zenon DEF Sound
  <2>6. Accounted(n)
    BY <2>1, <2>3, <2>4, ReportedMore DEF Accounted
  <2> QED
    BY <2>1, <2>5, <2>6, NextAccount, Zenon DEF m
<1>4. CASE CallAnswerLost(g, p)
  <2>1. PICK cut \in BOOLEAN :
          pass'[g] = NextPrefix(Fail([Made(s, p) EXCEPT !.expired = cut]), p)
    BY <1>0, <1>4, Zenon DEF CallAnswerLost
  <2>2. s.pc = "apply"
    BY <1>4, Zenon DEF CallAnswerLost, Calls
  <2> DEFINE m == Made(s, p)
             n == [m EXCEPT !.expired = cut]
  <2>3. m \in Pass
    BY <1>0, <2>2, MadeSound, Zenon DEF Sound
  <2>4. m.made = s.made \cup {<<s.at, p>>} /\ m.changes = s.changes
    BY <1>0, Zenon DEF Made, Pass
  <2> HIDE DEF m
  <2>5. n \in Pass /\ n.made = m.made /\ n.changes = m.changes
    BY <2>3, Zenon DEF Pass
  <2> HIDE DEF n
  <2>6. /\ Fail(n) \in Pass /\ Fail(n).failed
        /\ Fail(n).changes = s.changes /\ Fail(n).made = s.made \cup {<<s.at, p>>}
    BY <2>4, <2>5, FailAccount, Zenon
  <2>7. Accounted(Fail(n))
    BY <2>6 DEF Accounted, Reported
  <2> QED
    BY <2>1, <2>6, <2>7, NextAccount, Zenon DEF m, n
<1>5. CASE CallRefused(g, p) \/ CallFails(g, p)
  <2>1. pass'[g] = NextPrefix(Fail(s), p)
    BY <1>0, <1>5, Zenon DEF CallRefused, CallFails, Refused
  <2> QED
    BY <1>0, <2>1, FailAccount, AccountKept, NextAccount, Zenon
<1> QED
  BY <1>2, <1>3, <1>4, <1>5

LEMMA StepAccount ==
  ASSUME IInv, NEW g \in Gateway \ DryRun, Accounted(pass[g]), Step(g)
  PROVE  Accounted(pass'[g])
<1> DEFINE s == pass[g]
<1>0. s \in Pass /\ pass \in [Gateway -> Pass]
  BY Zenon DEF IInv, TypeOK
<1>1. CASE StartPass(g)
  <2>1. PICK list \in Lists[g] :
          pass'[g] = [Idle EXCEPT !.pc = "resolve", !.list = list, !.hop = addr[g]]
    BY <1>0, <1>1, Zenon DEF StartPass
  <2>2. /\ pass'[g].changes = Idle.changes /\ pass'[g].made = Idle.made
        /\ pass'[g].failed = Idle.failed
    BY <2>1, IdleAccounted, Zenon DEF Pass
  <2> QED
    BY <2>2, IdleAccounted, AccountKept, Zenon
<1>2. CASE ResolveCached(g) \/ ResolveLookup(g)
  <2>1. pass'[g] = [s EXCEPT !.pc = "describe"]
    BY <1>0, <1>2, Zenon DEF ResolveCached, ResolveLookup
  <2>2. /\ pass'[g].changes = s.changes /\ pass'[g].made = s.made
        /\ pass'[g].failed = s.failed
    BY <1>0, <2>1, Zenon DEF Pass
  <2> QED
    BY <2>2, AccountKept, Zenon
<1>3. CASE Describe(g)
  <2>1. PICK existing, todo : pass'[g] = [s EXCEPT !.pc = "apply", !.existing = existing,
                                                   !.todo = todo]
    BY <1>0, <1>3, Zenon DEF Describe
  <2>2. /\ pass'[g].changes = s.changes /\ pass'[g].made = s.made
        /\ pass'[g].failed = s.failed
    BY <1>0, <2>1, Zenon DEF Pass
  <2> QED
    BY <2>2, AccountKept, Zenon
<1>4. CASE ResolveFails(g)
  <2>1. pass'[g] = [Fail(s) EXCEPT !.pc = "report"]
    BY <1>0, <1>4, Zenon DEF ResolveFails
  <2> DEFINE f == Fail(s)
  <2>2. f \in Pass /\ f.failed /\ f.changes = s.changes /\ f.made = s.made
    BY <1>0, FailAccount, Zenon
  <2> HIDE DEF f
  <2>3. /\ [f EXCEPT !.pc = "report"].changes = f.changes
        /\ [f EXCEPT !.pc = "report"].made = f.made
        /\ [f EXCEPT !.pc = "report"].failed = f.failed
    BY <2>2, Zenon DEF Pass
  <2>4. /\ pass'[g].changes = s.changes /\ pass'[g].made = s.made /\ pass'[g].failed
    BY <2>1, <2>2, <2>3, Zenon DEF f
  <2> QED
    BY <2>4, AccountKept, Zenon
<1>5. CASE DescribeFails(g)
  <2>1. pass'[g] = NextTable(Fail(s))
    BY <1>0, <1>5, Zenon DEF DescribeFails
  <2> QED
    BY <1>0, <2>1, FailAccount, AccountKept, NextAccount, Zenon
<1>6. CASE EndPass(g)
  BY <1>0, <1>6, IdleAccounted, Zenon DEF EndPass
<1> QED
  BY <1>1, <1>2, <1>3, <1>4, <1>5, <1>6, PrefixStepAccount, Zenon DEF Step

LEMMA NextAccountInv == IInv /\ AccountInv /\ [Next]_vars => AccountInv'
<1> SUFFICES ASSUME IInv, AccountInv, [Next]_vars, NEW g \in Gateway \ DryRun
             PROVE  Accounted(pass'[g])
  BY Zenon DEF AccountInv
<1>0. pass[g] \in Pass /\ pass \in [Gateway -> Pass] /\ Accounted(pass[g])
  BY Zenon DEF IInv, TypeOK, AccountInv
<1>1. ASSUME NEW h \in Gateway, Step(h) PROVE Accounted(pass'[g])
  <2>1. CASE h = g
    BY <1>0, <1>1, <2>1, StepAccount, Zenon
  <2>2. CASE h # g
    <3>1. pass'[g] = pass[g]
      BY <1>0, <1>1, <2>2, Zenon DEF Step, StartPass, ResolveCached, ResolveLookup,
        ResolveFails, Describe, DescribeFails, NoCall, CallSucceeds, CallAnswerLost,
        CallRefused, CallFails, EndPass
    <3> QED
      BY <1>0, <3>1, Zenon
  <2> QED
    BY <2>1, <2>2
<1>2. ASSUME NEW h \in Gateway, Expire(h) PROVE Accounted(pass'[g])
  <2>1. /\ pass'[g].changes = pass[g].changes /\ pass'[g].made = pass[g].made
        /\ pass'[g].failed = pass[g].failed
    BY <1>0, <1>2, Zenon DEF Expire, Pass
  <2> QED
    BY <1>0, <2>1, AccountKept, Zenon
<1>3. ASSUME NEW h \in Gateway, Crash(h) PROVE Accounted(pass'[g])
  BY <1>0, <1>3, IdleAccounted, Zenon DEF Crash
<1>4. UNCHANGED pass => Accounted(pass'[g])
  BY <1>0, Zenon
<1> QED
  BY <1>1, <1>2, <1>3, <1>4, Zenon DEF Next, Environment, Readdress, OperatorEdit,
     Blackhole, vars

(***************************************************************************)
(* The report of Sync tells what EC2 did, for any number of gateways that  *)
(* write the same tables at once, whatever calls fail and whatever answers *)
(* are lost: a change it reports was made, and one that was made is        *)
(* reported unless an error is.                                            *)
(***************************************************************************)
THEOREM ReportsAreAccounts == Spec => []AccountedChanges
<1>1. Init => AccountInv
  BY IdleAccounted, Zenon DEF Init, AccountInv
<1>2. AccountInv => AccountedChanges
  BY Zenon DEF AccountInv, Accounted, AccountedChanges
<1> QED
  BY <1>1, <1>2, InvariantHolds, NextAccountInv, PTL DEF Spec

-----------------------------------------------------------------------------
(***************************************************************************)
(* A pass that reports no error has routed its list. This is meant for an  *)
(* instance that no other one takes prefixes from and whose interface is   *)
(* one, whichever of its addresses is detected: what it cached is then the *)
(* interface of the address it works with.                                 *)
(***************************************************************************)
Alone ==
  \A g, h \in Gateway \ DryRun :
    g # h => (UNION Lists[g]) \cap (UNION Lists[h]) \subseteq Edited

OneInterface ==
  \A g \in Gateway : \A a, b \in AddrsOf[g] : EniOf[a] = EniOf[b]

Points(ts, t, p, e) == ts[t][p] = [target |-> e, active |-> TRUE]

(***************************************************************************)
(* What a pass that has met no error knows of the tables ts: the ones it   *)
(* is past are right, and so is, in the one it is at, what is no longer to *)
(* do; and what is still to do there is as it was read.                    *)
(***************************************************************************)
Held(g, s, e, ts) ==
  /\ s.pc # "idle" => s.hop \in AddrsOf[g]
  /\ s.pc \in {"idle", "resolve"} => s.at = 1
  /\ s.pc = "report" /\ ~s.failed => s.at = NumTables + 1 /\ e # None
  /\ ~s.failed => \A t \in Table, p \in s.list \ Edited : t < s.at => Points(ts, t, p, e)
  /\ s.pc = "apply" =>
       /\ \A p \in s.todo \ Edited : ts[s.at][p] = s.existing[p]
       /\ ~s.failed => \A p \in s.list \ (s.todo \cup Edited) : Points(ts, s.at, p, e)

HeldInv == \A g \in Gateway \ DryRun : Held(g, pass[g], eni[g], table)

(* Two states of a pass that differ in what it will report, at most. *)
Alike(n, s) ==
  /\ n.pc = s.pc /\ n.hop = s.hop /\ n.list = s.list /\ n.at = s.at
  /\ n.existing = s.existing /\ n.todo = s.todo

LEMMA ReportAlike ==
  ASSUME NEW s \in Pass, NEW p, NEW action
  PROVE  Alike(Report(s, p, action), s) /\ Report(s, p, action).failed = s.failed
BY Zenon DEF Alike, Report, Pass

LEMMA RecordsAlike ==
  ASSUME NEW s \in Pass, NEW p, NEW cut
  PROVE  /\ Alike(Fail(s), s) /\ Fail(s).failed
         /\ Alike(Made(s, p), s) /\ Made(s, p).failed = s.failed
         /\ Alike([s EXCEPT !.expired = cut], s)
         /\ [s EXCEPT !.expired = cut].failed = s.failed
BY Zenon DEF Alike, Fail, Made, Pass

LEMMA IdleHeld == \A g, e, ts : Held(g, Idle, e, ts)
  BY Zenon DEF Held, Idle

LEMMA NextTableHeld ==
  ASSUME NEW g, NEW s, NEW e, NEW ts, Sound(g, s, e), s.pc \in {"describe", "apply"},
         s.hop \in AddrsOf[g],
         ~s.failed => \A t \in Table, q \in s.list \ Edited :
                        t < s.at \/ t = s.at => Points(ts, t, q, e)
  PROVE  Held(g, NextTable(s), e, ts)
<1> DEFINE n == NextTable(s)
<1>1. s \in Pass /\ s.at \in Table /\ e # None
  BY Zenon DEF Sound
<1>2. /\ n.pc = (IF s.at = NumTables THEN "report" ELSE "describe")
      /\ n.at = s.at + 1 /\ n.list = s.list /\ n.hop = s.hop /\ n.failed = s.failed
  BY <1>1, Zenon DEF NextTable, Pass
<1>3. \A t \in Table : t < s.at + 1 => t < s.at \/ t = s.at
  BY <1>1, AwsAssumption DEF AwsAssumption, Table
<1> HIDE DEF n
<1>4. n.pc = "report" => n.at = NumTables + 1
  BY <1>2
<1>5. ~n.failed => \A t \in Table, q \in n.list \ Edited : t < n.at => Points(ts, t, q, e)
  BY <1>2, <1>3, Zenon
<1> QED
  BY <1>1, <1>2, <1>4, <1>5, Zenon DEF Held, n

LEMMA NextPrefixHeld ==
  ASSUME NEW g, NEW s, NEW e, NEW ts, NEW p, Sound(g, s, e), s.pc = "apply",
         s.hop \in AddrsOf[g],
         ~s.failed => \A t \in Table, q \in s.list \ Edited :
                        t < s.at => Points(ts, t, q, e),
         ~s.failed => \A q \in s.list \ ((s.todo \ {p}) \cup Edited) :
                        Points(ts, s.at, q, e),
         \A q \in s.todo \ ({p} \cup Edited) : ts[s.at][q] = s.existing[q]
  PROVE  Held(g, NextPrefix(s, p), e, ts)
<1>1. CASE s.todo = {p}
  BY <1>1, NextTableHeld, Zenon DEF NextPrefix
<1>2. CASE s.todo # {p}
  <2> DEFINE n == [s EXCEPT !.todo = s.todo \ {p}]
  <2>1. s \in Pass
    BY Zenon DEF Sound
  <2>2. /\ n.pc = s.pc /\ n.at = s.at /\ n.list = s.list /\ n.hop = s.hop
        /\ n.failed = s.failed /\ n.existing = s.existing /\ n.todo = s.todo \ {p}
    BY <2>1, Zenon DEF Pass
  <2>3. NextPrefix(s, p) = n
    BY <1>2, Zenon DEF NextPrefix
  <2> HIDE DEF n
  <2>4. Held(g, n, e, ts)
    BY <2>2, Zenon DEF Held
  <2> QED
    BY <2>3, <2>4, Zenon
<1> QED
  BY <1>1, <1>2

(* Nobody else touches what g routes: not in a step of another gateway... *)
LEMMA OthersLeave ==
  ASSUME Alone, IInv, NEW g \in Gateway \ DryRun, NEW h \in Gateway, h # g, Step(h),
         NEW t \in Table, NEW p \in (UNION Lists[g]) \ Edited
  PROVE  table'[t][p] = table[t][p]
<1>1. CASE \E q \in Prefix : CallSucceeds(h, q) \/ CallAnswerLost(h, q)
  <2>1. PICK q \in Prefix : Calls(h, q) /\ Ec2Write(h, q)
    BY <1>1, Zenon DEF CallSucceeds, CallAnswerLost
  <2>2. q \in UNION Lists[h] /\ h \notin DryRun
        /\ table' = [table EXCEPT ![pass[h].at][q] = [target |-> eni[h], active |-> TRUE]]
    BY <2>1, WriteEffect, Zenon DEF Calls
  <2>3. p # q
    BY <2>2 DEF Alone
  <2> QED
    BY <2>2, <2>3 DEF IInv, TypeOK, TableContent
<1>2. CASE ~\E q \in Prefix : CallSucceeds(h, q) \/ CallAnswerLost(h, q)
  BY <1>2, Zenon DEF Step, StartPass, ResolveCached, ResolveLookup, ResolveFails,
    Describe, DescribeFails, NoCall, CallRefused, CallFails, EndPass
<1> QED
  BY <1>1, <1>2

(* ... and not in the surroundings. *)
LEMMA SurroundingsLeave ==
  ASSUME IInv, Environment, NEW g \in Gateway,
         NEW t \in Table, NEW p \in (UNION Lists[g]) \ Edited
  PROVE  table'[t][p] = table[t][p]
<1>0. table \in [Table -> TableContent] /\ p \in Prefix
  BY AwsAssumption DEF IInv, TypeOK, AwsAssumption
<1>1. ASSUME NEW u \in Table, NEW q \in Prefix, OperatorEdit(u, q) \/ Blackhole(u, q)
      PROVE  table'[t][p] = table[t][p]
  <2>1. q \in Edited /\ \E r : table' = [table EXCEPT ![u][q] = r]
    BY <1>1, Zenon DEF OperatorEdit, Blackhole
  <2>2. p # q
    BY <2>1
  <2> QED
    BY <1>0, <2>1, <2>2 DEF TableContent
<1> QED
  BY <1>1, Zenon DEF Environment, Expire, Crash, Readdress

LEMMA HeldUndisturbed ==
  ASSUME NEW g, NEW s, NEW n, NEW e, NEW ts, NEW us,
         Sound(g, s, e), Held(g, s, e, ts), Alike(n, s), n.failed = s.failed,
         \A t \in Table, p \in (UNION Lists[g]) \ Edited : us[t][p] = ts[t][p]
  PROVE  Held(g, n, e, us)
<1>1. s.list \subseteq UNION Lists[g] /\ s.todo \subseteq s.list
      /\ (s.pc = "apply" => s.at \in Table)
  BY Zenon DEF Sound
<1>2. \A t \in Table, p \in s.list \ Edited : us[t][p] = ts[t][p]
  BY <1>1, Zenon
<1>3. ~s.failed => \A t \in Table, p \in s.list \ Edited : t < s.at => Points(us, t, p, e)
  BY <1>2, Zenon DEF Held, Points
<1>4. s.pc = "apply" =>
        /\ \A p \in s.todo \ Edited : us[s.at][p] = s.existing[p]
        /\ ~s.failed => \A p \in s.list \ (s.todo \cup Edited) : Points(us, s.at, p, e)
  BY <1>1, <1>2, Zenon DEF Held, Points
<1> QED
  BY <1>3, <1>4, Zenon DEF Held, Alike

(* What a write of g's own does to the tables. *)
LEMMA OwnWrite ==
  ASSUME IInv, NEW g \in Gateway, NEW p \in Prefix, Calls(g, p), Ec2Write(g, p)
  PROVE  /\ Points(table', pass[g].at, p, eni[g])
         /\ \A t \in Table, q \in Prefix :
              t # pass[g].at \/ q # p => table'[t][q] = table[t][q]
<1>1. /\ pass[g].at \in Table
      /\ table' = [table EXCEPT ![pass[g].at][p] = [target |-> eni[g], active |-> TRUE]]
  BY WriteEffect, Zenon
<1>2. table \in [Table -> TableContent]
  BY Zenon DEF IInv, TypeOK
<1> QED
  BY <1>1, <1>2 DEF Points, TableContent

(* The steps of g that deal with prefix p. *)
LEMMA PrefixStepHeld ==
  ASSUME IInv, NEW g \in Gateway \ DryRun, NEW p \in Prefix,
         Held(g, pass[g], eni[g], table),
         \/ NoCall(g, p) \/ CallSucceeds(g, p) \/ CallAnswerLost(g, p)
         \/ CallRefused(g, p) \/ CallFails(g, p)
  PROVE  Held(g, pass'[g], eni'[g], table')
<1> DEFINE s == pass[g]
           e == eni[g]
           action == Plan(s.existing[p], e)
<1>0. /\ Sound(g, s, e) /\ s \in Pass /\ pass \in [Gateway -> Pass]
      /\ s.pc = "apply" /\ p \in s.todo /\ UNCHANGED eni
  BY Zenon DEF IInv, TypeOK, Sound, NoCall, CallSucceeds, CallAnswerLost, CallRefused,
    CallFails, Calls, IsNext
<1>1. /\ s.hop \in AddrsOf[g] /\ s.at \in Table /\ s.todo \subseteq s.list
      /\ s.list \subseteq Prefix
      /\ ~s.failed => \A t \in Table, q \in s.list \ Edited :
                        t < s.at => Points(table, t, q, e)
      /\ ~s.failed => \A q \in s.list \ (s.todo \cup Edited) : Points(table, s.at, q, e)
      /\ \A q \in s.todo \ Edited : table[s.at][q] = s.existing[q]
  BY <1>0, Zenon DEF Held, Sound, Pass
<1>2. action \in {"noop", "create", "replace"}
  BY PlanAction, Zenon
<1>3. CASE NoCall(g, p)
  <2>1. action = "noop" /\ pass'[g] = NextPrefix(Report(s, p, action), p) /\ UNCHANGED table
    BY <1>0, <1>3, Zenon DEF NoCall
  <2>2. p \notin Edited => Points(table, s.at, p, e)
    <3>1. s.existing[p] \in Route \cup {None} /\ UpToDate(s.existing[p], e)
      BY <1>0, <2>1, Zenon DEF Plan, Pass, TableContent
    <3>2. s.existing[p] = [target |-> e, active |-> TRUE]
      BY <3>1 DEF UpToDate, Route
    <3> QED
      BY <1>0, <1>1, <3>2, Zenon DEF Points
  <2> HIDE DEF action
  <2> DEFINE n == Report(s, p, action)
  <2>3. Alike(n, s) /\ n.failed = s.failed
    BY <1>0, ReportAlike, Zenon
  <2>4. Sound(g, n, e)
    BY <1>0, <1>2, ReportSound
  <2> HIDE DEF n
  <2>5. Held(g, NextPrefix(n, p), e, table)
    BY <1>0, <1>1, <2>2, <2>3, <2>4, NextPrefixHeld, Zenon DEF Alike
  <2> QED
    BY <1>0, <2>1, <2>5, Zenon DEF n
<1>4. CASE CallSucceeds(g, p)
  <2>1. pass'[g] = NextPrefix(Report(Made(s, p), p, action), p)
    BY <1>0, <1>4, Zenon DEF CallSucceeds
  <2>2. /\ Points(table', s.at, p, e)
        /\ \A t \in Table, q \in Prefix :
             t # s.at \/ q # p => table'[t][q] = table[t][q]
    BY <1>4, OwnWrite, Zenon DEF CallSucceeds
  <2> HIDE DEF action
  <2> DEFINE m == Made(s, p)
             n == Report(m, p, action)
  <2>3. Alike(m, s) /\ m.failed = s.failed
    BY <1>0, RecordsAlike, Zenon
  <2>4. Sound(g, m, e) /\ m.pc = "apply" /\ m \in Pass
    BY <1>0, MadeSound, Zenon DEF Sound
  <2> HIDE DEF m
  <2>5. Alike(n, m) /\ n.failed = m.failed
    BY <2>4, ReportAlike, Zenon
  <2>6. Sound(g, n, e)
    BY <1>2, <2>4, ReportSound
  <2> HIDE DEF n
  <2>7. /\ n.pc = "apply" /\ n.hop = s.hop /\ n.list = s.list /\ n.at = s.at
        /\ n.existing = s.existing /\ n.todo = s.todo /\ n.failed = s.failed
    BY <1>0, <2>3, <2>5, Zenon DEF Alike
  <2>8. ~s.failed => \A t \in Table, q \in s.list \ Edited :
                       t < s.at => Points(table', t, q, e)
    <3> SUFFICES ASSUME ~s.failed, NEW t \in Table, NEW q \in s.list \ Edited, t < s.at
                 PROVE  Points(table', t, q, e)
      BY Zenon
    <3>1. t # s.at
      BY <1>1, AwsAssumption DEF AwsAssumption, Table
    <3>2. table'[t][q] = table[t][q] /\ Points(table, t, q, e)
      BY <1>1, <2>2, <3>1, Zenon
    <3> QED
      BY <3>2, Zenon DEF Points
  <2>9. ~s.failed => \A q \in s.list \ ((s.todo \ {p}) \cup Edited) :
                       Points(table', s.at, q, e)
    BY <1>1, <2>2, Zenon DEF Points
  <2>10. \A q \in s.todo \ ({p} \cup Edited) : table'[s.at][q] = s.existing[q]
    BY <1>1, <2>2, Zenon
  <2>11. Held(g, NextPrefix(n, p), e, table')
    BY <1>1, <2>6, <2>7, <2>8, <2>9, <2>10, NextPrefixHeld, Zenon
  <2> QED
    BY <1>0, <2>1, <2>11, Zenon DEF n, m
<1>5. CASE CallAnswerLost(g, p)
  <2>1. PICK cut \in BOOLEAN :
          pass'[g] = NextPrefix(Fail([Made(s, p) EXCEPT !.expired = cut]), p)
    BY <1>0, <1>5, Zenon DEF CallAnswerLost
  <2>2. \A t \in Table, q \in Prefix :
          t # s.at \/ q # p => table'[t][q] = table[t][q]
    BY <1>5, OwnWrite, Zenon DEF CallAnswerLost
  <2> DEFINE m == Made(s, p)
             l == [m EXCEPT !.expired = cut]
             n == Fail(l)
  <2>3. Alike(m, s) /\ Sound(g, m, e)
    BY <1>0, RecordsAlike, MadeSound, Zenon
  <2> HIDE DEF m
  <2>4. Alike(l, m) /\ l \in Pass
    BY <2>3, RecordsAlike, Zenon DEF Sound, Pass
  <2>5. Sound(g, l, e)
    BY <2>3, <2>4, Zenon DEF Sound, Alike
  <2> HIDE DEF l
  <2>6. Alike(n, l) /\ n.failed /\ Sound(g, n, e)
    BY <2>4, <2>5, RecordsAlike, FailSound, Zenon
  <2> HIDE DEF n
  <2>7. /\ n.pc = "apply" /\ n.hop = s.hop /\ n.list = s.list /\ n.at = s.at
        /\ n.existing = s.existing /\ n.todo = s.todo
    BY <1>0, <2>3, <2>4, <2>6, Zenon DEF Alike
  <2>8. \A q \in s.todo \ ({p} \cup Edited) : table'[s.at][q] = s.existing[q]
    BY <1>1, <2>2, Zenon
  <2>9. Held(g, NextPrefix(n, p), e, table')
    BY <1>1, <2>6, <2>7, <2>8, NextPrefixHeld, Zenon
  <2> QED
    BY <1>0, <2>1, <2>9, Zenon DEF n, l, m
<1>6. CASE CallRefused(g, p) \/ CallFails(g, p)
  <2>1. pass'[g] = NextPrefix(Fail(s), p) /\ UNCHANGED table
    BY <1>0, <1>6, Zenon DEF CallRefused, CallFails, Refused
  <2> DEFINE n == Fail(s)
  <2>2. Alike(n, s) /\ n.failed /\ Sound(g, n, e)
    BY <1>0, RecordsAlike, FailSound, Zenon
  <2> HIDE DEF n
  <2>3. Held(g, NextPrefix(n, p), e, table)
    BY <1>0, <1>1, <2>2, NextPrefixHeld, Zenon DEF Alike
  <2> QED
    BY <1>0, <2>1, <2>3, Zenon DEF n
<1> QED
  BY <1>3, <1>4, <1>5, <1>6

(* The other steps of g: they leave the tables alone. *)
LEMMA QuietStepHeld ==
  ASSUME IInv, NEW g \in Gateway \ DryRun, Held(g, pass[g], eni[g], table),
         \/ StartPass(g) \/ ResolveCached(g) \/ ResolveLookup(g) \/ ResolveFails(g)
         \/ Describe(g) \/ DescribeFails(g) \/ EndPass(g)
  PROVE  Held(g, pass'[g], eni'[g], table')
<1> DEFINE s == pass[g]
           e == eni[g]
<1>0. /\ Sound(g, s, e) /\ s \in Pass /\ addr[g] \in AddrsOf[g]
      /\ pass \in [Gateway -> Pass] /\ s.todo \subseteq s.list
      /\ UNCHANGED table
  BY Zenon DEF IInv, TypeOK, Sound, StartPass, ResolveCached, ResolveLookup,
    ResolveFails, Describe, DescribeFails, EndPass
<1>1. CASE StartPass(g)
  <2>1. PICK list \in Lists[g] :
          pass'[g] = [Idle EXCEPT !.pc = "resolve", !.list = list, !.hop = addr[g]]
    BY <1>0, <1>1, Zenon DEF StartPass
  <2>2. pass'[g].pc = "resolve" /\ pass'[g].hop = addr[g] /\ pass'[g].at = 1
    BY <2>1, Zenon DEF Idle
  <2>3. \A t \in Table : ~(t < 1)
    BY AwsAssumption DEF AwsAssumption, Table
  <2> QED
    BY <1>0, <2>2, <2>3, Zenon DEF Held
<1>2. CASE ResolveCached(g) \/ ResolveLookup(g)
  <2>1. s.pc = "resolve" /\ pass'[g] = [s EXCEPT !.pc = "describe"]
    BY <1>0, <1>2, Zenon DEF ResolveCached, ResolveLookup
  <2>2. /\ pass'[g].pc = "describe" /\ pass'[g].hop = s.hop /\ pass'[g].at = s.at
    BY <1>0, <2>1, Zenon DEF Pass
  <2>3. s.at = 1 /\ s.hop \in AddrsOf[g]
    BY <2>1, Zenon DEF Held
  <2>4. \A t \in Table : ~(t < 1)
    BY AwsAssumption DEF AwsAssumption, Table
  <2> QED
    BY <2>2, <2>3, <2>4, Zenon DEF Held
<1>3. CASE ResolveFails(g)
  <2> DEFINE f == Fail(s)
  <2>1. Alike(f, s) /\ f.failed /\ f \in Pass /\ s.pc = "resolve"
    BY <1>0, <1>3, RecordsAlike, FailSound, Zenon DEF Sound, ResolveFails
  <2>2. pass'[g] = [f EXCEPT !.pc = "report"]
    BY <1>0, <1>3, Zenon DEF ResolveFails
  <2> HIDE DEF f
  <2>3. pass'[g].pc = "report" /\ pass'[g].hop = f.hop /\ pass'[g].failed
    BY <2>1, <2>2, Zenon DEF Pass
  <2> QED
    BY <2>1, <2>3, Zenon DEF Held, Alike
<1>4. CASE Describe(g)
  <2>1. /\ s.pc = "describe" /\ UNCHANGED eni
        /\ pass'[g] = [s EXCEPT !.pc = "apply", !.existing = table[s.at],
                                !.todo = ToSync(s.list, table[s.at])]
    BY <1>0, <1>4, Zenon DEF Describe
  <2>2. /\ pass'[g].pc = "apply" /\ pass'[g].hop = s.hop /\ pass'[g].at = s.at
        /\ pass'[g].list = s.list /\ pass'[g].existing = table[s.at]
        /\ pass'[g].todo = s.list /\ pass'[g].failed = s.failed
    BY <1>0, <2>1, Zenon DEF Pass, ToSync
  <2> QED
    BY <1>0, <2>1, <2>2, Zenon DEF Held
<1>5. CASE DescribeFails(g)
  <2> DEFINE f == Fail(s)
  <2>1. s.pc = "describe" /\ UNCHANGED eni /\ pass'[g] = NextTable(f)
    BY <1>0, <1>5, Zenon DEF DescribeFails
  <2>2. Alike(f, s) /\ f.failed
    BY <1>0, RecordsAlike, Zenon
  <2>3. Sound(g, f, e)
    BY <1>0, FailSound, Zenon
  <2> HIDE DEF f
  <2>4. f.pc \in {"describe", "apply"} /\ f.hop \in AddrsOf[g]
    BY <2>1, <2>2, Zenon DEF Held, Alike
  <2>5. Held(g, NextTable(f), e, table)
    BY <2>2, <2>3, <2>4, NextTableHeld, Zenon
  <2> QED
    BY <1>0, <2>1, <2>5, Zenon
<1>6. CASE EndPass(g)
  <2>1. pass'[g] = Idle
    BY <1>0, <1>6, Zenon DEF EndPass
  <2> QED
    BY <2>1, IdleHeld, Zenon
<1> QED
  BY <1>1, <1>2, <1>3, <1>4, <1>5, <1>6

LEMMA StepHeld ==
  ASSUME Alone, IInv, HeldInv, [Next]_vars, NEW g \in Gateway \ DryRun
  PROVE  Held(g, pass'[g], eni'[g], table')
<1>0. /\ Sound(g, pass[g], eni[g]) /\ pass[g] \in Pass /\ Held(g, pass[g], eni[g], table)
      /\ pass \in [Gateway -> Pass] /\ eni \in [Gateway -> Eni \cup {None}]
  BY Zenon DEF IInv, TypeOK, HeldInv
<1>1. Alike(pass[g], pass[g])
  BY Zenon DEF Alike
<1>2. CASE Step(g)
  BY <1>0, <1>2, QuietStepHeld, PrefixStepHeld, Zenon DEF Step
<1>3. ASSUME NEW h \in Gateway, h # g, Step(h)
      PROVE  Held(g, pass'[g], eni'[g], table')
  <2>1. pass'[g] = pass[g] /\ eni'[g] = eni[g]
    BY <1>0, <1>3, Zenon DEF Step, StartPass, ResolveCached, ResolveLookup, ResolveFails,
      Describe, DescribeFails, NoCall, CallSucceeds, CallAnswerLost, CallRefused,
      CallFails, EndPass
  <2>2. \A t \in Table, p \in (UNION Lists[g]) \ Edited : table'[t][p] = table[t][p]
    BY <1>3, OthersLeave, Zenon
  <2>3. Held(g, pass[g], eni[g], table')
    BY <1>0, <1>1, <2>2, HeldUndisturbed
  <2> QED
    BY <2>1, <2>3, Zenon
<1>4. CASE Environment
  <2>1. \A t \in Table, p \in (UNION Lists[g]) \ Edited : table'[t][p] = table[t][p]
    BY <1>4, SurroundingsLeave, Zenon
  <2>2. CASE Crash(g)
    BY <1>0, <2>2, IdleHeld, Zenon DEF Crash
  <2>3. CASE ~Crash(g)
    <3>1. /\ pass'[g] = pass[g] \/ pass'[g] = [pass[g] EXCEPT !.expired = TRUE]
          /\ eni'[g] = eni[g]
      BY <1>0, <1>4, <2>3, Zenon DEF Environment, Expire, Crash, Readdress,
        OperatorEdit, Blackhole
    <3> DEFINE n == [pass[g] EXCEPT !.expired = TRUE]
    <3>2. Alike(n, pass[g]) /\ n.failed = pass[g].failed
      BY <1>0, RecordsAlike, Zenon
    <3> HIDE DEF n
    <3>3. Held(g, n, eni[g], table') /\ Held(g, pass[g], eni[g], table')
      BY <1>0, <1>1, <2>1, <3>2, HeldUndisturbed
    <3> QED
      BY <3>1, <3>3, Zenon DEF n
  <2> QED
    BY <2>2, <2>3
<1>5. CASE UNCHANGED vars
  BY <1>0, <1>5, Zenon DEF vars
<1> QED
  BY <1>2, <1>3, <1>4, <1>5, Zenon DEF Next

LEMMA HeldRouted == OneInterface /\ IInv /\ HeldInv => RoutedWhenSuccessful
<1> SUFFICES ASSUME OneInterface, IInv, HeldInv, NEW g \in Gateway \ DryRun,
                    pass[g].pc = "report", ~pass[g].failed,
                    NEW t \in Table, NEW p \in pass[g].list \ Edited
             PROVE  table[t][p] = [target |-> EniOf[pass[g].hop], active |-> TRUE]
  BY Zenon DEF RoutedWhenSuccessful
<1> DEFINE s == pass[g]
<1>1. Sound(g, s, eni[g]) /\ Held(g, s, eni[g], table)
  BY Zenon DEF IInv, HeldInv
<1>2. s.hop \in AddrsOf[g] /\ eni[g] \in Owned(g) /\ s.at = NumTables + 1
  BY <1>1, Zenon DEF Held, Sound
<1>3. eni[g] = EniOf[s.hop]
  BY <1>2, Zenon DEF OneInterface, Owned
<1>4. t < s.at
  BY <1>2, AwsAssumption DEF AwsAssumption, Table
<1>5. Points(table, t, p, eni[g])
  BY <1>1, <1>4, Zenon DEF Held
<1> QED
  BY <1>3, <1>5, Zenon DEF Points

(***************************************************************************)
(* For an instance that no other one takes prefixes from, with one         *)
(* interface behind its addresses: a pass of Sync that reports no error    *)
(* has left every prefix of its list active and pointing at the instance   *)
(* in every table, but for those that others edit, whatever was there      *)
(* before and however the passes of other instances came in between.       *)
(***************************************************************************)
THEOREM SuccessMeansRouted ==
  ASSUME Alone, OneInterface
  PROVE  Spec => []RoutedWhenSuccessful
<1>1. Init => HeldInv
  <2>1. Init => \A g \in Gateway : pass[g] = Idle
    BY Zenon DEF Init
  <2> QED
    BY <2>1, IdleHeld, Zenon DEF HeldInv
<1>2. IInv /\ HeldInv /\ [Next]_vars => HeldInv'
  BY StepHeld, Zenon DEF HeldInv
<1>3. IInv /\ HeldInv => RoutedWhenSuccessful
  BY HeldRouted
<1> QED
  BY <1>1, <1>2, <1>3, InvariantHolds, PTL DEF Spec

=============================================================================
