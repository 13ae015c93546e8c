------------------------- MODULE LocalRoutesProofs -------------------------
(***************************************************************************)
(* Theorems about LocalRoutes, for every list of specs, every content of   *)
(* the kernel's table and any number of disturbances.                      *)
(***************************************************************************)
EXTENDS LocalRoutes, TLAPS

LEMMA ConfigType ==
  ASSUME NEW c \in Configurations
  PROVE  /\ c.specs \in Seq(RouteSpec) /\ Len(c.specs) \in Nat /\ DOMAIN c.specs = 1 .. Len(c.specs)
         /\ c.removeStale \in BOOLEAN /\ c.dryRun \in BOOLEAN
<1>1. c \in Config
  BY LocalAssumption
<1>2. c.specs \in Seq(RouteSpec) /\ c.removeStale \in BOOLEAN /\ c.dryRun \in BOOLEAN
  BY <1>1, Zenon DEF Config
<1> QED
  BY <1>2

LEMMA SpecsType ==
  ASSUME cfg \in Configurations
  PROVE  /\ specs \in Seq(RouteSpec) /\ Len(specs) \in Nat /\ DOMAIN specs = 1 .. Len(specs)
         /\ \A i \in 1 .. Len(specs) : specs[i] \in RouteSpec
  BY ConfigType DEF specs

-----------------------------------------------------------------------------
(* The state of a pass, as the steps of Sync change it: the sets by Zenon. *)

LEMMA IdleType == Idle \in Pass
<1>1. 1 \in Nat /\ None \in Hop \cup {None} /\ [p \in Prefix |-> None] \in [Prefix -> Target \cup {None}]
  OBVIOUS
<1> QED
  BY <1>1, Zenon DEF Idle, Pass

LEMMA FailType == ASSUME NEW s \in Pass PROVE Fail(s) \in Pass /\ Fail(s).at = s.at /\ Fail(s).pc = s.pc
  BY Zenon DEF Fail, Pass

LEMMA KeepType ==
  ASSUME NEW s \in Pass, NEW p \in Prefix
  PROVE  /\ Keep(s, p) \in Pass /\ Keep(s, p).at = s.at
         /\ Keep(s, p).desired = s.desired \cup {p}
<1>1. s.desired \cup {p} \in SUBSET Prefix
  BY DEF Pass
<1> QED
  BY <1>1, Zenon DEF Keep, Pass

LEMMA ChangedType ==
  ASSUME NEW s \in Pass, NEW p \in Prefix
  PROVE  /\ Changed(s, p) \in Pass /\ Changed(s, p).at = s.at
         /\ Changed(s, p).desired = s.desired /\ Changed(s, p).stale = s.stale
         /\ Changed(s, p).pc = s.pc
<1>1. s.changed \cup {p} \in SUBSET Prefix
  BY DEF Pass
<1> QED
  BY <1>1, Zenon DEF Changed, Pass

(* NextSpec takes a pass at one spec to the next, or past the last one.    *)
LEMMA NextSpecType ==
  ASSUME cfg \in Configurations, NEW s \in Pass, s.pc = "specs", s.at \in 0 .. Len(specs)
  PROVE  /\ NextSpec(s) \in Pass /\ NextSpec(s).at = s.at + 1
         /\ NextSpec(s).desired = s.desired
         /\ NextSpec(s).pc = "specs" => s.at < Len(specs)
         /\ NextSpec(s).pc = "stale" =>
              s.at = Len(specs) /\ NextSpec(s).stale \cap s.desired = {}
<1>1. s.at + 1 \in Nat /\ Len(specs) \in Nat
  BY SpecsType
<1>2. CASE s.at < Len(specs)
  <2>1. NextSpec(s) = [s EXCEPT !.at = s.at + 1]
    BY <1>2, Zenon DEF NextSpec
  <2>2. "specs" # "stale"
    OBVIOUS
  <2> QED
    BY <1>1, <1>2, <2>1, <2>2, Zenon DEF Pass
<1>3. CASE ~(s.at < Len(specs))
  <2> DEFINE stale == {p \in Prefix : s.current[p] # None} \ s.desired
             left == IF cfg.removeStale THEN stale ELSE {}
             pc == IF cfg.removeStale /\ stale # {} THEN "stale" ELSE "report"
  <2>1. NextSpec(s) = [s EXCEPT !.at = s.at + 1, !.stale = left, !.pc = pc]
    BY <1>3, Zenon DEF NextSpec
  <2>2. /\ left \in SUBSET Prefix /\ left \cap s.desired = {}
        /\ pc \in {"idle", "list", "specs", "stale", "report"} /\ pc # "specs"
    OBVIOUS
  <2> HIDE DEF stale, left, pc
  <2>3. s.at = Len(specs)
    BY <1>1, <1>3
  <2> QED
    BY <1>1, <2>1, <2>2, <2>3, Zenon DEF Pass
<1> QED
  BY <1>2, <1>3

LEMMA NextStaleType ==
  ASSUME NEW s \in Pass, NEW p
  PROVE  /\ NextStale(s, p) \in Pass /\ NextStale(s, p).at = s.at
         /\ NextStale(s, p).stale \subseteq s.stale
         /\ NextStale(s, p).pc \in {"report", "stale"}
<1>1. s.stale \ {p} \in SUBSET Prefix /\ s.stale \ {p} \subseteq s.stale
  BY DEF Pass
<1>2. (IF s.stale = {p} THEN "report" ELSE "stale") \in {"report", "stale"}
  OBVIOUS
<1>3. {"report", "stale"} \subseteq {"idle", "list", "specs", "stale", "report"}
  OBVIOUS
<1> QED
  BY <1>1, <1>2, <1>3, Zenon DEF NextStale, Pass

-----------------------------------------------------------------------------
(* Types, and what cleanup spares.                                         *)

(***************************************************************************)
(* Every spec with a target of its own that the pass is done with has its  *)
(* prefix among the desired; no such prefix is ever stale.                 *)
(***************************************************************************)
FixedInv ==
  /\ pass.pc \in {"idle", "list"} => pass.at = 1
  /\ pass.pc = "specs" =>
       \A i \in DOMAIN specs : i < pass.at /\ specs[i].target # Default => specs[i].prefix \in pass.desired
  /\ pass.pc = "stale" => pass.stale \cap Fixed = {}

PassOK == pass \in Pass /\ pass.at \in 1 .. Len(specs) + 1 /\ FixedInv

LocalInv == TypeOK /\ FixedInv

LEMMA AtSpecType ==
  ASSUME TypeOK, AtSpec
  PROVE  pass.at \in 1 .. Len(specs) /\ specs[pass.at] \in RouteSpec /\ Prefix1 \in Prefix
<1>1. pass.at \in 1 .. Len(specs)
  BY SpecsType DEF TypeOK, AtSpec
<1>2. specs[pass.at] \in RouteSpec
  BY <1>1, SpecsType DEF TypeOK
<1> QED
  BY <1>1, <1>2 DEF Prefix1, RouteSpec

LEMMA WantType ==
  ASSUME TypeOK, AtSpec, ~NeedsGateway
  PROVE  Want \in Target
<1>1. specs[pass.at].target \in Target \cup {Default}
  BY AtSpecType DEF RouteSpec
<1>2. pass.gateway \in Hop \cup {None}
  BY DEF TypeOK, Pass
<1> QED
  BY <1>1, <1>2 DEF Want, NeedsGateway, Target

LEMMA SpecDone ==
  ASSUME LocalInv, AtSpec, NEW s \in Pass, s.at = pass.at, s.pc = "specs",
         pass.desired \subseteq s.desired,
         specs[pass.at].target # Default => Prefix1 \in s.desired,
         pass' = NextSpec(s), cfg' = cfg
  PROVE  PassOK'
<1>1. /\ pass.at \in 1 .. Len(specs) /\ Len(specs) \in Nat /\ DOMAIN specs = 1 .. Len(specs)
      /\ specs' = specs /\ Fixed' = Fixed /\ cfg \in Configurations
  BY AtSpecType, SpecsType DEF LocalInv, TypeOK, specs, Fixed
<1>2. /\ pass' \in Pass /\ pass'.at = pass.at + 1
      /\ pass'.desired = s.desired
      /\ pass'.pc = "stale" => pass.at = Len(specs) /\ pass'.stale \cap s.desired = {}
      /\ pass'.pc \in {"specs", "stale", "report"}
  <2>1. s.at \in 0 .. Len(specs)
    BY <1>1
  <2>2. pass'.pc \in {"specs", "stale", "report"}
    BY Zenon DEF NextSpec, Pass
  <2> QED
    BY <1>1, <2>1, <2>2, NextSpecType
<1>3. \A i \in DOMAIN specs : i < pass.at + 1 /\ specs[i].target # Default =>
        specs[i].prefix \in s.desired
  <2>1. \A i \in DOMAIN specs : i < pass.at + 1 => i = pass.at \/ i < pass.at
    BY <1>1
  <2>2. pass.pc = "specs"
    BY DEF AtSpec
  <2> QED
    BY <2>1, <2>2, Zenon DEF LocalInv, FixedInv, Prefix1
<1>4. pass'.pc = "stale" => pass'.stale \cap Fixed = {}
  <2> SUFFICES ASSUME pass'.pc = "stale" PROVE Fixed \subseteq s.desired
    BY <1>2
  <2>1. \A i \in DOMAIN specs : i < pass.at + 1
    BY <1>1, <1>2
  <2> QED
    BY <1>3, <2>1, Zenon DEF Fixed
<1> QED
  BY <1>1, <1>2, <1>3, <1>4 DEF PassOK, FixedInv

LEMMA StaleDone ==
  ASSUME LocalInv, NEW s \in Pass, s.at = pass.at, s.stale = pass.stale, pass.pc = "stale", NEW p,
         pass' = NextStale(s, p), cfg' = cfg
  PROVE  PassOK'
<1>1. /\ pass' \in Pass /\ pass'.at = pass.at /\ pass'.stale \subseteq pass.stale
      /\ pass'.pc \in {"report", "stale"}
  BY NextStaleType
<1>2. specs' = specs /\ Fixed' = Fixed
  BY DEF specs, Fixed
<1> QED
  BY <1>1, <1>2 DEF PassOK, LocalInv, TypeOK, FixedInv

LEMMA IdleOK ==
  ASSUME pass' = Idle, cfg' \in Configurations
  PROVE  PassOK'
<1>1. Len(specs') \in Nat
  BY ConfigType DEF specs
<1>2. pass' \in Pass /\ pass'.at = 1 /\ pass'.pc = "idle"
  BY IdleType, Zenon DEF Idle
<1> QED
  BY <1>1, <1>2 DEF PassOK, FixedInv

LEMMA StepPass == LocalInv /\ [Next]_vars => PassOK'
<1> SUFFICES ASSUME LocalInv, [Next]_vars PROVE PassOK'
  OBVIOUS
<1>0. pass \in Pass /\ cfg \in Configurations /\ pass.at \in 1 .. Len(specs) + 1 /\ FixedInv
  BY DEF LocalInv, TypeOK
<1>a. ASSUME UNCHANGED <<cfg, pass>> PROVE PassOK'
  BY <1>0, <1>a DEF PassOK, FixedInv, specs, Fixed
<1>1. CASE StartPass
  <2>1. /\ pass' \in Pass /\ pass'.at = pass.at /\ pass.pc = "idle" /\ pass'.pc = "list"
    BY <1>0, <1>1, "list" \in {"idle", "list", "specs", "stale", "report"}, Zenon DEF StartPass, Pass
  <2>2. specs' = specs
    BY <1>1 DEF StartPass, specs
  <2> QED
    BY <1>0, <2>1, <2>2 DEF PassOK, FixedInv
<1>2. CASE List
  <2> DEFINE s == [pass EXCEPT !.pc = "specs", !.current = Listed]
  <2>1. Listed \in [Prefix -> Target \cup {None}]
    BY LocalAssumption DEF Listed, Ours, LocalInv, TypeOK, Route
  <2>2. s \in Pass /\ s.at = 1 /\ s.pc = "specs"
    <3>1. s \in Pass /\ s.at = pass.at /\ s.pc = "specs"
      BY <1>0, <2>1, "specs" \in {"idle", "list", "specs", "stale", "report"}, Zenon DEF Pass
    <3>2. pass.at = 1
      BY <1>0, <1>2 DEF List, FixedInv
    <3> QED
      BY <3>1, <3>2
  <2>3. pass' = FirstSpec(s) /\ cfg' = cfg /\ specs' = specs
    BY <1>2 DEF List, specs
  <2> HIDE DEF s
  <2>4. CASE specs = <<>>
    <3>1. [s EXCEPT !.at = 0] \in Pass /\ [s EXCEPT !.at = 0].at = 0 /\ [s EXCEPT !.at = 0].pc = "specs"
      <4>1. \A n \in Nat : /\ [s EXCEPT !.at = n] \in Pass
                           /\ [s EXCEPT !.at = n].at = n
                           /\ [s EXCEPT !.at = n].pc = s.pc
        <5>1. s \in Pass
          BY <2>2
        <5> QED
          BY <5>1, Zenon DEF Pass
      <4>2. 0 \in Nat
        OBVIOUS
      <4> QED
        BY <2>2, <4>1, <4>2
    <3>2. pass' = NextSpec([s EXCEPT !.at = 0]) /\ Len(specs) = 0
      BY <2>3, <2>4 DEF FirstSpec
    <3>3. pass' \in Pass /\ pass'.at = 1
      <4> DEFINE n == [s EXCEPT !.at = 0]
      <4>1. n \in Pass /\ n.at = 0 /\ n.pc = "specs" /\ pass' = NextSpec(n)
        BY <3>1, <3>2, Zenon
      <4> HIDE DEF n
      <4>2. n.at \in 0 .. Len(specs) /\ n.at + 1 = 1
        BY <3>2, <4>1
      <4> QED
        BY <1>0, <4>1, <4>2, NextSpecType
    <3>4. pass'.pc \in {"specs", "stale", "report"}
      BY <3>1, <3>2, Zenon DEF NextSpec, Pass
    <3>5. Fixed' = {} /\ DOMAIN specs = {}
      BY <2>3, <2>4 DEF Fixed
    <3> QED
      BY <2>3, <3>2, <3>3, <3>4, <3>5 DEF PassOK, FixedInv
  <2>5. CASE specs # <<>>
    <3>1. pass' = s /\ Len(specs) \in Nat /\ DOMAIN specs = 1 .. Len(specs)
      BY <1>0, <2>3, <2>5, SpecsType DEF FirstSpec
    <3> QED
      BY <2>2, <2>3, <3>1 DEF PassOK, FixedInv
  <2> QED
    BY <2>4, <2>5
<1>3. CASE ListFails
  <2>1. Fail(pass) \in Pass /\ Fail(pass).at = pass.at
    BY <1>0, FailType
  <2>2. pass' \in Pass /\ pass'.at = pass.at /\ pass'.pc = "report"
    BY <1>3, <2>1, "report" \in {"idle", "list", "specs", "stale", "report"}, Zenon DEF ListFails, Pass
  <2>3. specs' = specs
    BY <1>3 DEF ListFails, specs
  <2> QED
    BY <1>0, <2>2, <2>3 DEF PassOK, FixedInv
<1>4. CASE ResolveDefault
  <2>1. gateway \in Hop \cup {None}
    BY DEF LocalInv, TypeOK
  <2>2. pass' \in Pass /\ pass'.at = pass.at /\ pass'.pc = pass.pc /\ pass'.desired = pass.desired
        /\ pass'.stale = pass.stale
    BY <1>0, <1>4, <2>1, Zenon DEF ResolveDefault, Pass
  <2>3. specs' = specs /\ Fixed' = Fixed
    BY <1>4 DEF ResolveDefault, specs, Fixed
  <2> QED
    BY <1>0, <2>2, <2>3 DEF PassOK, FixedInv
<1>5. CASE ResolveFails
  <2>1. AtSpec /\ NeedsGateway /\ pass' = NextSpec(Fail(pass)) /\ cfg' = cfg
    BY <1>5, Zenon DEF ResolveFails
  <2>2. Fail(pass) \in Pass /\ Fail(pass).at = pass.at /\ Fail(pass).pc = "specs"
        /\ Fail(pass).desired = pass.desired
    BY <1>0, <2>1, FailType, Zenon DEF AtSpec, Fail, Pass
  <2> QED
    BY <2>1, <2>2, SpecDone DEF NeedsGateway
<1>6. ASSUME AtSpec, NEW s \in {pass, Fail(pass)}, cfg' = cfg,
             pass' = NextSpec(Keep(s, Prefix1)) \/ pass' = NextSpec(Changed(Keep(s, Prefix1), Prefix1))
      PROVE  PassOK'
  <2>1. Prefix1 \in Prefix
    BY <1>6, AtSpecType DEF LocalInv
  <2>2. s \in Pass /\ s.at = pass.at /\ s.pc = "specs" /\ s.desired = pass.desired
    <3>1. pass.pc = "specs"
      BY <1>6 DEF AtSpec
    <3>2. Fail(pass).desired = pass.desired /\ Fail(pass).pc = pass.pc
      BY <1>0, Zenon DEF Fail, Pass
    <3> QED
      BY <1>0, <1>6, <3>1, <3>2, FailType
  <2>3. /\ Keep(s, Prefix1) \in Pass /\ Keep(s, Prefix1).at = pass.at
        /\ Keep(s, Prefix1).desired = pass.desired \cup {Prefix1}
        /\ Keep(s, Prefix1).pc = "specs"
    BY <2>1, <2>2, KeepType, Zenon DEF Keep, Pass
  <2>4. PICK n \in Pass :
          /\ pass' = NextSpec(n) /\ n.at = pass.at /\ n.pc = "specs"
          /\ n.desired = pass.desired \cup {Prefix1}
    <3> DEFINE k == Keep(s, Prefix1)
               n == Changed(k, Prefix1)
    <3>1. n \in Pass /\ n.at = k.at /\ n.pc = k.pc /\ n.desired = k.desired
      BY <2>1, <2>3, ChangedType
    <3> HIDE DEF n
    <3>2. CASE pass' = NextSpec(k)
      BY <2>3, <3>2
    <3>3. CASE pass' = NextSpec(n)
      BY <2>3, <3>1, <3>3
    <3> QED
      BY <1>6, <3>2, <3>3 DEF n
  <2> QED
    BY <1>6, <2>4, SpecDone
<1>7. CASE LeaveAlone \/ ReplaceDry \/ Replace \/ ReplaceFails
  <2>1. /\ AtSpec /\ cfg' = cfg
        /\ \E s \in {pass, Fail(pass)} :
             pass' = NextSpec(Keep(s, Prefix1)) \/ pass' = NextSpec(Changed(Keep(s, Prefix1), Prefix1))
    BY <1>7, Zenon DEF LeaveAlone, ReplaceDry, Replace, ReplaceFails, Replaces
  <2> QED
    BY <1>6, <2>1, Zenon
<1>8. ASSUME NEW p \in Prefix, DeleteDry(p) \/ Delete(p) \/ DeleteRefused(p) \/ DeleteFails(p)
      PROVE  PassOK'
  <2>1. /\ pass.pc = "stale" /\ cfg' = cfg
        /\ pass' = NextStale(Changed(pass, p), p) \/ pass' = NextStale(Fail(pass), p)
    BY <1>8, Zenon DEF DeleteDry, Delete, DeleteRefused, DeleteFails, AtStale
  <2>2. Changed(pass, p) \in Pass /\ Changed(pass, p).at = pass.at /\ Changed(pass, p).stale = pass.stale
    BY <1>0, ChangedType
  <2>3. Fail(pass) \in Pass /\ Fail(pass).at = pass.at /\ Fail(pass).stale = pass.stale
    BY <1>0, FailType, Zenon DEF Fail, Pass
  <2> QED
    BY <2>1, <2>2, <2>3, StaleDone
<1>9. CASE EndPass \/ Restart
  <2>1. pass' = Idle /\ cfg' \in Configurations
    BY <1>0, <1>9 DEF EndPass, Restart
  <2> QED
    BY <2>1, IdleOK
<1>10. CASE ChangeGateway \/ (\E p \in Prefix : Edit(p)) \/ UNCHANGED vars
  BY <1>a, <1>10, Zenon DEF ChangeGateway, Edit, vars
<1> QED
  BY <1>1, <1>2, <1>3, <1>4, <1>5, <1>7, <1>8, <1>9, <1>10, Zenon DEF Next, Step, Surroundings

LEMMA StepTables == LocalInv /\ [Next]_vars =>
                      /\ kernel' \in [Prefix -> Route \cup {None}]
                      /\ gateway' \in Hop \cup {None}
                      /\ cfg' \in Configurations
                      /\ touched' \subseteq Prefix
                      /\ budget' \in 0 .. MaxDisturbances
<1> SUFFICES ASSUME TypeOK, [Next]_vars
             PROVE  /\ kernel' \in [Prefix -> Route \cup {None}]
                    /\ gateway' \in Hop \cup {None}
                    /\ cfg' \in Configurations
                    /\ touched' \subseteq Prefix
                    /\ budget' \in 0 .. MaxDisturbances
  BY DEF LocalInv
<1>0. /\ kernel \in [Prefix -> Route \cup {None}] /\ gateway \in Hop \cup {None}
      /\ cfg \in Configurations /\ touched \subseteq Prefix /\ budget \in 0 .. MaxDisturbances
  BY DEF TypeOK
<1>a. ASSUME NEW kind, Disturb(kind) PROVE budget' \in 0 .. MaxDisturbances
  BY <1>0, <1>a, LocalAssumption DEF Disturb
<1>1. CASE Replace \/ ReplaceFails
  <2>1. AtSpec /\ ~NeedsGateway
    BY <1>1, Zenon DEF Replace, ReplaceFails, Replaces
  <2>2. [ours |-> TRUE, target |-> Want] \in Route
    BY <2>1, WantType, Zenon DEF Route
  <2>3. kernel' \in [Prefix -> Route \cup {None}]
    <3>1. kernel' = [kernel EXCEPT ![Prefix1] = [ours |-> TRUE, target |-> Want]] \/ kernel' = kernel
      BY <1>1, Zenon DEF Replace, ReplaceFails, IpReplace
    <3> QED
      BY <1>0, <2>2, <3>1
  <2>4. budget' = budget \/ Disturb("fault")
    BY <1>1, Zenon DEF Replace, ReplaceFails
  <2> QED
    BY <1>0, <1>1, <1>a, <2>3, <2>4 DEF Replace, ReplaceFails
<1>2. ASSUME NEW p \in Prefix, DeleteDry(p) \/ Delete(p) \/ DeleteRefused(p) \/ DeleteFails(p)
      PROVE  /\ kernel' \in [Prefix -> Route \cup {None}]
             /\ budget' \in 0 .. MaxDisturbances /\ UNCHANGED <<gateway, cfg, touched>>
  <2>1. kernel' = [kernel EXCEPT ![p] = None] \/ kernel' = kernel
    BY <1>2, Zenon DEF DeleteDry, Delete, DeleteRefused, DeleteFails, IpDelete
  <2>2. budget' = budget \/ Disturb("fault")
    BY <1>2, Zenon DEF DeleteDry, Delete, DeleteRefused, DeleteFails
  <2>3. UNCHANGED <<gateway, cfg, touched>>
    BY <1>2, Zenon DEF DeleteDry, Delete, DeleteRefused, DeleteFails
  <2> QED
    BY <1>0, <1>a, <2>1, <2>2, <2>3
<1>3. CASE Restart \/ ChangeGateway
  BY <1>0, <1>3, <1>a DEF Restart, ChangeGateway
<1>4. ASSUME NEW p \in Prefix, Edit(p)
      PROVE  /\ kernel' \in [Prefix -> Route \cup {None}]
             /\ touched' \subseteq Prefix
             /\ budget' \in 0 .. MaxDisturbances /\ UNCHANGED <<gateway, cfg>>
  <2>1. PICK r \in [ours : {FALSE}, target : Hop] \cup {None} : kernel' = [kernel EXCEPT ![p] = r]
    BY <1>4 DEF Edit
  <2>2. r \in Route \cup {None}
    BY <2>1 DEF Route, Target
  <2> QED
    BY <1>0, <1>4, <1>a, <2>1, <2>2 DEF Edit
<1>5. CASE \/ StartPass \/ List \/ ListFails \/ ResolveDefault \/ ResolveFails
           \/ LeaveAlone \/ ReplaceDry \/ EndPass \/ UNCHANGED vars
  <2>1. /\ UNCHANGED <<kernel, gateway, cfg>> /\ touched' \in {touched, {}}
        /\ budget' = budget \/ Disturb("fault")
    BY <1>5, Zenon DEF StartPass, List, ListFails, ResolveDefault, ResolveFails, LeaveAlone,
       ReplaceDry, EndPass, vars
  <2> QED
    BY <1>0, <1>a, <2>1
<1> QED
  BY <1>0, <1>1, <1>2, <1>3, <1>4, <1>5, Zenon DEF Next, Step, Surroundings

LEMMA LocalInvHolds == Spec => []LocalInv
<1>1. Init => LocalInv
  <2> SUFFICES ASSUME Init PROVE LocalInv
    OBVIOUS
  <2>1. Len(specs) \in Nat
    BY SpecsType DEF Init
  <2>2. pass \in Pass /\ pass.at = 1 /\ pass.pc = "idle"
    BY IdleType, Zenon DEF Init, Idle
  <2> QED
    BY <2>1, <2>2, LocalAssumption DEF Init, LocalInv, TypeOK, FixedInv
<1>2. PassOK' /\ kernel' \in [Prefix -> Route \cup {None}] /\ gateway' \in Hop \cup {None}
      /\ cfg' \in Configurations /\ touched' \subseteq Prefix
      /\ budget' \in 0 .. MaxDisturbances => LocalInv'
  BY Zenon DEF PassOK, LocalInv, TypeOK
<1> QED
  BY <1>1, <1>2, StepPass, StepTables, PTL DEF Spec

(* Table, configuration and pass stay what Sync works with.                *)
THEOREM TypeCorrect == Spec => []TypeOK
<1>1. LocalInv => TypeOK
  BY DEF LocalInv
<1> QED
  BY <1>1, LocalInvHolds, PTL

-----------------------------------------------------------------------------
(* What a step of Sync does to the table.                                  *)

LEMMA TableStep ==
  ASSUME LocalInv, Step
  PROVE  \/ kernel' = kernel
         \/ /\ ~cfg.dryRun /\ Prefix1 \in Configured
            /\ \E t \in Target : kernel' = [kernel EXCEPT ![Prefix1] = [ours |-> TRUE, target |-> t]]
         \/ /\ ~cfg.dryRun /\ pass.pc = "stale"
            /\ \E p \in pass.stale : Ours(p) /\ kernel' = [kernel EXCEPT ![p] = None]
<1>1. CASE Replace \/ ReplaceFails
  <2>1. AtSpec /\ ~NeedsGateway /\ ~cfg.dryRun
    BY <1>1, Zenon DEF Replace, ReplaceFails, Replaces
  <2>2. kernel' = kernel \/ kernel' = [kernel EXCEPT ![Prefix1] = [ours |-> TRUE, target |-> Want]]
    BY <1>1, Zenon DEF Replace, ReplaceFails, IpReplace
  <2>3. Want \in Target
    BY <2>1, WantType DEF LocalInv
  <2>4. Prefix1 \in Configured
    BY <2>1, AtSpecType, SpecsType DEF LocalInv, TypeOK, Prefix1, Configured
  <2> QED
    BY <2>1, <2>2, <2>3, <2>4
<1>2. ASSUME NEW p \in Prefix, DeleteDry(p) \/ Delete(p) \/ DeleteRefused(p) \/ DeleteFails(p)
      PROVE  \/ kernel' = kernel
             \/ /\ ~cfg.dryRun /\ pass.pc = "stale" /\ p \in pass.stale /\ Ours(p)
                /\ kernel' = [kernel EXCEPT ![p] = None]
  BY <1>2, Zenon DEF DeleteDry, Delete, DeleteRefused, DeleteFails, AtStale, IpDelete
<1>3. CASE \/ StartPass \/ List \/ ListFails \/ ResolveDefault \/ ResolveFails
           \/ LeaveAlone \/ ReplaceDry \/ EndPass
  BY <1>3, Zenon DEF StartPass, List, ListFails, ResolveDefault, ResolveFails, LeaveAlone,
     ReplaceDry, EndPass
<1> QED
  BY <1>1, <1>2, <1>3, Zenon DEF Step

(* Cleanup: a route that is not the service's is never deleted, and where  *)
(* nothing is configured it stays as it is; under dry-run nothing changes. *)
THEOREM ForeignSpared == Spec => ForeignNotDeleted
<1>1. ASSUME LocalInv, Step, NEW p \in Prefix, Foreign(p)
      PROVE  \/ kernel'[p] = kernel[p]
             \/ p \in Configured /\ Ours(p)'
  <2> USE <1>1
  <2>1. CASE kernel' = kernel
    BY <2>1
  <2>2. ASSUME NEW t \in Target, ~cfg.dryRun, Prefix1 \in Configured,
               kernel' = [kernel EXCEPT ![Prefix1] = [ours |-> TRUE, target |-> t]]
        PROVE  \/ kernel'[p] = kernel[p]
               \/ p \in Configured /\ Ours(p)'
    <3>1. CASE p = Prefix1
      <4> DEFINE r == [ours |-> TRUE, target |-> t]
      <4>1. r \in Route /\ r.ours
        BY <2>2, Zenon DEF Route
      <4>2. kernel'[p] = r
        BY <2>2, <3>1 DEF LocalInv, TypeOK
      <4>3. r # None
        BY <4>1, LocalAssumption
      <4> HIDE DEF r
      <4> QED
        BY <2>2, <3>1, <4>1, <4>2, <4>3, Zenon DEF Ours
    <3>2. CASE p # Prefix1
      BY <2>2, <3>2 DEF LocalInv, TypeOK
    <3> QED
      BY <3>1, <3>2
  <2>3. ASSUME NEW q \in pass.stale, ~cfg.dryRun, Ours(q), kernel' = [kernel EXCEPT ![q] = None]
        PROVE  kernel'[p] = kernel[p]
    <3>1. p # q
      BY <2>3 DEF Foreign
    <3> QED
      BY <2>3, <3>1 DEF LocalInv, TypeOK
  <2> QED
    BY <2>1, <2>2, <2>3, TableStep, Zenon
<1>2. LocalInv /\ Step /\ cfg.dryRun => kernel' = kernel
  BY TableStep, Zenon
<1>3. LocalInv /\ Step => /\ \A p \in Prefix : Foreign(p) =>
                               /\ kernel'[p] # None
                               /\ p \notin Configured => kernel'[p] = kernel[p]
                          /\ cfg.dryRun => kernel' = kernel
  BY <1>1, <1>2, Zenon DEF Foreign, Ours
<1> QED
  BY <1>3, LocalInvHolds, PTL DEF Spec, ForeignNotDeleted

(* Sync's cleanup: what is configured with a target of its own stays.      *)
THEOREM FixedSpared == Spec => FixedNotDeleted
<1>1. LocalInv /\ Step => \A p \in Fixed : kernel[p] # None => kernel'[p] # None
  <2> SUFFICES ASSUME LocalInv, Step, NEW p \in Fixed, kernel[p] # None PROVE kernel'[p] # None
    OBVIOUS
  <2>0. p \in Prefix
    BY SpecsType DEF LocalInv, TypeOK, Fixed, RouteSpec
  <2>1. CASE kernel' = kernel
    BY <2>1
  <2>2. ASSUME NEW t \in Target,
               kernel' = [kernel EXCEPT ![Prefix1] = [ours |-> TRUE, target |-> t]]
        PROVE  kernel'[p] # None
    <3> DEFINE r == [ours |-> TRUE, target |-> t]
    <3>1. r \in Route
      BY <2>2, Zenon DEF Route
    <3>2. r # None
      BY <3>1, LocalAssumption
    <3>3. kernel' = [kernel EXCEPT ![Prefix1] = r]
      BY <2>2
    <3> HIDE DEF r
    <3> QED
      BY <2>0, <3>2, <3>3 DEF LocalInv, TypeOK
  <2>3. ASSUME NEW q \in pass.stale, pass.pc = "stale", kernel' = [kernel EXCEPT ![q] = None]
        PROVE  kernel'[p] # None
    <3>1. p # q
      BY <2>3 DEF LocalInv, FixedInv
    <3> QED
      BY <2>0, <2>3, <3>1 DEF LocalInv, TypeOK
  <2> QED
    BY <2>1, <2>2, <2>3, TableStep, Zenon
<1> QED
  BY <1>1, LocalInvHolds, PTL DEF Spec, FixedNotDeleted

-----------------------------------------------------------------------------
(* What a pass without error knows of the table.                           *)

Holds(k, p) == k[p] # None /\ k[p].ours

Targets(s, p) ==
  {IF specs[i].target = Default THEN s.gateway ELSE specs[i].target :
     i \in {j \in DOMAIN specs : specs[j].prefix = p}}

(***************************************************************************)
(* Of a table k, in which others have changed the routes t, and the state  *)
(* s of a pass: what is desired is placed; what has not had its turn is as *)
(* it was listed; what list would have seen and did not is not ours; the   *)
(* first n specs are done.                                                 *)
(***************************************************************************)
Placed(k, t, s) == \A p \in s.desired \ t : Holds(k, p) /\ k[p].target \in Targets(s, p)

AsListed(k, t, s) ==
  \A p \in Prefix \ (s.desired \cup t) :
    s.current[p] # None => Holds(k, p) /\ k[p].target = s.current[p]

Unseen(k, s) == \A p \in Prefix \ (s.desired \cup Unlisted) : s.current[p] = None => ~Holds(k, p)

Done(s, n) ==
  /\ s.desired \subseteq Configured
  /\ \A i \in DOMAIN specs : i =< n => specs[i].prefix \in s.desired

Knows(k, t, s) ==
  /\ Placed(k, t, s)
  /\ s.pc = "specs" => AsListed(k, t, s) /\ Unseen(k, s) /\ Done(s, s.at - 1)
  /\ s.pc \in {"stale", "report"} => Done(s, Len(specs))
  /\ s.pc = "stale" => s.stale \cap s.desired = {}
  /\ s.pc \in {"stale", "report"} /\ cfg.removeStale =>
       \A p \in Prefix \ (s.desired \cup Unlisted) : Holds(k, p) => s.pc = "stale" /\ p \in s.stale

SyncInv ==
  /\ pass.pc \in {"idle", "list"} => pass.desired = {} /\ touched = {}
  /\ pass.pc \in {"specs", "stale", "report"} /\ ~pass.failed /\ ~cfg.dryRun =>
       Knows(kernel, touched, pass)

Stale(s) == {p \in Prefix : s.current[p] # None} \ s.desired

LEMMA NextSpecFields ==
  ASSUME cfg \in Configurations, NEW s \in Pass, s.pc = "specs", s.at \in 0 .. Len(specs)
  PROVE  LET n == NextSpec(s) IN
         /\ n.current = s.current /\ n.gateway = s.gateway /\ n.failed = s.failed
         /\ n.desired = s.desired /\ n.at = s.at + 1
         /\ s.at < Len(specs) => n.pc = "specs"
         /\ ~(s.at < Len(specs)) =>
              /\ n.pc = IF cfg.removeStale /\ Stale(s) # {} THEN "stale" ELSE "report"
              /\ n.stale = IF cfg.removeStale THEN Stale(s) ELSE {}
<1>1. CASE s.at < Len(specs)
  <2>1. NextSpec(s) = [s EXCEPT !.at = s.at + 1]
    BY <1>1, Zenon DEF NextSpec
  <2> QED
    BY <1>1, <2>1, Zenon DEF Pass
<1>2. CASE ~(s.at < Len(specs))
  <2>1. NextSpec(s) = [s EXCEPT !.at = s.at + 1,
                         !.stale = IF cfg.removeStale THEN Stale(s) ELSE {},
                         !.pc = IF cfg.removeStale /\ Stale(s) # {} THEN "stale" ELSE "report"]
    BY <1>2, Zenon DEF NextSpec, Stale
  <2> QED
    BY <1>2, <2>1, Zenon DEF Pass
<1> QED
  BY <1>1, <1>2

(* A spec is done, or there is none: the pass goes on with what it knows.  *)
LEMMA NextSpecKnows ==
  ASSUME cfg \in Configurations, NEW s \in Pass, s.pc = "specs", s.at \in 0 .. Len(specs),
         NEW k, NEW t,
         Placed(k, t, s), AsListed(k, t, s), Unseen(k, s), Done(s, s.at)
  PROVE  Knows(k, t, NextSpec(s))
<1> DEFINE n == NextSpec(s)
<1>1. /\ n.current = s.current /\ n.gateway = s.gateway /\ n.desired = s.desired /\ n.at = s.at + 1
      /\ s.at < Len(specs) => n.pc = "specs"
      /\ ~(s.at < Len(specs)) =>
           /\ n.pc = IF cfg.removeStale /\ Stale(s) # {} THEN "stale" ELSE "report"
           /\ n.stale = IF cfg.removeStale THEN Stale(s) ELSE {}
  BY NextSpecFields
<1> HIDE DEF n
<1>2. Placed(k, t, n) /\ AsListed(k, t, n) /\ Unseen(k, n)
  BY <1>1 DEF Placed, AsListed, Unseen, Targets
<1>3. CASE s.at < Len(specs)
  <2>1. n.at - 1 = s.at
    BY <1>1, SpecsType
  <2>2. Done(n, n.at - 1)
    BY <1>1, <2>1 DEF Done
  <2> QED
    BY <1>1, <1>2, <1>3, <2>2 DEF Knows, n
<1>4. CASE ~(s.at < Len(specs))
  <2>1. s.at = Len(specs)
    BY <1>4, SpecsType
  <2>2. Done(n, Len(specs))
    BY <1>1, <2>1 DEF Done
  <2>3. n.pc # "specs" /\ (n.pc = "stale" => n.stale \cap n.desired = {})
    BY <1>1, <1>4 DEF Stale
  <2>4. ASSUME cfg.removeStale, NEW p \in Prefix \ (n.desired \cup Unlisted), Holds(k, p)
        PROVE  n.pc = "stale" /\ p \in n.stale
    <3>1. s.current[p] # None
      BY <1>1, <2>4 DEF Unseen
    <3>2. p \in Stale(s)
      BY <1>1, <2>4, <3>1 DEF Stale
    <3> QED
      BY <1>1, <1>4, <2>4, <3>2
  <2> QED
    BY <1>2, <2>2, <2>3, <2>4 DEF Knows, n
<1> QED
  BY <1>3, <1>4

LEMMA NextStaleKnows ==
  ASSUME NEW s \in Pass, s.pc = "stale", NEW p \in s.stale,
         NEW k \in [Prefix -> Route \cup {None}], NEW t, Knows(k, t, s)
  PROVE  Knows([k EXCEPT ![p] = None], t, NextStale(s, p))
<1> DEFINE n == NextStale(s, p)
           l == [k EXCEPT ![p] = None]
<1>1. /\ n.gateway = s.gateway /\ n.desired = s.desired /\ n.stale = s.stale \ {p}
      /\ n.pc = IF s.stale = {p} THEN "report" ELSE "stale"
  BY Zenon DEF NextStale, Pass
<1>2. p \in Prefix /\ s.desired \subseteq Prefix /\ p \notin s.desired
  BY DEF Pass, Knows
<1>3. \A q \in Prefix : q # p => (Holds(l, q) <=> Holds(k, q)) /\ l[q] = k[q]
  BY DEF Holds
<1>4. ~Holds(l, p)
  BY <1>2 DEF Holds
<1> HIDE DEF n, l
<1>5. Placed(l, t, n)
  <2>1. Placed(k, t, s)
    BY DEF Knows
  <2>2. \A q : Targets(n, q) = Targets(s, q)
    BY <1>1 DEF Targets
  <2> QED
    BY <1>1, <1>2, <1>3, <2>1, <2>2 DEF Placed
<1>6. n.pc \in {"stale", "report"} /\ Done(n, Len(specs)) /\ n.stale \cap n.desired = {}
  BY <1>1 DEF Knows, Done
<1>7. ASSUME cfg.removeStale, NEW q \in Prefix \ (n.desired \cup Unlisted), Holds(l, q)
      PROVE  n.pc = "stale" /\ q \in n.stale
  BY <1>1, <1>2, <1>3, <1>4, <1>7 DEF Knows
<1> QED
  BY <1>5, <1>6, <1>7 DEF Knows, n, l

LEMMA KnowsAfter ==
  ASSUME cfg' = cfg, Knows(kernel', touched', pass')
  PROVE  Knows(kernel, touched, pass)'
<1>1. specs' = specs /\ Configured' = Configured /\ cfg'.removeStale = cfg.removeStale
  BY DEF specs, Configured
<1>2. ASSUME NEW p PROVE Targets(pass, p)' = Targets(pass', p)
  BY <1>1 DEF Targets
<1>3. Placed(kernel, touched, pass)'
  <2>1. Placed(kernel', touched', pass')
    BY DEF Knows
  <2> QED
    BY <1>2, <2>1, Zenon DEF Placed, Holds
<1>4. /\ AsListed(kernel, touched, pass)' <=> AsListed(kernel', touched', pass')
      /\ Unseen(kernel, pass)' <=> Unseen(kernel', pass')
  BY Zenon DEF AsListed, Unseen, Holds
<1>5. ASSUME NEW n PROVE Done(pass, n)' <=> Done(pass', n)
  BY <1>1 DEF Done
<1>6. /\ pass'.pc = "specs" => Done(pass', pass'.at - 1)
      /\ pass'.pc \in {"stale", "report"} => Done(pass', Len(specs))
  BY Zenon DEF Knows
<1>7. /\ (pass.pc = "specs" => Done(pass, pass.at - 1))'
      /\ (pass.pc \in {"stale", "report"} => Done(pass, Len(specs)))'
  BY <1>1, <1>6 DEF Done
<1> QED
  BY <1>1, <1>3, <1>4, <1>7, Zenon DEF Knows, Holds

(* A table just listed: nothing is desired yet, all is as it was listed.   *)
LEMMA ListingKnows ==
  ASSUME TypeOK, NEW s \in Pass, s.desired = {}, s.current = Listed
  PROVE  /\ Placed(kernel, {}, s) /\ AsListed(kernel, {}, s) /\ Unseen(kernel, s)
         /\ Done(s, 0)
<1>1. \A p \in Prefix :
        s.current[p] = IF Holds(kernel, p) /\ p \notin Unlisted THEN kernel[p].target ELSE None
  BY Zenon DEF Listed, Ours, Holds
<1>2. \A p \in Prefix : Holds(kernel, p) => kernel[p].target # None
  BY LocalAssumption DEF TypeOK, Holds, Route
<1>3. \A i \in DOMAIN specs : ~(i =< 0)
  BY SpecsType DEF TypeOK
<1> QED
  BY <1>1, <1>2, <1>3 DEF Placed, AsListed, Unseen, Done

LEMMA WantIsTarget ==
  ASSUME TypeOK, AtSpec, ~NeedsGateway
  PROVE  Want \in Targets(pass, Prefix1)
<1>1. pass.at \in DOMAIN specs
  BY AtSpecType, SpecsType DEF TypeOK
<1> QED
  BY <1>1, Zenon DEF Want, Targets, Prefix1

LEMMA PrefixDone ==
  ASSUME TypeOK, AtSpec, Done(pass, pass.at - 1), NEW s,
         s.desired = pass.desired \cup {Prefix1}, s.at = pass.at
  PROVE  Done(s, s.at)
<1>1. pass.at \in DOMAIN specs /\ pass.at \in Nat /\ DOMAIN specs \subseteq Nat
  BY AtSpecType, SpecsType DEF TypeOK
<1>2. \A i \in DOMAIN specs : i =< pass.at => i = pass.at \/ i =< pass.at - 1
  BY <1>1
<1>3. Prefix1 \in Configured
  BY <1>1, Zenon DEF Prefix1, Configured
<1>4. s.desired \subseteq Configured
  BY <1>3 DEF Done
<1>5. \A i \in DOMAIN specs : i =< s.at => specs[i].prefix \in s.desired
  BY <1>2 DEF Done, Prefix1
<1> QED
  BY <1>4, <1>5 DEF Done

(* A spec whose route was listed as it should be, or has been placed.      *)
LEMMA LeaveAloneKnows ==
  ASSUME LocalInv, pass.pc = "specs", LeaveAlone, Knows(kernel, touched, pass)
  PROVE  Knows(kernel, touched, NextSpec(Keep(pass, Prefix1)))
<1> DEFINE s == Keep(pass, Prefix1)
<1>1. /\ AtSpec /\ ~NeedsGateway /\ pass \in Pass /\ cfg \in Configurations /\ TypeOK
      /\ Prefix1 \in Prefix /\ pass.at \in 1 .. Len(specs) /\ Want \in Target
      /\ pass.current[Prefix1] = Want
  BY AtSpecType, WantType DEF LocalInv, TypeOK, LeaveAlone, UpToDate
<1>2. /\ s \in Pass /\ s.at = pass.at /\ s.pc = "specs"
      /\ s.desired = pass.desired \cup {Prefix1} /\ s.current = pass.current
      /\ s.gateway = pass.gateway
  BY <1>1, KeepType, Zenon DEF Keep, Pass
<1> HIDE DEF s
<1>3. /\ Placed(kernel, touched, pass) /\ AsListed(kernel, touched, pass)
      /\ Unseen(kernel, pass) /\ Done(pass, pass.at - 1)
  BY Zenon DEF Knows
<1>4. \A q : Targets(s, q) = Targets(pass, q)
  BY <1>2 DEF Targets
<1>5. Want # None
  BY <1>1, LocalAssumption
<1>6. ASSUME NEW q \in s.desired \ touched
      PROVE  Holds(kernel, q) /\ kernel[q].target \in Targets(pass, q)
  <2>1. CASE q \in pass.desired
    BY <1>3, <1>6, <2>1 DEF Placed
  <2>2. CASE q \notin pass.desired
    <3>1. q = Prefix1 /\ Prefix1 \in Prefix \ (pass.desired \cup touched)
      BY <1>1, <1>2, <1>6, <2>2
    <3>2. Holds(kernel, Prefix1) /\ kernel[Prefix1].target = Want
      BY <1>1, <1>3, <1>5, <3>1, Zenon DEF AsListed
    <3> QED
      BY <1>1, <3>1, <3>2, WantIsTarget
  <2> QED
    BY <2>1, <2>2
<1>7. Placed(kernel, touched, s) /\ AsListed(kernel, touched, s) /\ Unseen(kernel, s)
  BY <1>2, <1>3, <1>4, <1>6 DEF Placed, AsListed, Unseen
<1>8. Done(s, s.at) /\ s.at \in 0 .. Len(specs)
  BY <1>1, <1>2, <1>3, PrefixDone
<1> QED
  BY <1>1, <1>2, <1>7, <1>8, NextSpecKnows DEF s

(* A spec whose route has been replaced, whatever was there before.        *)
LEMMA ReplaceKnows ==
  ASSUME LocalInv, pass.pc = "specs", Replace, Knows(kernel, touched, pass)
  PROVE  Knows(kernel', touched', pass')
<1> DEFINE s == Changed(Keep(pass, Prefix1), Prefix1)
<1>1. /\ AtSpec /\ ~NeedsGateway /\ pass \in Pass /\ cfg \in Configurations /\ TypeOK
      /\ Prefix1 \in Prefix /\ pass.at \in 1 .. Len(specs) /\ Want \in Target
  BY AtSpecType, WantType DEF LocalInv, TypeOK, Replace, Replaces
<1>2. /\ s \in Pass /\ s.at = pass.at /\ s.pc = "specs"
      /\ s.desired = pass.desired \cup {Prefix1} /\ s.current = pass.current
      /\ s.gateway = pass.gateway
  <2>1. /\ Keep(pass, Prefix1) \in Pass /\ Keep(pass, Prefix1).at = pass.at
        /\ Keep(pass, Prefix1).pc = "specs"
        /\ Keep(pass, Prefix1).desired = pass.desired \cup {Prefix1}
        /\ Keep(pass, Prefix1).current = pass.current
        /\ Keep(pass, Prefix1).gateway = pass.gateway
    BY <1>1, KeepType, Zenon DEF Keep, Pass
  <2> QED
    BY <1>1, <2>1, ChangedType, Zenon DEF Changed, Pass
<1> HIDE DEF s
<1>3. /\ Placed(kernel, touched, pass) /\ AsListed(kernel, touched, pass)
      /\ Unseen(kernel, pass) /\ Done(pass, pass.at - 1)
  BY Zenon DEF Knows
<1>4. \A q : Targets(s, q) = Targets(pass, q)
  BY <1>2 DEF Targets
<1>5. Holds(kernel', Prefix1) /\ kernel'[Prefix1].target = Want
  <2> DEFINE r == [ours |-> TRUE, target |-> Want]
  <2>1. r \in Route /\ r.ours /\ r.target = Want
    BY <1>1, Zenon DEF Route
  <2>2. kernel'[Prefix1] = r
    BY <1>1 DEF Replace, IpReplace, TypeOK
  <2> HIDE DEF r
  <2>3. r # None
    BY <2>1, LocalAssumption
  <2> QED
    BY <2>1, <2>2, <2>3, Zenon DEF Holds
<1>6. \A q \in Prefix : q # Prefix1 =>
        kernel'[q] = kernel[q] /\ (Holds(kernel', q) <=> Holds(kernel, q))
  BY <1>1 DEF Replace, IpReplace, TypeOK, Holds
<1>7. touched' = touched \ {Prefix1} /\ pass' = NextSpec(s)
  BY Zenon DEF Replace, s
<1>8. ASSUME NEW q \in s.desired \ touched'
      PROVE  Holds(kernel', q) /\ kernel'[q].target \in Targets(pass, q)
  <2>1. CASE q = Prefix1
    BY <1>1, <1>5, <2>1, WantIsTarget
  <2>2. CASE q # Prefix1
    <3>1. q \in pass.desired \ touched /\ q \in Prefix
      BY <1>1, <1>2, <1>7, <1>8, <2>2 DEF Pass
    <3> QED
      BY <1>3, <1>6, <2>2, <3>1 DEF Placed
  <2> QED
    BY <2>1, <2>2
<1>9. Placed(kernel', touched', s)
  BY <1>4, <1>8 DEF Placed
<1>10. AsListed(kernel', touched', s) /\ Unseen(kernel', s)
  BY <1>2, <1>3, <1>6, <1>7 DEF AsListed, Unseen
<1>11. Done(s, s.at) /\ s.at \in 0 .. Len(specs)
  BY <1>1, <1>2, <1>3, PrefixDone
<1> QED
  BY <1>1, <1>2, <1>7, <1>9, <1>10, <1>11, NextSpecKnows

LEMMA ListKnows ==
  ASSUME LocalInv, SyncInv, List
  PROVE  Knows(kernel', touched', pass') /\ pass'.pc \in {"specs", "stale", "report"}
<1> DEFINE s == [pass EXCEPT !.pc = "specs", !.current = Listed]
<1>1. /\ pass.desired = {} /\ touched = {} /\ pass.at = 1 /\ pass \in Pass
      /\ TypeOK /\ cfg \in Configurations
  BY DEF List, LocalInv, TypeOK, FixedInv, SyncInv
<1>2. Listed \in [Prefix -> Target \cup {None}]
  BY <1>1, LocalAssumption DEF Listed, Ours, TypeOK, Route
<1>3. \A n \in Nat : LET m == [s EXCEPT !.at = n] IN
        m \in Pass /\ m.at = n /\ m.pc = "specs" /\ m.desired = {} /\ m.current = Listed
  BY <1>1, <1>2, "specs" \in {"idle", "list", "specs", "stale", "report"}, Zenon DEF Pass
<1>4. s \in Pass /\ s.at = 1 /\ s.pc = "specs" /\ s.desired = {} /\ s.current = Listed
  <2>1. s \in Pass /\ s.at = pass.at /\ s.pc = "specs" /\ s.desired = {} /\ s.current = Listed
    BY <1>1, <1>2, "specs" \in {"idle", "list", "specs", "stale", "report"}, Zenon DEF Pass
  <2> QED
    BY <1>1, <2>1
<1>5. pass' = FirstSpec(s) /\ kernel' = kernel /\ touched' = {}
  BY <1>1 DEF List
<1> HIDE DEF s
<1>6. CASE specs = <<>>
  <2> DEFINE m == [s EXCEPT !.at = 0]
  <2>1. m \in Pass /\ m.at = 0 /\ m.pc = "specs" /\ m.desired = {} /\ m.current = Listed
    BY <1>3
  <2>2. pass' = NextSpec(m)
    BY <1>5, <1>6, Zenon DEF FirstSpec
  <2> HIDE DEF m
  <2>3. m.at \in 0 .. Len(specs)
    BY <1>6, <2>1
  <2>4. pass'.pc \in {"specs", "stale", "report"}
    BY <1>1, <2>1, <2>2, <2>3, NextSpecFields
  <2> QED
    BY <1>1, <1>5, <2>1, <2>2, <2>3, <2>4, ListingKnows, NextSpecKnows
<1>7. CASE specs # <<>>
  <2>1. pass' = s
    BY <1>5, <1>7, Zenon DEF FirstSpec
  <2>2. Done(s, s.at - 1)
    BY <1>1, <1>4, ListingKnows
  <2> QED
    BY <1>1, <1>4, <1>5, <2>1, <2>2, ListingKnows DEF Knows
<1> QED
  BY <1>6, <1>7

(* The error of a pass is not forgotten, and dry-run promises nothing.     *)
LEMMA FailedOrDry ==
  ASSUME pass'.pc \in {"specs", "stale", "report"}, pass'.failed \/ cfg'.dryRun
  PROVE  SyncInv'
  BY DEF SyncInv

LEMMA NextSpecGoesOn ==
  ASSUME LocalInv, AtSpec, NEW s \in Pass, s.pc = "specs", s.at = pass.at
  PROVE  /\ NextSpec(s).pc \in {"specs", "stale", "report"}
         /\ NextSpec(s).failed = s.failed
<1>1. s.at \in 0 .. Len(specs) /\ cfg \in Configurations
  BY AtSpecType, SpecsType DEF LocalInv, TypeOK
<1> QED
  BY <1>1, NextSpecFields

LEMMA StepSyncInv == LocalInv /\ SyncInv /\ [Next]_vars => SyncInv'
<1> SUFFICES ASSUME LocalInv, SyncInv, [Next]_vars PROVE SyncInv'
  OBVIOUS
<1>0. pass \in Pass /\ cfg \in Configurations /\ TypeOK
  BY DEF LocalInv, TypeOK
<1>a. ASSUME cfg' = cfg, pass'.pc \in {"specs", "stale", "report"}, pass'.failed = pass.failed,
             pass.pc \in {"specs", "stale", "report"},
             Knows(kernel, touched, pass) => Knows(kernel', touched', pass')
      PROVE  SyncInv'
  <2>1. CASE pass.failed \/ cfg.dryRun
    BY <1>a, <2>1, FailedOrDry
  <2>2. CASE ~(pass.failed \/ cfg.dryRun)
    <3>1. Knows(kernel', touched', pass')
      BY <1>a, <2>2 DEF SyncInv
    <3>2. Knows(kernel, touched, pass)'
      BY <1>a, <3>1, KnowsAfter
    <3> QED
      BY <1>a, <3>2 DEF SyncInv
  <2> QED
    BY <2>1, <2>2
<1>1. CASE StartPass
  <2>1. /\ pass.pc = "idle" /\ pass'.pc = "list" /\ pass'.desired = pass.desired
        /\ touched' = touched
    BY <1>0, <1>1, Zenon DEF StartPass, Pass
  <2> QED
    BY <2>1 DEF SyncInv
<1>2. CASE List
  <2>1. /\ Knows(kernel', touched', pass') /\ pass'.pc \in {"specs", "stale", "report"}
        /\ cfg' = cfg
    BY <1>2, ListKnows DEF List
  <2>2. Knows(kernel, touched, pass)'
    BY <2>1, KnowsAfter
  <2> QED
    BY <2>1, <2>2 DEF SyncInv
<1>3. CASE ListFails
  <2>1. pass'.pc = "report" /\ pass'.failed = TRUE
    BY <1>0, <1>3, Zenon DEF ListFails, Fail, Pass
  <2> QED
    BY <2>1, FailedOrDry
<1>4. CASE ResolveDefault
  <2>1. /\ pass.pc = "specs" /\ pass.gateway = None /\ cfg' = cfg
        /\ kernel' = kernel /\ touched' = touched
    BY <1>4, Zenon DEF ResolveDefault, AtSpec, NeedsGateway
  <2>2. /\ pass'.pc = pass.pc /\ pass'.failed = pass.failed /\ pass'.desired = pass.desired
        /\ pass'.current = pass.current /\ pass'.at = pass.at
    BY <1>0, <1>4, Zenon DEF ResolveDefault, Pass
  <2>3. ASSUME Knows(kernel, touched, pass) PROVE Knows(kernel', touched', pass')
    <3>1. ASSUME NEW p \in Prefix, Holds(kernel, p), kernel[p].target \in Targets(pass, p)
          PROVE  kernel[p].target \in Targets(pass', p)
      <4>1. kernel[p].target # None
        BY <1>0, <3>1, LocalAssumption DEF TypeOK, Holds, Route
      <4>2. PICK i \in DOMAIN specs :
              /\ specs[i].prefix = p
              /\ kernel[p].target = IF specs[i].target = Default THEN pass.gateway ELSE specs[i].target
        BY <3>1 DEF Targets
      <4>3. kernel[p].target = specs[i].target /\ specs[i].target # Default
        BY <2>1, <4>1, <4>2
      <4> QED
        BY <4>2, <4>3, Zenon DEF Targets
    <3>2. pass.desired \subseteq Prefix
      BY <1>0 DEF Pass
    <3>3. Placed(kernel, touched, pass')
      <4>1. Placed(kernel, touched, pass)
        BY <2>3 DEF Knows
      <4> QED
        BY <2>2, <3>1, <3>2, <4>1 DEF Placed
    <3>4. AsListed(kernel, touched, pass') /\ Unseen(kernel, pass') /\ Done(pass', pass'.at - 1)
      BY <2>1, <2>2, <2>3 DEF Knows, AsListed, Unseen, Done
    <3> QED
      BY <2>1, <2>2, <3>3, <3>4 DEF Knows
  <2> QED
    BY <1>a, <2>1, <2>2, <2>3
<1>5. CASE ResolveFails
  <2>1. AtSpec /\ pass' = NextSpec(Fail(pass)) /\ pass.pc = "specs"
    BY <1>5, Zenon DEF ResolveFails, AtSpec
  <2>2. Fail(pass).failed = TRUE
    BY <1>0, Zenon DEF Fail, Pass
  <2>3. Fail(pass) \in Pass /\ Fail(pass).at = pass.at /\ Fail(pass).pc = "specs"
    BY <1>0, <2>1, FailType
  <2> QED
    BY <2>1, <2>2, <2>3, NextSpecGoesOn, FailedOrDry
<1>6. ASSUME NEW p \in Prefix, NEW s \in Pass
      PROVE  /\ Keep(s, p) \in Pass /\ Keep(s, p).at = s.at
             /\ Keep(s, p).pc = s.pc /\ Keep(s, p).failed = s.failed
             /\ Changed(s, p) \in Pass /\ Changed(s, p).at = s.at
             /\ Changed(s, p).pc = s.pc /\ Changed(s, p).failed = s.failed
  BY KeepType, ChangedType, Zenon DEF Keep, Changed, Pass
<1>7. CASE LeaveAlone \/ Replace
  <2>1. /\ AtSpec /\ pass.pc = "specs" /\ cfg' = cfg
        /\ \/ pass' = NextSpec(Keep(pass, Prefix1))
           \/ pass' = NextSpec(Changed(Keep(pass, Prefix1), Prefix1))
    BY <1>7, Zenon DEF LeaveAlone, Replace, Replaces, AtSpec
  <2>2. Prefix1 \in Prefix
    BY <1>0, <2>1, AtSpecType
  <2>3. pass'.pc \in {"specs", "stale", "report"} /\ pass'.failed = pass.failed
    <3>1. /\ Keep(pass, Prefix1) \in Pass /\ Keep(pass, Prefix1).at = pass.at
          /\ Keep(pass, Prefix1).pc = "specs" /\ Keep(pass, Prefix1).failed = pass.failed
      BY <1>0, <1>6, <2>1, <2>2
    <3>2. LET s == Changed(Keep(pass, Prefix1), Prefix1) IN
            s \in Pass /\ s.at = pass.at /\ s.pc = "specs" /\ s.failed = pass.failed
      BY <1>6, <2>2, <3>1
    <3> QED
      BY <2>1, <3>1, <3>2, NextSpecGoesOn
  <2>4. Knows(kernel, touched, pass) => Knows(kernel', touched', pass')
    <3>1. CASE LeaveAlone
      BY <2>1, <3>1, LeaveAloneKnows DEF LeaveAlone
    <3>2. CASE Replace
      BY <2>1, <3>2, ReplaceKnows
    <3> QED
      BY <1>7, <3>1, <3>2
  <2> QED
    BY <1>a, <2>1, <2>3, <2>4
<1>8. CASE ReplaceDry
  <2>1. /\ AtSpec /\ pass.pc = "specs" /\ cfg'.dryRun
        /\ pass' = NextSpec(Changed(Keep(pass, Prefix1), Prefix1))
    BY <1>8, Zenon DEF ReplaceDry, Replaces, AtSpec
  <2>2. Prefix1 \in Prefix
    BY <1>0, <2>1, AtSpecType
  <2>3. LET s == Changed(Keep(pass, Prefix1), Prefix1) IN
          s \in Pass /\ s.at = pass.at /\ s.pc = "specs"
    BY <1>0, <1>6, <2>1, <2>2
  <2> QED
    BY <2>1, <2>3, NextSpecGoesOn, FailedOrDry
<1>9. CASE ReplaceFails
  <2>1. AtSpec /\ pass.pc = "specs" /\ pass' = NextSpec(Keep(Fail(pass), Prefix1))
    BY <1>9, Zenon DEF ReplaceFails, Replaces, AtSpec
  <2>2. Prefix1 \in Prefix
    BY <1>0, <2>1, AtSpecType
  <2>3. Fail(pass).failed = TRUE
    BY <1>0, Zenon DEF Fail, Pass
  <2>4. Fail(pass) \in Pass /\ Fail(pass).at = pass.at /\ Fail(pass).pc = "specs"
    BY <1>0, <2>1, FailType
  <2>5. LET s == Keep(Fail(pass), Prefix1) IN
          s \in Pass /\ s.at = pass.at /\ s.pc = "specs" /\ s.failed = TRUE
    BY <1>6, <2>2, <2>3, <2>4
  <2> QED
    BY <2>1, <2>5, NextSpecGoesOn, FailedOrDry
<1>10. ASSUME NEW p \in Prefix, Delete(p) PROVE SyncInv'
  <2> DEFINE s == Changed(pass, p)
  <2>1. /\ pass.pc = "stale" /\ p \in pass.stale /\ cfg' = cfg /\ touched' = touched
        /\ kernel' = [kernel EXCEPT ![p] = None] /\ pass' = NextStale(s, p)
    BY <1>10, Zenon DEF Delete, AtStale, IpDelete
  <2>2. /\ s \in Pass /\ s.pc = "stale" /\ s.stale = pass.stale /\ s.failed = pass.failed
        /\ s.desired = pass.desired /\ s.gateway = pass.gateway
    BY <1>0, <2>1, ChangedType, Zenon DEF Changed, Pass
  <2> HIDE DEF s
  <2>3. ASSUME Knows(kernel, touched, pass) PROVE Knows(kernel', touched', pass')
    <3>1. Placed(kernel, touched, s)
      <4>1. Placed(kernel, touched, pass)
        BY <2>3 DEF Knows
      <4>2. \A q : Targets(s, q) = Targets(pass, q)
        BY <2>2 DEF Targets
      <4> QED
        BY <2>2, <4>1, <4>2 DEF Placed
    <3>2. Knows(kernel, touched, s)
      BY <2>1, <2>2, <2>3, <3>1 DEF Knows, Done
    <3>3. kernel \in [Prefix -> Route \cup {None}]
      BY <1>0 DEF TypeOK
    <3> QED
      BY <2>1, <2>2, <3>2, <3>3, NextStaleKnows
  <2>4. pass'.pc \in {"stale", "report"} /\ pass'.failed = pass.failed
    BY <2>1, <2>2, Zenon DEF NextStale, Pass
  <2> QED
    BY <1>a, <2>1, <2>3, <2>4
<1>11. ASSUME NEW p \in Prefix, DeleteDry(p) \/ DeleteRefused(p) \/ DeleteFails(p) PROVE SyncInv'
  <2>1. \/ cfg'.dryRun /\ pass' = NextStale(Changed(pass, p), p)
        \/ pass' = NextStale(Fail(pass), p)
    BY <1>11, Zenon DEF DeleteDry, DeleteRefused, DeleteFails
  <2>2. /\ Fail(pass) \in Pass /\ Fail(pass).failed = TRUE /\ Changed(pass, p) \in Pass
    BY <1>0, FailType, ChangedType, Zenon DEF Fail, Pass
  <2>3. \A s \in Pass : NextStale(s, p).failed = s.failed
    BY Zenon DEF NextStale, Pass
  <2>4. \A s \in Pass : NextStale(s, p).pc \in {"report", "stale"}
    BY NextStaleType
  <2> QED
    BY <2>1, <2>2, <2>3, <2>4, FailedOrDry
<1>12. CASE EndPass \/ Restart
  <2>1. pass' = Idle /\ touched' = {}
    BY <1>12, Zenon DEF EndPass, Restart
  <2>2. pass'.pc = "idle" /\ pass'.desired = {}
    BY <2>1, Zenon DEF Idle
  <2> QED
    BY <2>1, <2>2 DEF SyncInv
<1>13. ASSUME NEW p \in Prefix, Edit(p) PROVE SyncInv'
  <2>1. PICK r \in [ours : {FALSE}, target : Hop] \cup {None} : kernel' = [kernel EXCEPT ![p] = r]
    BY <1>13, Zenon DEF Edit
  <2>2. pass' = pass /\ cfg' = cfg
    BY <1>13, Zenon DEF Edit
  <2>3. CASE pass.pc \in {"idle", "list"}
    <3>1. touched' = {}
      BY <1>13, <2>3, Zenon DEF Edit
    <3>2. pass'.pc \notin {"specs", "stale", "report"}
      BY <2>2, <2>3
    <3> QED
      BY <2>2, <2>3, <3>1, <3>2 DEF SyncInv
  <2>4. CASE pass.pc \notin {"idle", "list"}
    <3>1. touched' = touched \cup {p} /\ pass.pc \in {"specs", "stale", "report"}
      BY <1>0, <1>13, <2>4 DEF Edit, Pass
    <3>2. ~Holds(kernel', p)
      BY <1>0, <2>1 DEF TypeOK, Holds
    <3>3. \A q \in Prefix : q # p => kernel'[q] = kernel[q] /\ (Holds(kernel', q) <=> Holds(kernel, q))
      BY <1>0, <2>1 DEF TypeOK, Holds
    <3>4. ASSUME Knows(kernel, touched, pass) PROVE Knows(kernel', touched', pass)
      <4>1. pass.desired \subseteq Prefix
        BY <1>0 DEF Pass
      <4>2. Placed(kernel', touched', pass)
        <5>1. Placed(kernel, touched, pass)
          BY <3>4 DEF Knows
        <5> QED
          BY <3>1, <3>3, <4>1, <5>1 DEF Placed
      <4>3. pass.pc = "specs" => AsListed(kernel', touched', pass) /\ Unseen(kernel', pass)
        <5> SUFFICES ASSUME pass.pc = "specs"
                     PROVE  AsListed(kernel', touched', pass) /\ Unseen(kernel', pass)
          OBVIOUS
        <5>1. AsListed(kernel, touched, pass) /\ Unseen(kernel, pass)
          BY <3>4 DEF Knows
        <5> QED
          BY <3>1, <3>2, <3>3, <5>1 DEF AsListed, Unseen
      <4>4. \A q \in Prefix : Holds(kernel', q) => Holds(kernel, q)
        BY <3>2, <3>3
      <4> QED
        BY <3>4, <4>2, <4>3, <4>4 DEF Knows
    <3> QED
      BY <1>a, <2>2, <3>1, <3>4
  <2> QED
    BY <2>3, <2>4
<1>14. CASE ChangeGateway \/ UNCHANGED vars
  <2>1. kernel' = kernel /\ cfg' = cfg /\ pass' = pass /\ touched' = touched
    BY <1>14, Zenon DEF ChangeGateway, vars
  <2>2. CASE pass.pc \in {"specs", "stale", "report"}
    BY <1>a, <2>1, <2>2
  <2>3. CASE pass.pc \notin {"specs", "stale", "report"}
    BY <2>1, <2>3 DEF SyncInv
  <2> QED
    BY <2>2, <2>3
<1> QED
  BY <1>1, <1>2, <1>3, <1>4, <1>5, <1>7, <1>8, <1>9, <1>10, <1>11, <1>12, <1>13, <1>14, Zenon
     DEF Next, Step, Surroundings

(* Sync: after a pass without error, what is configured is in place, but   *)
(* for what others changed since; with cleanup nothing else is left.       *)
THEOREM SuccessMeansInstalled == Spec => []InstalledWhenSuccessful
<1>1. Init => SyncInv
  <2>1. Idle.pc = "idle" /\ Idle.desired = {}
    BY Zenon DEF Idle
  <2> QED
    BY <2>1 DEF Init, SyncInv
<1>2. LocalInv /\ SyncInv => InstalledWhenSuccessful
  <2> SUFFICES ASSUME LocalInv, SyncInv, pass.pc = "report", ~pass.failed, ~cfg.dryRun
               PROVE  /\ \A p \in Configured \ touched : Ours(p) /\ kernel[p].target \in GivenTo(p)
                      /\ cfg.removeStale => Clean
    BY Zenon DEF InstalledWhenSuccessful
  <2>1. Knows(kernel, touched, pass)
    BY DEF SyncInv
  <2>2. Placed(kernel, touched, pass) /\ Done(pass, Len(specs))
    BY <2>1 DEF Knows
  <2>3. \A i \in DOMAIN specs : i =< Len(specs)
    BY SpecsType DEF LocalInv, TypeOK
  <2>4. pass.desired = Configured
    BY <2>2, <2>3 DEF Done, Configured
  <2>5. \A p : Ours(p) <=> Holds(kernel, p)
    BY Zenon DEF Ours, Holds
  <2>6. \A p : GivenTo(p) = Targets(pass, p)
    BY Zenon DEF GivenTo, Targets
  <2>7. \A p \in Configured \ touched : Ours(p) /\ kernel[p].target \in GivenTo(p)
    BY <2>2, <2>4, <2>5, <2>6, Zenon DEF Placed
  <2>8. cfg.removeStale => Clean
    <3>1. cfg.removeStale => \A p \in Prefix \ (Configured \cup Unlisted) : ~Holds(kernel, p)
      <4>1. cfg.removeStale =>
              \A p \in Prefix \ (pass.desired \cup Unlisted) : Holds(kernel, p) => pass.pc = "stale"
        BY <2>1, Zenon DEF Knows
      <4> QED
        BY <2>4, <4>1
    <3> QED
      BY <2>5, <3>1, Zenon DEF Clean
  <2> QED
    BY <2>7, <2>8
<1> QED
  BY <1>1, <1>2, StepSyncInv, LocalInvHolds, PTL DEF Spec

=============================================================================
