--------------------------- MODULE GatewayProofs ---------------------------
(***************************************************************************)
(* Theorems about Gateway, for every set of sources, timeouts and bounds:  *)
(* its parts are what their modules say, and what holds of the parts alone *)
(* holds of the whole; and what a pass does with what the sources publish. *)
(***************************************************************************)
EXTENDS Gateway, ActionsProofs, YandexTokenProofs

LEMMA StepOfActions == [Next]_vars => [ActionsNext]_batchVars
<1> SUFFICES ASSUME [Next]_vars PROVE [ActionsNext]_batchVars
  OBVIOUS
<1>1. CASE RunActions
  <2>1. ActionsOf \in {"failed", "success", "nothing"}
    BY Zenon DEF ActionsOf
  <2> QED
    BY <1>1, <2>1, Zenon DEF RunActions, ActionsNext
<1>2. CASE RunBatch
  <2>1. CASE BeginCommand \/ SkipCommand \/ PipeCloses \/ EndBatch
    BY <2>1, Zenon DEF ActionsNext
  <2>2. ASSUME NEW holds \in 0 .. OrphanTime, ShellEnds(holds) PROVE ActionsNext
    BY <2>2, Zenon DEF ActionsNext
  <2>3. 0 \in 0 .. OrphanTime /\ 1 .. OrphanTime \subseteq 0 .. OrphanTime
    BY ActionsAssumption
  <2> QED
    BY <1>2, <2>1, <2>2, <2>3, Zenon DEF RunBatch
<1>3. CASE Elapse
  BY <1>3, Zenon DEF Elapse, ActionsNext
<1>4. CASE UNCHANGED batchVars
  BY <1>4
<1>5. CASE UNCHANGED vars
  BY <1>5, Zenon DEF vars
<1> QED
  BY <1>1, <1>2, <1>3, <1>4, <1>5, Zenon DEF Next, Work, BeginPass, Detect, DetectFails, SyncLocal,
     AskSource, ScanEnds, Exchange, MetadataIssues, ApiTakes, GotTable, UpdateDone, SyncFails,
     ReturnFromStart, ReturnFromSchedule, TakeCancellation, TakeTick, Cancel, Tick,
     Republish, Taken

LEMMA StepOfToken == [Next]_vars => [TokenNext]_tokenVars
<1> SUFFICES ASSUME [Next]_vars PROVE [TokenNext]_tokenVars
  OBVIOUS
<1>1. CASE Exchange \/ ApiTakes \/ GotTable \/ UpdateDone \/ Elapse
  BY <1>1, Zenon DEF Exchange, ApiTakes, GotTable, UpdateDone, Elapse, TokenNext
<1>2. CASE MetadataIssues
  <2>1. TRUE \in BOOLEAN /\ FALSE \in BOOLEAN
    OBVIOUS
  <2> QED
    BY <1>2, <2>1, Zenon DEF MetadataIssues, TokenNext
<1>3. CASE SyncFails
  BY <1>3, Zenon DEF SyncFails, TokenNext
<1>4. CASE UNCHANGED tokenVars
  BY <1>4
<1>5. CASE UNCHANGED vars
  BY <1>5, Zenon DEF vars
<1> QED
  BY <1>1, <1>2, <1>3, <1>4, <1>5, Zenon DEF Next, Work, BeginPass, Detect, DetectFails, SyncLocal,
     AskSource, ScanEnds, RunActions, RunBatch, ReturnFromStart, ReturnFromSchedule,
     TakeCancellation, TakeTick, Cancel, Tick, Republish, Taken

(* Runner.Run under RunOnce: as when it runs alone, but no more often. *)
THEOREM PassesRunActions == Spec => ActionsSpec
<1>1. Init => ActionsInit
  BY DEF Init
<1> QED
  BY <1>1, StepOfActions, PTL DEF Spec, ActionsSpec

(* MetadataClient and Manager.do under Sync: as when they are used alone.  *)
THEOREM PassesUseToken == Spec => TokenSpec
<1>1. Init => TokenInit
  BY DEF Init
<1> QED
  BY <1>1, StepOfToken, PTL DEF Spec, TokenSpec

(* Whatever the service does, its actions are bounded, each command starts *)
(* unless one overran its timeout, and tokens outlive their requests.      *)
THEOREM PartsKeepTheirPromises ==
  Spec => [](BatchBounded /\ EveryCommandStarts /\ TokenOutlivesRequest)
  BY PassesRunActions, PassesUseToken, BatchesBounded, CommandsStart, TokenIsLongEnough, PTL

-----------------------------------------------------------------------------
(* Types.                                                                  *)

Switches == pass \in Pass /\ cancelled \in BOOLEAN

LEMMA NewPassType == \A o \in {"start", "schedule"} : NewPass(o) \in Pass
  BY Zenon DEF NewPass, Pass

LEMMA InitSwitches == Init => Switches
  BY Zenon, NewPassType DEF Init, Switches

LEMMA StepSwitches == Switches /\ [Next]_vars => Switches'
<1> SUFFICES ASSUME Switches, [Next]_vars PROVE Switches'
  OBVIOUS
<1> USE DEF Switches
<1>1. CASE BeginPass
  <2>1. (passes = 0) \in BOOLEAN
    BY Zenon
  <2> QED
    BY <1>1, <2>1, Zenon DEF BeginPass, Pass
<1>2. CASE DetectFails \/ ScanEnds
  BY <1>2, Zenon DEF DetectFails, ScanEnds, Pass
<1>3. ASSUME NEW reported \in BOOLEAN, NEW error \in BOOLEAN, SyncLocal(reported, error)
      PROVE  Switches'
  BY <1>3, Zenon DEF SyncLocal, Pass
<1>4. CASE GotTable \/ UpdateDone \/ SyncFails
  <2>1. /\ cancelled' = cancelled
        /\ \/ pass' = pass
           \/ \E result \in {"done", "failed"}, changes \in BOOLEAN :
                pass' = [pass EXCEPT !.failed = @ \/ SomeSourceFailed \/ result = "failed",
                                     !.changed = @ \/ changes]
    <3>1. CASE GotTable \/ UpdateDone
      BY <3>1, Zenon DEF GotTable, UpdateDone, SyncEnds
    <3>2. CASE SyncFails
      <4>1. (request = "patch") \in BOOLEAN
        BY Zenon
      <4> QED
        BY <3>2, <4>1, Zenon DEF SyncFails, SyncEnds
    <3> QED
      BY <1>4, <3>1, <3>2
  <2> QED
    BY <2>1, Zenon DEF Pass
<1>5. CASE RunActions
  <2>1. ActionsOf \in {"nothing", "success", "failed"}
    BY Zenon DEF ActionsOf
  <2> QED
    BY <1>5, <2>1, Zenon DEF RunActions, Pass
<1>6. CASE TakeTick
  BY <1>6, Zenon, NewPassType DEF TakeTick
<1>7. CASE Cancel
  BY <1>7, Zenon DEF Cancel, Pass
<1>8. CASE Elapse
  <2>1. (timeLeft = 1) \in BOOLEAN
    BY Zenon
  <2> QED
    BY <1>8, <2>1, Zenon DEF Elapse, Pass
<1>9. CASE UNCHANGED <<pass, cancelled>>
  BY <1>9
<1>10. CASE UNCHANGED vars
  BY <1>10, Zenon DEF vars, loopVars
<1> QED
  BY <1>1, <1>2, <1>3, <1>4, <1>5, <1>6, <1>7, <1>8, <1>9, <1>10, Zenon DEF Next, Work, Detect,
     AskSource, Exchange, MetadataIssues, ApiTakes, RunBatch, ReturnFromStart, ReturnFromSchedule,
     TakeCancellation, Tick, Republish, Taken, loopVars

LEMMA StepOfSources == Switches /\ [Next]_vars => [SourcesNext]_sourceVars
<1> SUFFICES ASSUME pass.ended \in BOOLEAN, [Next]_vars PROVE [SourcesNext]_sourceVars
  BY Zenon DEF Switches, Pass
<1>1. CASE AskSource
  <2>1. TRUE \in BOOLEAN /\ FALSE \in BOOLEAN
    OBVIOUS
  <2> QED
    BY <1>1, <2>1, Zenon DEF AskSource, SourcesNext
<1>2. ASSUME NEW reported \in BOOLEAN, NEW error \in BOOLEAN, SyncLocal(reported, error)
      PROVE  SourcesNext
  BY <1>2, Zenon DEF SyncLocal, SourcesNext
<1>3. CASE RunActions \/ Republish
  BY <1>3, Zenon DEF RunActions, Republish, SourcesNext
<1>4. CASE UNCHANGED sourceVars
  BY <1>4
<1>5. CASE UNCHANGED vars
  BY <1>5, Zenon DEF vars
<1> QED
  BY <1>1, <1>2, <1>3, <1>4, <1>5, Zenon DEF Next, Work, BeginPass, Detect, DetectFails, ScanEnds,
     Exchange, MetadataIssues, ApiTakes, GotTable, UpdateDone, SyncFails, RunBatch,
     ReturnFromStart, ReturnFromSchedule, TakeCancellation, TakeTick, Cancel, Tick, Elapse, Taken

(* Collect under RunOnce: as when it runs alone.                           *)
THEOREM PassesCollect == Spec => SourcesSpec
<1>1. Init => SourcesInit
  BY DEF Init
<1> QED
  BY <1>1, InitSwitches, StepSwitches, StepOfSources, PTL DEF Spec, SourcesSpec

-----------------------------------------------------------------------------
(* Collect.                                                                *)

LEMMA SourceNumbers ==
  ASSUME origins \in OriginLists
  PROVE  /\ Source = 1 .. Len(origins)
         /\ Len(origins) \in Nat \ {0}
         /\ \A i \in Source : origins[i] \in Kind
  BY SourcesAssumption DEF Source

LEMMA PublishedType ==
  ASSUME NEW kind \in Kind, NEW p \in Publications[kind]
  PROVE  /\ p \in Publication
         /\ p.state = "absent" => p.routes = {}
  BY SourcesAssumption

LEMMA OfferedType ==
  ASSUME published \in [Source -> Publication]
  PROVE  \A i \in Source : Offered(i) \subseteq Prefix
  BY DEF Offered, Publication

LEMMA InitSourcesType == SourcesInit => SourcesTypeOK
<1> SUFFICES ASSUME SourcesInit PROVE SourcesTypeOK
  OBVIOUS
<1>1. Len(origins) \in Nat
  BY SourceNumbers DEF SourcesInit
<1> QED
  BY <1>1 DEF SourcesInit, SourcesTypeOK, NoScan

LEMMA SourcesStepType == SourcesTypeOK /\ [SourcesNext]_sourceVars => SourcesTypeOK'
<1> SUFFICES ASSUME SourcesTypeOK, [SourcesNext]_sourceVars PROVE SourcesTypeOK'
  OBVIOUS
<1> USE DEF SourcesTypeOK
<1>0. Source = 1 .. Len(origins) /\ Len(origins) \in Nat \ {0} /\ (origins' = origins => Source' = Source)
  BY SourceNumbers DEF Source
<1>1. CASE StartScan
  <2>1. offered' \subseteq Prefix
    BY <1>1, OfferedType DEF StartScan
  <2> QED
    BY <1>0, <1>1, <2>1 DEF StartScan, NoScan
<1>2. CASE ForgetScan
  BY <1>0, <1>2 DEF ForgetScan, NoScan
<1>3. ASSUME NEW succeeds \in BOOLEAN, BuildClient(succeeds) PROVE SourcesTypeOK'
  BY <1>0, <1>3 DEF BuildClient
<1>4. ASSUME scan.at \in Source, Answered(scan.at) \/ Failed(scan.at)
      PROVE  scan' \in [at : 0 .. Len(origins) + 1, found : SUBSET Prefix, errs : SUBSET Source]
  <2>1. /\ scan.at + 1 \in 0 .. Len(origins) + 1
        /\ published[scan.at].routes \subseteq Prefix
    BY <1>0, <1>4 DEF Publication
  <2>2. CASE Answered(scan.at)
    BY <2>1, <2>2 DEF Answered
  <2>3. CASE Failed(scan.at)
    BY <1>4, <2>1, <2>3 DEF Failed, ContinueAfterError
  <2> QED
    BY <1>4, <2>2, <2>3
<1>5. ASSUME NEW ended \in BOOLEAN, Fetch(ended) PROVE SourcesTypeOK'
  <2>1. /\ scan.at \in Source
        /\ Answered(scan.at) \/ Failed(scan.at)
        /\ UNCHANGED <<origins, published, client, steady, offered>>
    BY <1>5, Zenon DEF Fetch, Asking
  <2> QED
    BY <1>0, <1>4, <2>1
<1>6. CASE FetchFails \/ FetchWithoutClient
  <2>1. /\ scan.at \in Source
        /\ Failed(scan.at)
        /\ UNCHANGED <<origins, published, client, steady, offered>>
    BY <1>6, Zenon DEF FetchFails, FetchWithoutClient, Asking
  <2> QED
    BY <1>0, <1>4, <2>1
<1>7. ASSUME NEW i \in Source, Publish(i) PROVE SourcesTypeOK'
  <2>1. PICK p \in Publications[origins[i]] :
          /\ published' = [published EXCEPT ![i] = p]
          /\ steady' = steady \ {i}
          /\ offered' = IF scan.at > 0 /\ p.state = "readable" THEN offered \cup p.routes ELSE offered
          /\ UNCHANGED <<origins, client, scan>>
    BY <1>7, Zenon DEF Publish
  <2>2. p \in Publication
    BY <2>1, PublishedType, SourceNumbers
  <2> QED
    BY <1>0, <2>1, <2>2 DEF Publication
<1>8. CASE UNCHANGED sourceVars
  BY <1>0, <1>8 DEF sourceVars
<1> QED
  BY <1>1, <1>2, <1>3, <1>5, <1>6, <1>7, <1>8 DEF SourcesNext

(* The sources, and what Collect holds of them, stay of their types.       *)
THEOREM SourcesTypeCorrect == SourcesSpec => []SourcesTypeOK
  BY InitSourcesType, SourcesStepType, PTL DEF SourcesSpec

-----------------------------------------------------------------------------
(* The whole.                                                              *)

Places ==
  /\ loop \in {"begin", "detect", "local", "collect", "sync", "actions",
               "return", "select", "exited"}
  /\ tick \in {"absent", "empty", "full"}
  /\ passes \in 0 .. 2
  /\ timeLeft \in 0 .. PassTimeout
  /\ routed \subseteq Prefix
  /\ request \in {"idle", "get", "patch"}
  /\ synced \in {"no", "done", "failed"}
  /\ lost \subseteq Prefix
  /\ budget \in 0 .. MaxDisturbances

LEMMA TypeParts ==
  TypeOK <=> SourcesTypeOK /\ ActionsTypeOK /\ TokenTypeOK /\ Switches /\ Places
BY Zenon DEF TypeOK, Switches, Places

LEMMA InitPlaces == Init => Places
  BY GatewayAssumption DEF Init, Places

LEMMA StepPlaces == SourcesTypeOK /\ Places /\ [Next]_vars => Places'
<1> SUFFICES ASSUME SourcesTypeOK, Places, [Next]_vars PROVE Places'
  OBVIOUS
<1> USE DEF Places
<1>0. ASSUME Disturb \/ UNCHANGED budget PROVE budget' \in 0 .. MaxDisturbances
  BY <1>0, GatewayAssumption DEF Disturb
<1>1. CASE BeginPass
  BY <1>1, GatewayAssumption DEF BeginPass, tableVars
<1>2. CASE Detect \/ DetectFails \/ ReturnFromStart \/ ReturnFromSchedule \/ TakeCancellation
           \/ TakeTick \/ Tick
  BY <1>2, <1>0 DEF Detect, DetectFails, ReturnFromStart, ReturnFromSchedule, TakeCancellation,
     TakeTick, Tick, tableVars
<1>3. ASSUME NEW reported \in BOOLEAN, NEW error \in BOOLEAN, SyncLocal(reported, error)
      PROVE  Places'
  <2>1. /\ loop' = "collect"
        /\ Disturb \/ UNCHANGED budget
        /\ UNCHANGED <<tableVars, tick, passes, timeLeft>>
    BY <1>3, Zenon DEF SyncLocal
  <2> QED
    BY <1>0, <2>1 DEF tableVars
<1>4. CASE AskSource \/ Exchange \/ MetadataIssues \/ RunBatch \/ Republish
  <2>1. Disturb \/ UNCHANGED budget
    BY <1>4, Zenon DEF AskSource, Exchange, MetadataIssues, RunBatch, Republish
  <2>2. UNCHANGED <<loopVars, tableVars>>
    BY <1>4, Zenon DEF AskSource, Exchange, MetadataIssues, RunBatch, Republish
  <2> QED
    BY <1>0, <2>1, <2>2 DEF loopVars, tableVars
<1>5. CASE ScanEnds
  BY <1>5 DEF ScanEnds
<1>6. CASE ApiTakes
  BY <1>6 DEF ApiTakes, SourcesTypeOK, loopVars
<1>7. CASE GotTable \/ UpdateDone
  BY <1>7 DEF GotTable, UpdateDone, SyncEnds
<1>8. CASE SyncFails
  <2>1. /\ loop' = "actions" /\ request' = "idle" /\ synced' = "failed"
        /\ Disturb \/ UNCHANGED budget
        /\ UNCHANGED <<tick, passes, timeLeft, routed, lost>>
    BY <1>8, Zenon DEF SyncFails, SyncEnds
  <2> QED
    BY <1>0, <2>1
<1>9. CASE RunActions
  <2>1. /\ loop' = "return" /\ timeLeft' = 0 /\ synced' = "no" /\ lost' = {}
        /\ UNCHANGED <<routed, request, tick, passes, budget>>
    BY <1>9, Zenon DEF RunActions
  <2> QED
    BY <2>1, GatewayAssumption
<1>10. CASE Cancel
  BY <1>10, GatewayAssumption DEF Cancel, tableVars
<1>11. CASE Elapse
  <2>1. /\ timeLeft' = Reduce(timeLeft, 1)
        /\ Disturb \/ UNCHANGED budget
        /\ UNCHANGED <<tableVars, loop, tick, passes>>
    BY <1>11, Zenon DEF Elapse
  <2>2. timeLeft' \in 0 .. PassTimeout
    BY <2>1, GatewayAssumption DEF Reduce
  <2> QED
    BY <1>0, <2>1, <2>2 DEF tableVars
<1>12. CASE Taken
  BY <1>0, <1>12 DEF Taken, loopVars
<1>13. CASE UNCHANGED vars
  BY <1>13 DEF vars, loopVars, tableVars
<1> QED
  BY <1>1, <1>2, <1>3, <1>4, <1>5, <1>6, <1>7, <1>8, <1>9, <1>10, <1>11, <1>12, <1>13, Zenon
     DEF Next, Work

(* Every variable of the service keeps the type its code gives it.         *)
THEOREM TypeCorrect == Spec => []TypeOK
  BY PassesRunActions, PassesUseToken, PassesCollect, ActionsTypeCorrect, TokenTypeCorrect,
     SourcesTypeCorrect, InitSwitches, StepSwitches, InitPlaces, StepPlaces, TypeParts, PTL
     DEF Spec

-----------------------------------------------------------------------------
(* What a scan has found.                                                  *)

(***************************************************************************)
(* Of the sources nobody has touched since the scan began, those asked and *)
(* not failed are in what was found, and none that failed was a readable   *)
(* local list; and what was found had been offered.                        *)
(***************************************************************************)
ScanInv ==
  /\ \A i \in Source : client[i] = "broken" => origins[i] = "object"
  /\ \A i \in steady : i < scan.at /\ i \notin scan.errs => published[i].routes \subseteq scan.found
  /\ \A i \in steady : i \in scan.errs => ~(Local(i) /\ Readable(i))
  /\ scan.found \subseteq offered
  /\ scan.at > 0 => \A i \in Source : Offered(i) \subseteq offered

LEMMA InitScanInv == SourcesInit => ScanInv
  BY DEF SourcesInit, ScanInv, NoScan

LEMMA AnsweredInv ==
  ASSUME SourcesTypeOK, ScanInv, scan.at \in Source, Readable(scan.at), Answered(scan.at),
         UNCHANGED <<origins, published, client, steady, offered>>
  PROVE  ScanInv'
<1> USE DEF SourcesTypeOK
<1>0. Source = 1 .. Len(origins) /\ Len(origins) \in Nat
  BY SourceNumbers
<1>1. /\ scan'.at = scan.at + 1 /\ scan'.errs = scan.errs
      /\ scan'.found = scan.found \cup published[scan.at].routes
  BY <1>0 DEF Answered
<1>2. published[scan.at].routes \subseteq offered
  BY <1>0 DEF ScanInv, Offered
<1>3. \A i \in steady : i < scan.at + 1 => i = scan.at \/ i < scan.at
  BY <1>0
<1>4. \A i \in steady : i < scan'.at /\ i \notin scan'.errs => published[i].routes \subseteq scan'.found
  BY <1>1, <1>3, Zenon DEF ScanInv
<1>5. scan'.found \subseteq offered
  BY <1>1, <1>2 DEF ScanInv
<1>6. \A i \in Source : Offered(i) \subseteq offered
  BY <1>0 DEF ScanInv
<1> QED
  BY <1>1, <1>4, <1>5, <1>6, Zenon DEF ScanInv, Source, Local, Readable, Offered

LEMMA FailedInv ==
  ASSUME SourcesTypeOK, ScanInv, scan.at \in Source, Failed(scan.at),
         ~(Local(scan.at) /\ Readable(scan.at)),
         UNCHANGED <<origins, published, client, steady, offered>>
  PROVE  ScanInv'
<1> USE DEF SourcesTypeOK
<1>0. Source = 1 .. Len(origins) /\ Len(origins) \in Nat
  BY SourceNumbers
<1>1. /\ scan'.at = scan.at + 1 /\ scan'.errs = scan.errs \cup {scan.at}
      /\ scan'.found = scan.found
  BY <1>0 DEF Failed, ContinueAfterError
<1>3. \A i \in steady : i < scan.at + 1 => i = scan.at \/ i < scan.at
  BY <1>0
<1>4. \A i \in steady : i < scan'.at /\ i \notin scan'.errs => published[i].routes \subseteq scan'.found
  BY <1>1, <1>3, Zenon DEF ScanInv
<1>5. \A i \in steady : i \in scan'.errs => ~(Local(i) /\ Readable(i))
  BY <1>1, Zenon DEF ScanInv
<1>6. \A i \in Source : Offered(i) \subseteq offered
  BY <1>0 DEF ScanInv
<1> QED
  BY <1>1, <1>4, <1>5, <1>6, Zenon DEF ScanInv, Source, Local, Readable, Offered

LEMMA PublishInv ==
  ASSUME SourcesTypeOK, ScanInv, NEW i \in Source, Publish(i)
  PROVE  ScanInv'
<1> USE DEF SourcesTypeOK
<1>1. PICK p \in Publications[origins[i]] :
        /\ published' = [published EXCEPT ![i] = p]
        /\ steady' = steady \ {i}
        /\ offered' = IF scan.at > 0 /\ p.state = "readable" THEN offered \cup p.routes ELSE offered
        /\ UNCHANGED <<origins, client, scan>>
  BY Zenon DEF Publish
<1>2. p \in Publication /\ (p.state = "absent" => p.routes = {})
  BY PublishedType, SourceNumbers
<1>3. \A j \in Source \ {i} : published'[j] = published[j]
  BY <1>1
<1>4. published'[i] = p /\ Source' = Source /\ \A j \in Source : Local(j)' <=> Local(j)
  BY <1>1 DEF Source, Local
<1>5. \A j \in Source \ {i} : Offered(j)' = Offered(j) /\ (Readable(j)' <=> Readable(j))
  BY <1>1, <1>3 DEF Offered, Readable
<1>6. \A j \in steady' : j \in steady /\ j \in Source \ {i}
  BY <1>1
<1>7. scan.at > 0 => \A j \in Source : Offered(j)' \subseteq offered'
  <2> SUFFICES ASSUME scan.at > 0, NEW j \in Source PROVE Offered(j)' \subseteq offered'
    OBVIOUS
  <2>1. CASE j = i
    BY <1>1, <1>2, <1>4, <2>1 DEF Offered, Readable
  <2>2. CASE j # i
    <3>1. Offered(j) \subseteq offered /\ offered \subseteq offered'
      BY <1>1 DEF ScanInv
    <3> QED
      BY <1>5, <2>2, <3>1
  <2> QED
    BY <2>1, <2>2
<1>8. scan.found \subseteq offered'
  BY <1>1 DEF ScanInv
<1>9. /\ \A j \in steady' : j < scan.at /\ j \notin scan.errs => published'[j].routes \subseteq scan.found
      /\ \A j \in steady' : j \in scan.errs => ~(Local(j)' /\ Readable(j)')
  BY <1>3, <1>4, <1>5, <1>6, Zenon DEF ScanInv
<1> QED
  BY <1>1, <1>4, <1>7, <1>8, <1>9, Zenon DEF ScanInv

LEMMA StepScanInv == SourcesTypeOK /\ ScanInv /\ [SourcesNext]_sourceVars => ScanInv'
<1> SUFFICES ASSUME SourcesTypeOK, ScanInv, [SourcesNext]_sourceVars PROVE ScanInv'
  OBVIOUS
<1>0. Source = 1 .. Len(origins) /\ Len(origins) \in Nat
  BY SourceNumbers DEF SourcesTypeOK
<1>1. CASE StartScan
  <2>1. /\ scan'.at = 1 /\ scan'.found = {} /\ scan'.errs = {}
        /\ steady' = Source
        /\ UNCHANGED <<origins, published, client>>
    BY <1>1 DEF StartScan, NoScan
  <2>2. Source' = Source /\ \A i \in Source : Offered(i)' = Offered(i) /\ Offered(i) \subseteq offered'
    BY <1>1 DEF StartScan, Source, Offered, Readable
  <2>3. \A i \in Source : ~(i < 1)
    BY <1>0
  <2> QED
    BY <2>1, <2>2, <2>3, Zenon DEF ScanInv
<1>2. CASE ForgetScan
  BY <1>2 DEF ForgetScan, NoScan, ScanInv, Source
<1>3. ASSUME NEW succeeds \in BOOLEAN, BuildClient(succeeds) PROVE ScanInv'
  <2>1. /\ scan.at \in Source /\ origins[scan.at] = "object"
        /\ \A i \in Source : i # scan.at => client'[i] = client[i]
        /\ UNCHANGED <<origins, published, scan, steady, offered>>
    BY <1>3 DEF BuildClient, Asking, SourcesTypeOK
  <2> QED
    BY <2>1, Zenon DEF ScanInv, Source, Local, Readable, Offered
<1>4. ASSUME NEW ended \in BOOLEAN, Fetch(ended) PROVE ScanInv'
  <2>1. /\ scan.at \in Source
        /\ \/ Readable(scan.at) /\ Answered(scan.at)
           \/ ~Readable(scan.at) /\ Failed(scan.at)
        /\ UNCHANGED <<origins, published, client, steady, offered>>
    BY <1>4, Zenon DEF Fetch, Asking, AcceptReadable
  <2> QED
    BY <2>1, AnsweredInv, FailedInv
<1>5. CASE FetchFails \/ FetchWithoutClient
  <2>1. /\ scan.at \in Source
        /\ ~Local(scan.at) \/ client[scan.at] = "broken"
        /\ Failed(scan.at)
        /\ UNCHANGED <<origins, published, client, steady, offered>>
    BY <1>5, Zenon DEF FetchFails, FetchWithoutClient, Asking
  <2>2. ~Local(scan.at)
    BY <2>1 DEF ScanInv, Local
  <2> QED
    BY <2>1, <2>2, FailedInv
<1>6. ASSUME NEW i \in Source, Publish(i) PROVE ScanInv'
  BY <1>6, PublishInv
<1>7. CASE UNCHANGED sourceVars
  BY <1>7, Zenon DEF sourceVars, ScanInv, Source, Local, Readable, Offered
<1> QED
  BY <1>1, <1>2, <1>3, <1>4, <1>5, <1>6, <1>7 DEF SourcesNext

-----------------------------------------------------------------------------
(* What a pass has done with it.                                           *)

(***************************************************************************)
(* Sync is called when all sources have been asked; an update the API has  *)
(* taken, and Sync without error, leave all that was found leading here    *)
(* but for what others took; a pass without error knows of no error.       *)
(***************************************************************************)
TableInv ==
  /\ loop = "sync" \/ synced = "done" => ScanOver
  /\ request # "idle" => loop = "sync"
  /\ call.pc = "arrived" /\ call.taken /\ request = "patch" => scan.found \subseteq Led
  /\ synced = "done" => loop = "actions" /\ scan.found \subseteq Led
  /\ loop = "actions" /\ ~pass.failed => synced = "done" /\ scan.errs = {}

LEMMA InitTableInv == Init => TableInv
  BY DEF Init, TableInv, NoCall, TokenInit

LEMMA SyncEndsInv ==
  ASSUME pass \in Pass, TableInv, loop = "sync", NEW changes \in BOOLEAN,
         NEW result \in {"done", "failed"}, SyncEnds(result, changes),
         result = "done" => scan.found \subseteq Led,
         UNCHANGED <<sourceVars, routed, lost>>
  PROVE  TableInv'
<1>1. /\ loop' = "actions" /\ request' = "idle" /\ synced' = result
      /\ pass'.failed <=> pass.failed \/ SomeSourceFailed \/ result = "failed"
  BY Zenon DEF SyncEnds, Pass
<1>2. "done" # "failed" /\ "actions" # "sync"
  OBVIOUS
<1>3. ScanOver' /\ Led' = Led /\ scan' = scan
  BY Zenon DEF TableInv, ScanOver, Led, sourceVars
<1> QED
  BY <1>1, <1>2, <1>3, Zenon DEF TableInv, SomeSourceFailed

LEMMA StepTableInv == pass \in Pass /\ call \in Call /\ TableInv /\ [Next]_vars => TableInv'
<1> SUFFICES ASSUME pass \in Pass, call \in Call, TableInv, [Next]_vars PROVE TableInv'
  OBVIOUS
<1> USE DEF TableInv
<1>1. ASSUME loop \notin {"sync", "actions"}, loop' \notin {"sync", "actions"},
             UNCHANGED <<request, synced>>
      PROVE  TableInv'
  BY <1>1
<1>2. CASE BeginPass \/ Detect \/ ReturnFromStart \/ ReturnFromSchedule \/ TakeCancellation
           \/ TakeTick
  <2>1. /\ loop \in {"begin", "detect", "return", "select"}
        /\ loop' \in {"detect", "local", "select", "exited", "begin"}
        /\ UNCHANGED <<request, synced>>
    BY <1>2, Zenon DEF BeginPass, Detect, ReturnFromStart, ReturnFromSchedule, TakeCancellation,
       TakeTick, tableVars
  <2> QED
    BY <1>1, <2>1
<1>3. CASE DetectFails \/ (ScanEnds /\ loop' = "actions")
  <2>1. /\ loop \in {"detect", "collect"} /\ loop' = "actions"
        /\ UNCHANGED <<request, synced>>
    BY <1>3 DEF DetectFails, ScanEnds, tableVars
  <2>2. pass'.failed
    BY <1>3, "actions" # "sync", Zenon DEF DetectFails, ScanEnds, Pass
  <2> QED
    BY <2>1, <2>2
<1>4. CASE ScanEnds /\ loop' # "actions"
  BY <1>4 DEF ScanEnds, ScanOver, sourceVars, tokenVars
<1>5. ASSUME NEW reported \in BOOLEAN, NEW error \in BOOLEAN, SyncLocal(reported, error)
      PROVE  TableInv'
  <2>1. loop = "local" /\ loop' = "collect" /\ UNCHANGED <<request, synced>>
    BY <1>5, Zenon DEF SyncLocal, tableVars
  <2> QED
    BY <1>1, <2>1
<1>6. CASE AskSource
  <2>1. loop = "collect" /\ loop' = "collect" /\ UNCHANGED <<request, synced>>
    BY <1>6, Zenon DEF AskSource, tableVars, loopVars
  <2> QED
    BY <1>1, <2>1
<1>7. ASSUME loop = "sync", UNCHANGED <<sourceVars, loopVars, request, synced, lost>>,
             routed \subseteq routed',
             call'.pc = "arrived" /\ call'.taken /\ request = "patch" => scan.found \subseteq routed'
      PROVE  TableInv'
  <2>1. Led \subseteq Led' /\ routed' \subseteq Led'
    BY <1>7, Zenon DEF Led
  <2>2. ScanOver' /\ scan' = scan /\ loop' = loop /\ pass' = pass
    BY <1>7 DEF ScanOver, sourceVars, loopVars
  <2>3. call'.pc = "arrived" /\ call'.taken /\ request' = "patch" => scan'.found \subseteq Led'
    BY <1>7, <2>1, <2>2, Zenon
  <2>4. synced # "done"
    BY <1>7
  <2> QED
    BY <1>7, <2>2, <2>3, <2>4
<1>8. CASE Exchange \/ MetadataIssues
  <2>1. /\ loop = "sync" /\ UNCHANGED <<sourceVars, loopVars, tableVars>>
        /\ \/ UseCached \/ AskMetadata \/ Receive
           \/ \E life \in Lifetimes, told \in BOOLEAN : Issue(life, told)
    <3>1. TRUE \in BOOLEAN /\ FALSE \in BOOLEAN
      OBVIOUS
    <3> QED
      BY <1>8, <3>1, Zenon DEF Exchange, MetadataIssues
  <2>2. call'.pc # "arrived"
    BY <2>1 DEF UseCached, AskMetadata, Receive, Issue, NoCall, Call
  <2> QED
    BY <1>7, <2>1, <2>2 DEF tableVars
<1>9. CASE ApiTakes
  <2>1. /\ loop = "sync" /\ UNCHANGED <<sourceVars, loopVars, request, synced, lost>>
        /\ call'.taken <=> call.life > 0
        /\ routed' = IF request = "patch" /\ call.life > 0 THEN routed \cup scan.found ELSE routed
    BY <1>9, Zenon DEF ApiTakes, Arrive, Call
  <2>2. /\ routed \subseteq routed'
        /\ call'.taken /\ request = "patch" => scan.found \subseteq routed'
    <3>1. CASE request = "patch" /\ call.life > 0
      BY <2>1, <3>1, Zenon
    <3>2. CASE ~(request = "patch" /\ call.life > 0)
      BY <2>1, <3>2, Zenon
    <3> QED
      BY <3>1, <3>2, Zenon
  <2> QED
    BY <1>7, <2>1, <2>2
<1>10. CASE GotTable
  <2>1. CASE UpToDate
    <3>1. SyncEnds("done", FALSE) /\ UNCHANGED <<sourceVars, routed, lost>> /\ loop = "sync"
      BY <1>10, <2>1, Zenon DEF GotTable
    <3>2. scan.found \subseteq Led /\ FALSE \in BOOLEAN
      BY <2>1, Zenon DEF UpToDate, Led
    <3> QED
      BY <3>1, <3>2, SyncEndsInv
  <2>2. CASE ~UpToDate
    <3>1. /\ loop = "sync" /\ loop' = "sync" /\ request' = "patch"
          /\ call' = NoCall
          /\ UNCHANGED <<sourceVars, synced, routed, lost>>
      BY <1>10, <2>2, Zenon DEF GotTable, Return
    <3> QED
      BY <3>1 DEF NoCall, ScanOver, sourceVars
  <2> QED
    BY <2>1, <2>2
<1>11. CASE UpdateDone
  <2>1. /\ SyncEnds("done", TRUE) /\ UNCHANGED <<sourceVars, routed, lost>> /\ loop = "sync"
        /\ call.pc = "arrived" /\ call.taken /\ request = "patch"
    BY <1>11, Zenon DEF UpdateDone, Return
  <2>2. scan.found \subseteq Led /\ TRUE \in BOOLEAN
    BY <2>1, Zenon
  <2> QED
    BY <2>1, <2>2, SyncEndsInv
<1>12. CASE SyncFails
  <2>1. /\ SyncEnds("failed", request = "patch") /\ UNCHANGED <<sourceVars, routed, lost>>
        /\ loop = "sync"
    BY <1>12, Zenon DEF SyncFails
  <2>2. (request = "patch") \in BOOLEAN /\ "failed" # "done"
    OBVIOUS
  <2> QED
    BY <2>1, <2>2, SyncEndsInv
<1>13. CASE RunActions
  <2>1. /\ loop = "actions" /\ loop' = "return" /\ synced' = "no" /\ request' = request
    BY <1>13, Zenon DEF RunActions
  <2> QED
    BY <2>1
<1>14. CASE RunBatch
  BY <1>14, Zenon DEF RunBatch, sourceVars, tokenVars, loopVars, tableVars, ScanOver, Led
<1>15. CASE Cancel
  <2>1. /\ pass'.failed <=> pass.failed
        /\ UNCHANGED <<sourceVars, tokenVars, tableVars, loop>>
    BY <1>15, Zenon DEF Cancel, Pass
  <2> QED
    BY <2>1, Zenon DEF sourceVars, tokenVars, tableVars, ScanOver, Led
<1>16. CASE Tick
  <2>1. loop = "select" /\ loop' = loop /\ UNCHANGED <<request, synced>>
    BY <1>16, Zenon DEF Tick, tableVars
  <2> QED
    BY <1>1, <2>1
<1>17. CASE Elapse
  <2>1. /\ loop \in {"return", "select", "local", "collect", "sync"} /\ loop' = loop
        /\ UNCHANGED <<sourceVars, tableVars>>
        /\ TokenElapses
    BY <1>17, Zenon DEF Elapse, InContext
  <2>2. call'.pc = call.pc /\ (call'.taken <=> call.taken)
    BY <2>1, Zenon DEF TokenElapses, Call
  <2>3. scan' = scan /\ Led' = Led /\ request' = request /\ synced' = synced /\ (ScanOver' <=> ScanOver)
    BY <2>1, Zenon DEF sourceVars, tableVars, Led, ScanOver
  <2>4. loop' # "actions"
    BY <2>1
  <2> QED
    BY <2>1, <2>2, <2>3, <2>4, Zenon
<1>18. CASE Republish
  <2>1. scan' = scan /\ origins' = origins /\ UNCHANGED <<tokenVars, loopVars, tableVars>>
    BY <1>18, Zenon DEF Republish, Publish
  <2> QED
    BY <2>1, Zenon DEF tokenVars, loopVars, tableVars, ScanOver, Led
<1>19. CASE Taken
  <2>1. UNCHANGED <<sourceVars, tokenVars, loopVars, request, synced>>
    BY <1>19, Zenon DEF Taken
  <2>2. loop \in {"sync", "actions"} => Led \subseteq Led'
    BY <1>19 DEF Taken, Led
  <2>3. "sync" \in {"sync", "actions"} /\ "actions" \in {"sync", "actions"} /\ "patch" # "idle"
    OBVIOUS
  <2> QED
    BY <2>1, <2>2, <2>3, Zenon DEF sourceVars, tokenVars, loopVars, ScanOver
<1>20. CASE UNCHANGED vars
  BY <1>20, Zenon DEF vars, sourceVars, tokenVars, loopVars, tableVars, ScanOver, Led
<1> QED
  BY <1>2, <1>3, <1>4, <1>5, <1>6, <1>8, <1>9, <1>10, <1>11, <1>12, <1>13, <1>14, <1>15, <1>16,
     <1>17, <1>18, <1>19, <1>20, Zenon DEF Next, Work

-----------------------------------------------------------------------------
(* The properties of a pass.                                               *)

GatewayInv ==
  /\ SourcesTypeOK
  /\ pass \in Pass
  /\ ScanInv
  /\ TableInv

LEMMA GatewayInvHolds == Spec => []GatewayInv
<1>1. Init => ScanInv
  BY InitScanInv DEF Init
<1>2. Switches /\ SourcesTypeOK /\ ScanInv /\ [Next]_vars => ScanInv'
  BY StepOfSources, StepScanInv
<1>3. Switches /\ TokenTypeOK /\ TableInv /\ [Next]_vars => TableInv'
  BY StepTableInv, Zenon DEF Switches, TokenTypeOK
<1>4. SourcesTypeOK /\ Switches /\ ScanInv /\ TableInv => GatewayInv
  BY Zenon DEF GatewayInv, Switches
<1> QED
  BY <1>1, <1>2, <1>3, <1>4, InitTableInv, TypeCorrect, TypeParts, PTL DEF Spec

(* After Sync, what the sources that nobody touched hold was found.        *)
LEMMA FoundLeads ==
  ASSUME GatewayInv, synced = "done"
  PROVE  /\ \A i \in steady : i \notin scan.errs => published[i].routes \subseteq Led
         /\ \A i \in steady : i \in scan.errs => ~(Local(i) /\ Readable(i))
<1>1. scan.found \subseteq Led /\ ScanOver
  BY DEF GatewayInv, TableInv
<1>2. \A i \in steady : i < scan.at
  BY <1>1, SourceNumbers DEF GatewayInv, SourcesTypeOK, ScanOver
<1> QED
  BY <1>1, <1>2, Zenon DEF GatewayInv, ScanInv

(* Collect: what the other sources hold is applied if one fails, and a     *)
(* local list that can be read never counts among the failed.              *)
THEOREM HealthySourcesApplied == Spec => []HealthyApplied
<1>1. GatewayInv => HealthyApplied
  <2> SUFFICES ASSUME GatewayInv, synced = "done", NEW i \in steady,
                      i \notin scan.errs \/ (Local(i) /\ Readable(i))
               PROVE  Offered(i) \subseteq Led
    BY Zenon DEF HealthyApplied
  <2>1. published[i].routes \subseteq Led
    BY FoundLeads
  <2> QED
    BY <2>1 DEF Offered
<1> QED
  BY <1>1, GatewayInvHolds, PTL

(* RunOnce: a pass whose failed actions do not run has left out nothing    *)
(* that a source published before it began and kept.                       *)
THEOREM NoLossIsSilent == Spec => NothingLostSilently
<1>1. GatewayInv /\ RunActions /\ pass'.ran # "failed" =>
        synced = "done" /\ \A i \in steady : published[i].routes \subseteq Led
  <2> SUFFICES ASSUME GatewayInv, RunActions, pass'.ran # "failed"
               PROVE  synced = "done" /\ \A i \in steady : published[i].routes \subseteq Led
    OBVIOUS
  <2>1. ~pass.failed /\ loop = "actions"
    BY Zenon DEF GatewayInv, Pass, RunActions, ActionsOf
  <2>2. synced = "done" /\ scan.errs = {}
    BY <2>1 DEF GatewayInv, TableInv
  <2> QED
    BY <2>2, FoundLeads
<1>2. GatewayInv /\ [Next]_vars =>
        [RunActions /\ pass'.ran # "failed" =>
           /\ synced = "done"
           /\ \A i \in steady : published[i].routes \subseteq Led]_vars
  BY <1>1
<1> QED
  BY <1>2, GatewayInvHolds, PTL DEF Spec, NothingLostSilently

(* Sync: what is led here was in a readable list after this pass began.    *)
THEOREM AppliedIsOffered == Spec => AppliedWasOffered
<1>1. GatewayInv /\ [Next]_vars => [routed' \ routed \subseteq offered]_vars
  <2> SUFFICES ASSUME GatewayInv, Next PROVE routed' \ routed \subseteq offered
    OBVIOUS
  <2>1. CASE ApiTakes
    <3>1. routed' \subseteq routed \cup scan.found
      BY <2>1 DEF ApiTakes
    <3> QED
      BY <3>1 DEF GatewayInv, ScanInv
  <2>2. CASE Taken
    BY <2>2 DEF Taken
  <2>3. CASE routed' = routed
    BY <2>3
  <2> QED
    BY <2>1, <2>2, <2>3, Zenon DEF Next, Work, BeginPass, Detect, DetectFails, SyncLocal,
       AskSource, ScanEnds, Exchange, MetadataIssues, GotTable, UpdateDone, SyncFails, RunActions,
       RunBatch, ReturnFromStart, ReturnFromSchedule, TakeCancellation, TakeTick, Cancel, Tick,
       Elapse, Republish, tableVars
<1> QED
  BY <1>1, GatewayInvHolds, PTL DEF Spec, AppliedWasOffered

-----------------------------------------------------------------------------
(* The loop.                                                               *)

(* The place App knows of: Collect and Sync are both in syncCloud.         *)
Seen == IF loop \in {"collect", "sync"} THEN "cloud" ELSE loop

Given == [periodic |-> TRUE, local |-> TRUE, dryRun |-> FALSE, runOnStart |-> FALSE]

LEMMA GivenFields ==
  /\ Given.periodic = TRUE /\ Given.local = TRUE
  /\ Given.dryRun = FALSE /\ Given.runOnStart = FALSE
BY Zenon DEF Given

(* What a step of the loop that only moves it, or does not, leaves alone.  *)
Idle == UNCHANGED <<tick, cancelled, passes>>

LEMMA LoopStutters ==
  ASSUME Idle, pass' = pass, Seen' = Seen
  PROVE  UNCHANGED Loop!vars
BY DEF Idle, Seen, Loop!vars

LEMMA LoopHalf ==
  ASSUME pass \in Pass, NEW reported \in BOOLEAN, NEW error \in BOOLEAN, NEW next,
         pass.ended => error, Idle, Seen' = next,
         pass' = [pass EXCEPT !.failed = pass.failed \/ error,
                              !.changed = pass.changed \/ reported]
  PROVE  Loop!Half(next)
<1>1. (pass.changed \/ reported) = (pass.changed \/ (reported /\ ~Given.dryRun))
  BY GivenFields, Zenon
<1>2. pass' = [pass EXCEPT !.failed = pass.failed \/ error,
                           !.changed = pass.changed \/ (reported /\ ~Given.dryRun)]
  BY <1>1
<1> QED
  BY <1>2, Zenon DEF Loop!Half, Given, Seen

LEMMA LoopInit == Init => Loop!Init
  BY DEF Init, Loop!Init, NewPass, Loop!NewPass

LEMMA StepOfLoop == pass \in Pass /\ Places /\ [Next]_vars => [Loop!Next]_(Loop!vars)
<1> SUFFICES ASSUME pass \in Pass, Places, [Next]_vars PROVE Loop!Next \/ UNCHANGED Loop!vars
  BY Zenon
<1> USE DEF Loop!outside, Loop!RunPass, Loop!Select
<1>1. CASE BeginPass
  <2>1. passes' \in 1 .. 2 /\ (passes' = 0) = FALSE
    BY <1>1 DEF BeginPass, Places
  <2>2. Loop!BeginPass
    BY <1>1, <2>1 DEF BeginPass, Loop!BeginPass, Loop!ClearFirstCycle, Loop!UpTo2
  <2> QED
    BY <2>2, Zenon DEF Loop!Next
<1>2. CASE Detect \/ DetectFails
  <2>1. Loop!Detect
    BY <1>2 DEF Detect, DetectFails, Loop!Detect
  <2> QED
    BY <2>1, Zenon DEF Loop!Next
<1>3. ASSUME NEW reported \in BOOLEAN, NEW error \in BOOLEAN, SyncLocal(reported, error)
      PROVE  Loop!Next
  <2>1. /\ loop = "local" /\ loop' = "collect" /\ (pass.ended => error) /\ Idle
        /\ pass' = [pass EXCEPT !.failed = pass.failed \/ error, !.changed = pass.changed \/ reported]
    BY <1>3, Zenon DEF SyncLocal, Idle
  <2>2. Loop!Half("cloud")
    BY <2>1, LoopHalf DEF Seen
  <2>3. Loop!SyncLocal
    BY <2>1, <2>2 DEF Loop!SyncLocal, Idle
  <2> QED
    BY <2>3, Zenon DEF Loop!Next
<1>4. ASSUME loop \in {"collect", "sync"}, loop' = "actions", Idle,
             NEW reported \in BOOLEAN, NEW error \in BOOLEAN, pass.ended => error,
             pass' = [pass EXCEPT !.failed = pass.failed \/ error, !.changed = pass.changed \/ reported]
      PROVE  Loop!Next
  <2>1. Loop!Half("actions")
    BY <1>4, LoopHalf DEF Seen
  <2>2. Loop!SyncCloud
    BY <1>4, <2>1 DEF Loop!SyncCloud, Idle
  <2> QED
    BY <2>2, Zenon DEF Loop!Next
<1>5. CASE ScanEnds
  <2>1. CASE scan.found = {}
    <3>1. /\ loop = "collect" /\ loop' = "actions" /\ Idle
          /\ pass' = [pass EXCEPT !.failed = TRUE]
      BY <1>5, <2>1, Zenon DEF ScanEnds, Idle
    <3>2. pass.failed \in BOOLEAN /\ pass.changed \in BOOLEAN
      BY Zenon DEF Pass
    <3>3. (pass.failed \/ TRUE) = TRUE /\ (pass.changed \/ FALSE) = pass.changed
      BY <3>2, Zenon
    <3>4. pass' = [pass EXCEPT !.failed = pass.failed \/ TRUE, !.changed = pass.changed \/ FALSE]
      BY <3>1, <3>3 DEF Pass
    <3>5. TRUE \in BOOLEAN /\ FALSE \in BOOLEAN
      OBVIOUS
    <3> QED
      BY <1>4, <3>1, <3>4, <3>5
  <2>2. CASE scan.found # {}
    <3>1. loop = "collect" /\ loop' = "sync" /\ pass' = pass /\ Idle
      BY <1>5, <2>2, Zenon DEF ScanEnds, Idle
    <3> QED
      BY <3>1, LoopStutters DEF Seen
  <2> QED
    BY <2>1, <2>2
<1>6. ASSUME loop = "sync", NEW changes \in BOOLEAN, NEW result \in {"done", "failed"},
             SyncEnds(result, changes), pass.ended => result = "failed", Idle
      PROVE  Loop!Next
  <2> DEFINE error == SomeSourceFailed \/ result = "failed"
  <2>1. /\ loop' = "actions"
        /\ pass' = [pass EXCEPT !.failed = pass.failed \/ error, !.changed = pass.changed \/ changes]
    BY <1>6, Zenon DEF SyncEnds
  <2>2. error \in BOOLEAN /\ (pass.ended => error) /\ loop \in {"collect", "sync"}
    BY <1>6
  <2> HIDE DEF error
  <2> QED
    BY <1>4, <1>6, <2>1, <2>2
<1>7. CASE GotTable \/ UpdateDone
  <2>1. CASE loop' = "actions"
    <3>1. /\ loop = "sync" /\ ~pass.ended /\ Idle
          /\ SyncEnds("done", FALSE) \/ SyncEnds("done", TRUE)
      BY <1>7, <2>1, "sync" # "actions", Zenon DEF GotTable, UpdateDone, Idle
    <3>2. TRUE \in BOOLEAN /\ FALSE \in BOOLEAN /\ "done" \in {"done", "failed"}
      OBVIOUS
    <3> QED
      BY <1>6, <3>1, <3>2, Zenon
  <2>2. CASE loop' # "actions"
    <3>1. pass' = pass /\ loop' = loop /\ Idle
      BY <1>7, <2>2, Zenon DEF GotTable, UpdateDone, SyncEnds, Idle
    <3> QED
      BY <3>1, LoopStutters DEF Seen
  <2> QED
    BY <2>1, <2>2
<1>8. CASE SyncFails
  <2>1. loop = "sync" /\ SyncEnds("failed", request = "patch") /\ Idle
    BY <1>8, Zenon DEF SyncFails, Idle
  <2>2. (request = "patch") \in BOOLEAN /\ "failed" \in {"done", "failed"}
    OBVIOUS
  <2> QED
    BY <1>6, <2>1, <2>2, Zenon
<1>9. CASE RunActions
  <2>1. ActionsOf = Loop!ActionsOf
    BY GivenFields, Zenon DEF ActionsOf, Loop!ActionsOf, Given
  <2>2. /\ loop = "actions" /\ loop' = "return" /\ Idle
        /\ pass' = [pass EXCEPT !.ran = Loop!ActionsOf]
    BY <1>9, <2>1, Zenon DEF RunActions, Idle
  <2>3. Loop!RunActions
    BY <2>2 DEF Loop!RunActions, Idle
  <2> QED
    BY <2>3, Zenon DEF Loop!Next
<1>10. CASE ReturnFromStart
  <2>1. Loop!ReturnFromStart
    BY <1>10 DEF ReturnFromStart, Loop!ReturnFromStart
  <2> QED
    BY <2>1, Zenon DEF Loop!Next
<1>11. CASE ReturnFromSchedule
  <2>1. Loop!ReturnFromSchedule
    BY <1>11 DEF ReturnFromSchedule, Loop!ReturnFromSchedule
  <2> QED
    BY <2>1, Zenon DEF Loop!Next
<1>12. CASE TakeCancellation
  <2>1. Loop!TakeCancellation
    BY <1>12 DEF TakeCancellation, Loop!TakeCancellation
  <2> QED
    BY <2>1, Zenon DEF Loop!Next
<1>13. CASE TakeTick
  <2>1. Loop!TakeTick
    BY <1>13 DEF TakeTick, Loop!TakeTick, NewPass, Loop!NewPass
  <2> QED
    BY <2>1, Zenon DEF Loop!Next
<1>14. CASE Cancel
  <2>1. Loop!Cancel
    BY <1>14 DEF Cancel, Loop!Cancel, Loop!Running, Running, Places
  <2> QED
    BY <2>1, Zenon DEF Loop!Next
<1>15. CASE Tick
  <2>1. Loop!Tick
    BY <1>15 DEF Tick, Loop!Tick, Loop!Running
  <2> QED
    BY <2>1, Zenon DEF Loop!Next
<1>16. CASE Elapse
  <2>1. loop' = loop /\ Idle
    BY <1>16, Zenon DEF Elapse, Idle
  <2>2. CASE InContext /\ timeLeft = 1
    <3>1. pass' = [pass EXCEPT !.ended = TRUE] /\ ~pass.ended
      BY <1>16, <2>2 DEF Elapse, InContext
    <3>2. Loop!PassTimesOut
      BY <2>1, <2>2, <3>1 DEF InContext, Loop!PassTimesOut, Idle
    <3> QED
      BY <3>2, Zenon DEF Loop!Next
  <2>3. CASE ~(InContext /\ timeLeft = 1)
    <3>1. CASE InContext
      <4>1. /\ pass' = [pass EXCEPT !.ended = (timeLeft = 1)]
            /\ (timeLeft = 1) = FALSE
            /\ ~pass.ended
        BY <1>16, <2>3, <3>1 DEF Elapse, InContext
      <4>2. pass.ended = FALSE
        BY <4>1, Zenon DEF Pass
      <4> QED
        BY <2>1, <4>1, <4>2, LoopStutters DEF Seen, Pass
    <3>2. CASE ~InContext
      <4>1. pass' = pass
        BY <1>16, <3>2, Zenon DEF Elapse
      <4> QED
        BY <2>1, <4>1, LoopStutters DEF Seen
    <3> QED
      BY <3>1, <3>2
  <2> QED
    BY <2>2, <2>3
<1>17. CASE UNCHANGED loopVars \/ UNCHANGED vars
  <2>1. loop' = loop /\ pass' = pass /\ Idle
    BY <1>17, Zenon DEF vars, loopVars, Idle
  <2> QED
    BY <2>1, LoopStutters DEF Seen
<1> QED
  BY <1>1, <1>2, <1>3, <1>5, <1>7, <1>8, <1>9, <1>10, <1>11, <1>12, <1>13, <1>14, <1>15, <1>16,
     <1>17, Zenon DEF Next, Work, AskSource, Exchange, MetadataIssues, ApiTakes, RunBatch,
     Republish, Taken

(* App.Run: sources, Sync and actions are halves and actions of the loop.  *)
THEOREM LoopIsImplemented == Spec => ImplementsLoop
<1>1. TypeOK => pass \in Pass /\ Places
  BY TypeParts, Zenon DEF Switches
<1> QED
  BY <1>1, LoopInit, StepOfLoop, TypeCorrect, PTL DEF Spec, Loop!Spec, ImplementsLoop

-----------------------------------------------------------------------------
(* What was proved of the loop alone, taken over.                          *)

LoopAlone == INSTANCE AppLoopProofs WITH
  Configurations <- {Given},
  cfg <- Given,
  loop <- Seen,
  firstCycle <- (passes = 0),
  trigger <- 0,
  signals <- FALSE,
  forwarder <- "receive",
  asked <- FALSE,
  tickIsOld <- FALSE

ActedOn ==
  loop \in {"return", "select", "exited"} /\ passes > 0 =>
    /\ (pass.ran = "failed") = pass.failed
    /\ pass.changed => pass.ran # "nothing"
    /\ pass.ran = "success" => ~pass.failed /\ pass.changed

LEMMA SameLoop == Loop!Init /\ [][Loop!Next]_(Loop!vars) => LoopAlone!Spec
<1>1. Loop!Init => LoopAlone!Init
  BY Zenon DEF Loop!Init, LoopAlone!Init, Loop!NewPass, LoopAlone!NewPass, Given, Seen
<1>2. [Loop!Next]_(Loop!vars) => [LoopAlone!Next]_(LoopAlone!vars)
  BY Zenon DEF Loop!Next, LoopAlone!Next, Loop!RunPass, LoopAlone!RunPass, Loop!Select,
     LoopAlone!Select, Loop!Forward, LoopAlone!Forward, Loop!BeginPass, LoopAlone!BeginPass,
     Loop!Detect, LoopAlone!Detect, Loop!SyncLocal, LoopAlone!SyncLocal,
     Loop!SyncLocalPanics, LoopAlone!SyncLocalPanics, Loop!SyncCloud, LoopAlone!SyncCloud,
     Loop!RunActions, LoopAlone!RunActions, Loop!ReturnAndExit, LoopAlone!ReturnAndExit,
     Loop!ReturnFromStart, LoopAlone!ReturnFromStart, Loop!ReturnFromRefresh,
     LoopAlone!ReturnFromRefresh, Loop!ReturnFromSchedule, LoopAlone!ReturnFromSchedule,
     Loop!TakeCancellation, LoopAlone!TakeCancellation, Loop!TakeTrigger,
     LoopAlone!TakeTrigger, Loop!TakeTick, LoopAlone!TakeTick, Loop!Receive,
     LoopAlone!Receive, Loop!Send, LoopAlone!Send, Loop!Leave, LoopAlone!Leave, Loop!Hangup,
     LoopAlone!Hangup, Loop!HangupKills, LoopAlone!HangupKills, Loop!Cancel,
     LoopAlone!Cancel, Loop!PassTimesOut, LoopAlone!PassTimesOut, Loop!Tick, LoopAlone!Tick,
     Loop!Half, LoopAlone!Half, Loop!ActionsOf, LoopAlone!ActionsOf, Loop!ClearFirstCycle,
     LoopAlone!ClearFirstCycle, Loop!UpTo2, LoopAlone!UpTo2, Loop!NewPass,
     LoopAlone!NewPass, Loop!Enqueue, LoopAlone!Enqueue, Loop!Reset, LoopAlone!Reset,
     Loop!Running, LoopAlone!Running, Loop!outside, LoopAlone!outside, Loop!inside,
     LoopAlone!inside, Loop!vars, LoopAlone!vars, Given, Seen
<1> QED
  BY <1>1, <1>2, PTL DEF LoopAlone!Spec

(***************************************************************************)
(* RunOnce: whatever sources, tokens and Sync do, and wherever its context *)
(* ends, a pass that is over has run the failed actions if and only if it  *)
(* had an error, the success actions only if routes changed, and one of    *)
(* the two if they did.                                                    *)
(***************************************************************************)
THEOREM PassesAreActedOn == Spec => []ActedOn
<1>1. {Given} \subseteq LoopAlone!Config
  BY DEF Given, LoopAlone!Config
<1>2. LoopAlone!Spec => []LoopAlone!FailureReported
  BY <1>1, LoopAlone!FailuresReported
<1>3. LoopAlone!Spec => []LoopAlone!ChangesAnnounced
  BY <1>1, LoopAlone!ChangesAreAnnounced
<1>4. LoopAlone!FailureReported /\ LoopAlone!ChangesAnnounced => ActedOn
  <2>1. loop \in {"return", "select", "exited"} => Seen = loop
    BY DEF Seen
  <2> QED
    BY <2>1, GivenFields, Zenon DEF ActedOn, LoopAlone!FailureReported,
       LoopAlone!ChangesAnnounced, LoopAlone!PassOver
<1> QED
  BY <1>2, <1>3, <1>4, SameLoop, LoopIsImplemented, PTL DEF Loop!Spec, ImplementsLoop

=============================================================================
