--------------------------- MODULE ServiceProofs ---------------------------
(***************************************************************************)
(* Theorems about Service, for every set of configurations and hosts, and  *)
(* however often something goes wrong.                                     *)
(***************************************************************************)
EXTENDS Service, AppLoopProofs

LEMMA TypeHalvesNext == Switches' /\ Places' => TypeOK'
  BY Zenon DEF TypeOK, Switches, Places

(* What a step of main leaves of the loop: nothing, its end or all of it.  *)
LEMMA ServiceStepType == TypeOK /\ ServiceTypeOK /\ [ServiceNext]_serviceVars => TypeOK'
<1> SUFFICES ASSUME TypeOK, ServiceTypeOK, [ServiceNext]_serviceVars PROVE TypeOK'
  OBVIOUS
<1>1. ASSUME UNCHANGED vars PROVE TypeOK'
  BY <1>1, StepType
<1>2. ASSUME NEW code, Leaves(code) PROVE TypeOK'
  <2>1. Switches'
    BY <1>2, TypeHalves, Zenon DEF Leaves, Switches
  <2>2. /\ loop' = "exited" /\ Places
        /\ UNCHANGED <<cfg, trigger, tick, passes, forwarder>>
    BY <1>2, TypeHalves, Zenon DEF Leaves
  <2>3. Places'
    BY <2>2 DEF Places
  <2> QED
    BY <2>1, <2>3, TypeHalvesNext
<1>3. CASE Start
  <2>1. \/ UNCHANGED vars
        \/ Leaves(ExitCode(TRUE))
    BY <1>3, Zenon DEF Start, LoadConfig, Resolve, ProbeToken, ProbeInstance, ProbeGoogle,
       NewManager, NotifyOnSignal, ResolveProvider, Detected, Enters
  <2> QED
    BY <1>1, <1>2, <2>1, Zenon
<1>4. CASE InRun(Next)
  BY <1>4, StepType DEF InRun
<1>5. CASE MainReturns
  BY <1>1, <1>5, Zenon DEF MainReturns
<1>6. CASE CancelStart
  <2>1. CASE stage = "load"
    BY <1>2, <1>6, <2>1, Zenon DEF CancelStart
  <2>2. CASE stage # "load"
    <3>1. /\ cancelled' = TRUE
          /\ UNCHANGED <<cfg, loop, firstCycle, pass, trigger, tick, signals, forwarder,
                         asked, tickIsOld, passes>>
      BY <1>6, <2>2, Zenon DEF CancelStart
    <3>2. Switches'
      BY <3>1, TypeHalves, Zenon DEF Switches
    <3>3. Places'
      BY <3>1, TypeHalves, Zenon DEF Places
    <3> QED
      BY <3>2, <3>3, TypeHalvesNext
  <2> QED
    BY <2>1, <2>2
<1>7. CASE HangupKillsStart
  <2>1. Switches'
    BY <1>7, TypeHalves, Zenon DEF HangupKillsStart, Switches
  <2>2. /\ loop' = "killed" /\ Places
        /\ UNCHANGED <<cfg, trigger, tick, passes, forwarder>>
    BY <1>7, TypeHalves, Zenon DEF HangupKillsStart
  <2>3. Places'
    BY <2>2 DEF Places
  <2> QED
    BY <2>1, <2>3, TypeHalvesNext
<1>8. CASE Restart
  <2>1. Switches'
    BY <1>8, NewPassType, Zenon DEF Restart, Switches
  <2>2. /\ loop' = "begin" /\ trigger' = 0 /\ tick' = "absent" /\ forwarder' = "receive"
        /\ passes' = 0 /\ cfg' = cfg /\ Places
    BY <1>8, TypeHalves, Zenon DEF Restart
  <2>3. Places'
    BY <2>2 DEF Places
  <2> QED
    BY <2>1, <2>3, TypeHalvesNext
<1>9. CASE UNCHANGED serviceVars
  BY <1>1, <1>9, Zenon DEF serviceVars
<1> QED
  BY <1>3, <1>4, <1>5, <1>6, <1>7, <1>8, <1>9, Zenon DEF ServiceNext

(***************************************************************************)
(* The variables of startup keep their types.                              *)
(***************************************************************************)
LEMMA StartTypes == ServiceTypeOK /\ [ServiceNext]_serviceVars => ServiceTypeOK'
<1> SUFFICES ASSUME ServiceTypeOK, [ServiceNext]_serviceVars PROVE ServiceTypeOK'
  OBVIOUS
<1> USE DEF ServiceTypeOK
<1>0. ASSUME Disturb \/ UNCHANGED budget PROVE budget' \in 0 .. MaxDisturbances
  BY <1>0, ServiceAssumption DEF Disturb
<1>1. ASSUME UNCHANGED startVars PROVE ServiceTypeOK'
  BY <1>1 DEF startVars
<1>2. CASE LoadConfig
  BY <1>2 DEF LoadConfig, Enters, Leaves, ExitCode
<1>3. CASE Resolve
  BY <1>3 DEF Resolve, ResolveProvider, Enters, Leaves, ExitCode
<1>4. CASE ProbeToken \/ ProbeInstance
  <2>1. /\ stage' \in {"manager", "instance", "google"}
        /\ provider' \in {provider, "aws"}
        /\ Disturb \/ UNCHANGED budget
        /\ UNCHANGED <<setup, exit>>
    BY <1>4, Zenon DEF ProbeToken, ProbeInstance, Answers, Errs, Hangs, Detected, Enters
  <2>2. late' \in BOOLEAN
    BY <1>4, Zenon DEF ProbeToken, ProbeInstance, Answers, Errs, Hangs
  <2> QED
    BY <1>0, <2>1, <2>2 DEF Clouds
<1>5. CASE ProbeGoogle
  <2>1. /\ \/ stage' = "manager" /\ provider' = "yandex" /\ UNCHANGED exit
           \/ stage' = "down" /\ exit' = "error" /\ UNCHANGED provider
        /\ Disturb \/ UNCHANGED budget
        /\ late' = FALSE
        /\ UNCHANGED setup
    BY <1>5, Zenon DEF ProbeGoogle, Detected, Enters, Leaves, ExitCode
  <2> QED
    BY <1>0, <2>1 DEF Clouds
<1>6. CASE NewManager
  <2>1. /\ \/ stage' = "notify" /\ UNCHANGED exit
           \/ stage' = "down" /\ exit' = "error"
        /\ Disturb \/ UNCHANGED budget
        /\ late' = FALSE
        /\ UNCHANGED <<setup, provider>>
    BY <1>6, Zenon DEF NewManager, Enters, Leaves, ExitCode
  <2> QED
    BY <1>0, <2>1
<1>7. CASE NotifyOnSignal
  BY <1>7 DEF NotifyOnSignal, Enters
<1>8. CASE MainReturns
  BY <1>8 DEF MainReturns, ExitCode
<1>9. CASE CancelStart
  <2>1. /\ \/ UNCHANGED <<stage, exit>>
           \/ stage' = "down" /\ exit' = "killed"
        /\ Disturb
        /\ UNCHANGED <<setup, provider, late>>
    BY <1>9, Zenon DEF CancelStart, Leaves
  <2> QED
    BY <1>0, <2>1
<1>10. CASE HangupKillsStart
  BY <1>10 DEF HangupKillsStart
<1>11. CASE Restart
  BY <1>11 DEF Restart
<1>12. CASE InRun(Next) \/ UNCHANGED serviceVars
  BY <1>1, <1>12, Zenon DEF InRun, serviceVars
<1> QED
  BY <1>2, <1>3, <1>4, <1>5, <1>6, <1>7, <1>8, <1>9, <1>10, <1>11, <1>12, Zenon
     DEF ServiceNext, Start

(* From main to the loop, every variable keeps the type its code gives it. *)
THEOREM ServiceTypeCorrect == ServiceSpec => [](TypeOK /\ ServiceTypeOK)
<1>1. ServiceInit => TypeOK
  BY InitType DEF ServiceInit
<1>2. ServiceInit => ServiceTypeOK
  <2>1. MaxDisturbances \in 0 .. MaxDisturbances
    BY ServiceAssumption
  <2> QED
    BY <2>1, Zenon DEF ServiceInit, ServiceTypeOK
<1> QED
  BY <1>1, <1>2, ServiceStepType, StartTypes, PTL DEF ServiceSpec

-----------------------------------------------------------------------------
(* What main does before the loop and after it.                            *)

(* Where main is when it has read the configuration, and probes the cloud. *)
Known == {"resolve", "token", "instance", "google", "manager", "notify", "run"}
Probing == {"token", "instance", "google"}

(***************************************************************************)
(* Nothing but a valid setting gets past LoadConfig, nothing but a static  *)
(* list that parses past Build, nothing but a setting that leaves the      *)
(* cloud open is probed for; what New has resolved by the time it builds   *)
(* the manager is what was told or where the host is, and without access   *)
(* to that there is no manager.                                            *)
(***************************************************************************)
CloudInv ==
  /\ stage \in Known => Told # "bad"
  /\ stage \in Known \ {"resolve"} => ~setup.badEntry
  /\ stage \in Probing => Told \notin Clouds
  /\ stage \in {"manager", "notify", "run"} => provider = Intended
  /\ stage \in {"notify", "run"} => Accessible(provider)

LEMMA StepCloudInv == CloudInv /\ [ServiceNext]_serviceVars => CloudInv'
<1> SUFFICES ASSUME CloudInv, [ServiceNext]_serviceVars PROVE CloudInv'
  OBVIOUS
<1> USE DEF CloudInv, Known, Probing, Intended, Accessible, HostIs
<1>0. setup' = setup /\ Told' = Told
  BY Zenon DEF ServiceNext, Start, LoadConfig, Resolve, ProbeToken, ProbeInstance, ProbeGoogle,
     NewManager, NotifyOnSignal, MainReturns, CancelStart, HangupKillsStart, Restart, InRun,
     startVars, serviceVars, Told
<1>1. ASSUME stage' \in {"down", "load"} PROVE CloudInv'
  BY <1>1
<1>2. ASSUME UNCHANGED <<stage, provider>> PROVE CloudInv'
  BY <1>0, <1>2
<1>3. CASE LoadConfig
  <2>1. stage' = "down" \/ (stage' = "resolve" /\ Told # "bad")
    BY <1>3, Zenon DEF LoadConfig, Enters, Leaves, Valid
  <2> QED
    BY <1>0, <2>1
<1>4. CASE Resolve
  <2>1. /\ stage = "resolve"
        /\ \/ stage' = "down"
           \/ ~setup.badEntry /\ ResolveProvider
    BY <1>4, Zenon DEF Resolve, Leaves
  <2> QED
    BY <1>0, <2>1 DEF ResolveProvider, Enters
<1>5. CASE ProbeToken
  <2>1. /\ stage = "token"
        /\ \/ stage' = "manager" /\ setup.host = "aws" /\ provider' = "aws"
           \/ stage' = "instance"
    BY <1>5, Zenon DEF ProbeToken, Detected, Enters
  <2> QED
    BY <1>0, <2>1
<1>6. CASE ProbeInstance
  <2>1. /\ stage = "instance"
        /\ \/ stage' = "manager" /\ setup.host # "yandex" /\ provider' = "aws"
           \/ stage' = "google"
    BY <1>6, Zenon DEF ProbeInstance, Detected, Enters
  <2> QED
    BY <1>0, <2>1
<1>7. CASE ProbeGoogle
  <2>1. /\ stage = "google"
        /\ \/ stage' = "manager" /\ setup.host = "yandex" /\ provider' = "yandex"
           \/ stage' = "down"
    BY <1>7, Zenon DEF ProbeGoogle, Detected, Enters, Leaves
  <2> QED
    BY <1>0, <2>1
<1>8. CASE NewManager
  <2>1. /\ stage = "manager" /\ provider' = provider
        /\ \/ stage' = "notify" /\ Accessible(provider)
           \/ stage' = "down"
    BY <1>8, Zenon DEF NewManager, Enters, Leaves
  <2> QED
    BY <1>0, <2>1
<1>9. CASE NotifyOnSignal
  BY <1>0, <1>9 DEF NotifyOnSignal, Enters
<1>10. CASE MainReturns \/ HangupKillsStart \/ Restart
  <2>1. stage' = "down" \/ stage' = "load"
    BY <1>10, Zenon DEF MainReturns, HangupKillsStart, Restart
  <2> QED
    BY <1>1, <2>1
<1>11. CASE CancelStart
  <2>1. stage' = "down" \/ UNCHANGED <<stage, provider>>
    BY <1>11, Zenon DEF CancelStart, Leaves
  <2> QED
    BY <1>1, <1>2, <2>1
<1>12. CASE InRun(Next) \/ UNCHANGED serviceVars
  BY <1>2, <1>12, Zenon DEF InRun, startVars, serviceVars
<1> QED
  BY <1>3, <1>4, <1>5, <1>6, <1>7, <1>8, <1>9, <1>10, <1>11, <1>12, Zenon DEF ServiceNext, Start

(* New: the loop runs against the cloud it was told, or the one it is in,  *)
(* whichever probes failed or hung, or, with a list that does not parse or *)
(* no access to that cloud, not at all.                                    *)
THEOREM RunsInItsCloud == ServiceSpec => []CloudAsTold
<1>1. ServiceInit => CloudInv
  BY DEF ServiceInit, CloudInv, Known, Probing
<1>2. CloudInv => CloudAsTold
  BY DEF CloudInv, CloudAsTold, Known
<1> QED
  BY <1>1, <1>2, StepCloudInv, PTL DEF ServiceSpec

-----------------------------------------------------------------------------

(***************************************************************************)
(* Until it runs, the loop is at its beginning; when it has come to its    *)
(* end while running, it has made a pass; the process ends once, and if it *)
(* does with success, then as NoFalseSuccess says.                         *)
(***************************************************************************)
ExitInv ==
  /\ stage \notin {"run", "down"} => loop = "begin"
  /\ stage = "run" /\ loop \notin {"begin", "killed"} => passes > 0
  /\ exit # "none" => stage = "down"
  /\ NoFalseSuccess

LEMMA RunMakesPasses ==
  ASSUME TypeOK, ExitInv, stage = "run", Next
  PROVE  loop' \notin {"begin", "killed"} => passes' > 0
<1> SUFFICES ASSUME loop' \notin {"begin", "killed"} PROVE passes' > 0
  OBVIOUS
<1>1. CASE BeginPass
  BY <1>1, TypeHalves DEF BeginPass, UpTo2, Places
<1>2. CASE ~BeginPass
  <2>1. passes' = passes
    BY <1>2, Zenon DEF Next, RunPass, Select, Forward, Detect, SyncLocal, SyncLocalPanics, SyncCloud,
       RunActions, ReturnAndExit, ReturnFromStart, ReturnFromRefresh, ReturnFromSchedule,
       TakeCancellation, TakeTrigger, TakeTick, Receive, Send, Leave, Hangup, HangupKills, Cancel,
       PassTimesOut, Tick, inside
  <2>2. loop # "begin"
    <3>1. ASSUME loop = "begin" PROVE loop' \in {"begin", "killed"}
      BY <1>2, <3>1 DEF Next, RunPass, Select, Forward, Detect, SyncLocal, SyncLocalPanics,
         SyncCloud, RunActions, ReturnAndExit, ReturnFromStart, ReturnFromRefresh,
         ReturnFromSchedule, TakeCancellation, TakeTrigger, TakeTick, Receive, Send, Leave, Hangup,
         HangupKills, Cancel, PassTimesOut, Tick, inside
    <3> QED
      BY <3>1
  <2>3. loop # "killed"
    <3>1. ASSUME loop = "killed" PROVE loop' = "killed"
      BY <1>2, <3>1 DEF Next, RunPass, Select, Forward, Detect, SyncLocal, SyncLocalPanics,
         SyncCloud, RunActions, ReturnAndExit, ReturnFromStart, ReturnFromRefresh,
         ReturnFromSchedule, TakeCancellation, TakeTrigger, TakeTick, Receive, Send, Leave, Hangup,
         HangupKills, Cancel, PassTimesOut, Tick, inside, Running
    <3> QED
      BY <3>1
  <2> QED
    BY <2>1, <2>2, <2>3 DEF ExitInv
<1> QED
  BY <1>1, <1>2

LEMMA StepExitInv == TypeOK /\ ServiceTypeOK /\ ExitInv /\ [ServiceNext]_serviceVars => ExitInv'
<1> SUFFICES ASSUME TypeOK, ServiceTypeOK, ExitInv, [ServiceNext]_serviceVars PROVE ExitInv'
  OBVIOUS
<1>1. ASSUME stage' = "down", exit' \in {"error", "killed"} PROVE ExitInv'
  BY <1>1 DEF ExitInv, NoFalseSuccess
<1>2. ASSUME stage \notin {"run", "down"}, UNCHANGED <<loop, exit>> PROVE ExitInv'
  <2>1. exit' = "none" /\ loop' = "begin"
    BY <1>2 DEF ExitInv
  <2> QED
    BY <2>1 DEF ExitInv, NoFalseSuccess
<1>3. CASE Start
  <2>1. /\ stage \notin {"run", "down"}
        /\ \/ UNCHANGED <<loop, exit>>
           \/ stage' = "down" /\ exit' = "error"
    <3>1. stage \in {"load", "resolve", "token", "instance", "google", "manager", "notify"}
      BY <1>3, Zenon DEF Start, LoadConfig, Resolve, ProbeToken, ProbeInstance, ProbeGoogle,
         NewManager, NotifyOnSignal
    <3>2. \/ UNCHANGED <<loop, exit>>
          \/ stage' = "down" /\ exit' = "error"
      BY <1>3, Zenon DEF Start, LoadConfig, Resolve, ProbeToken, ProbeInstance, ProbeGoogle,
         NewManager, NotifyOnSignal, ResolveProvider, Detected, Enters, Leaves, ExitCode, vars
    <3> QED
      BY <3>1, <3>2
  <2> QED
    BY <1>1, <1>2, <2>1
<1>4. CASE InRun(Next)
  <2>1. stage = "run" /\ Next /\ UNCHANGED <<stage, exit>>
    BY <1>4, Zenon DEF InRun, startVars
  <2>2. exit' = "none"
    BY <2>1, ServiceTypeOK DEF ExitInv
  <2> QED
    BY <2>1, <2>2, RunMakesPasses DEF ExitInv, NoFalseSuccess
<1>5. CASE MainReturns
  <2>1. /\ stage = "run" /\ stage' = "down"
        /\ UNCHANGED <<loop, cancelled, cfg, pass, passes>>
        /\ \/ loop = "exited" /\ exit' = ExitCode(PassError)
           \/ loop = "exited" /\ cancelled
           \/ exit' \in {"error", "killed"}
    BY <1>5, Zenon DEF MainReturns, vars
  <2>2. ASSUME loop = "exited", exit' = "ok", cancelled \/ exit' = ExitCode(PassError)
        PROVE  ExitInv'
    <3>1. passes > 0
      BY <2>1, <2>2 DEF ExitInv
    <3>2. cancelled \/ cfg.periodic \/ ~pass.failed
      BY <2>2, "ok" # "error", Zenon DEF ExitCode, PassError
    <3>3. NoFalseSuccess'
      BY <2>1, <3>1, <3>2, Zenon DEF NoFalseSuccess
    <3> QED
      BY <2>1, <3>3, "down" # "run", Zenon DEF ExitInv
  <2>3. ASSUME exit' # "ok" PROVE ExitInv'
    BY <2>1, <2>3 DEF ExitInv, NoFalseSuccess
  <2> QED
    BY <2>1, <2>2, <2>3
<1>6. CASE CancelStart
  <2>1. /\ stage \notin {"run", "down"}
        /\ \/ UNCHANGED <<loop, exit>>
           \/ stage' = "down" /\ exit' = "killed"
    BY <1>6, Zenon DEF CancelStart, Starting, Leaves
  <2> QED
    BY <1>1, <1>2, <2>1
<1>7. CASE HangupKillsStart
  BY <1>1, <1>7 DEF HangupKillsStart
<1>8. CASE Restart
  <2>1. stage' = "load" /\ exit' = "none" /\ loop' = "begin"
    BY <1>8, Zenon DEF Restart
  <2> QED
    BY <2>1 DEF ExitInv, NoFalseSuccess
<1>9. CASE UNCHANGED serviceVars
  BY <1>9, Zenon DEF serviceVars, startVars, vars, ExitInv, NoFalseSuccess
<1> QED
  BY <1>3, <1>4, <1>5, <1>6, <1>7, <1>8, <1>9, Zenon DEF ServiceNext

(* main: the process does not end with success after a failed single pass, *)
(* or without any, unless it was told to stop.                             *)
THEOREM ExitCodeIsEarned == ServiceSpec => []NoFalseSuccess
<1>1. ServiceInit => ExitInv
  BY DEF ServiceInit, Init, ExitInv, NoFalseSuccess
<1>2. ExitInv => NoFalseSuccess
  BY Zenon DEF ExitInv
<1> QED
  BY <1>1, <1>2, StepExitInv, ServiceTypeCorrect, PTL DEF ServiceSpec

-----------------------------------------------------------------------------
(***************************************************************************)
(* The promises of the loop, kept for the whole life of the process: also  *)
(* when a signal or an error ends it before the loop has begun, and when   *)
(* systemd starts it anew. Until main enters Run the loop is as New left   *)
(* it, and what ends the process then leaves nothing of a pass behind.     *)
(***************************************************************************)
Fresh ==
  /\ loop = "begin" /\ firstCycle /\ passes = 0
  /\ pass = NewPass("start")
  /\ ~asked /\ trigger = 0 /\ tick = "absent"

LoopInv ==
  /\ NoRefreshForgotten /\ FirstInv /\ ActionsInv /\ DryInv /\ TickInv
  /\ Starting => Fresh

LEMMA FreshStays ==
  ASSUME TypeOK, LoopInv, Fresh, TypeOK',
         UNCHANGED <<cfg, firstCycle, pass, passes, asked, tickIsOld>>,
         loop' \in {"begin", "exited", "killed"},
         loop' = "begin" => UNCHANGED <<trigger, tick>>,
         loop' # "begin" => stage' = "down"
  PROVE  LoopInv'
<1>1. ~pass.failed /\ ~pass.changed /\ pass.ran = "nothing" /\ ~pass.first
  BY Zenon DEF Fresh, NewPass
<1>2. ActionsInv'
  BY <1>1, Zenon DEF ActionsInv, Fitting
<1>3. FirstInv' /\ DryInv' /\ TickInv'
  BY Zenon DEF LoopInv, FirstInv, DryInv, TickInv
<1>4. NoRefreshForgotten'
  BY Zenon DEF Fresh, NoRefreshForgotten
<1>5. Starting' => Fresh'
  BY Zenon DEF Starting, Fresh
<1> QED
  BY <1>2, <1>3, <1>4, <1>5, Zenon DEF LoopInv

LEMMA InitLoopInv == ServiceInit => LoopInv
<1> SUFFICES ASSUME ServiceInit PROVE LoopInv
  OBVIOUS
<1>1. Fresh /\ TickInv /\ NoRefreshForgotten
  BY Zenon DEF ServiceInit, Init, Fresh, TickInv, NoRefreshForgotten
<1>2. FirstInv /\ ActionsInv /\ DryInv
  BY InitActions, InitDry, Zenon DEF ServiceInit
<1> QED
  BY <1>1, <1>2, Zenon DEF LoopInv

LEMMA StepLoopInv ==
  TypeOK /\ ServiceTypeOK /\ LoopInv /\ [ServiceNext]_serviceVars => LoopInv'
<1> SUFFICES ASSUME TypeOK, ServiceTypeOK, LoopInv, [ServiceNext]_serviceVars
             PROVE  LoopInv'
  OBVIOUS
<1>0. TypeOK'
  BY ServiceStepType
<1>1. ASSUME [Next]_vars, ~Starting' PROVE LoopInv'
  BY <1>1, StepRefresh, StepFirst, StepActions, StepDry, StepTick,
     Zenon DEF LoopInv
<1>2. ASSUME UNCHANGED vars, Starting' => Starting PROVE LoopInv'
  <2>1. CASE Starting
    <3>1. Fresh /\ loop = "begin"
      BY <2>1, Zenon DEF LoopInv, Fresh
    <3> QED
      BY <1>0, <1>2, <3>1, FreshStays, Zenon DEF vars
  <2>2. CASE ~Starting
    BY <1>1, <1>2, <2>2
  <2> QED
    BY <2>1, <2>2
<1>3. ASSUME Starting, NEW code, Leaves(code) PROVE LoopInv'
  <2>1. Fresh
    BY <1>3, Zenon DEF LoopInv
  <2>2. /\ loop' = "exited" /\ stage' = "down"
        /\ UNCHANGED <<cfg, firstCycle, pass, passes, asked, tickIsOld>>
    BY <1>3, Zenon DEF Leaves
  <2>3. loop' # "begin"
    BY <2>2
  <2> QED
    BY <1>0, <2>1, <2>2, <2>3, FreshStays, Zenon
<1>4. CASE Start
  <2>1. Starting
    BY <1>4 DEF Start, LoadConfig, Resolve, ProbeToken, ProbeInstance, ProbeGoogle,
       NewManager, NotifyOnSignal, Starting
  <2>2. UNCHANGED vars \/ Leaves(ExitCode(TRUE))
    BY <1>4, Zenon DEF Start, LoadConfig, Resolve, ProbeToken, ProbeInstance, ProbeGoogle,
       NewManager, NotifyOnSignal, ResolveProvider, Detected, Enters
  <2> QED
    BY <1>2, <1>3, <2>1, <2>2, Zenon
<1>5. CASE InRun(Next)
  <2>1. stage' = "run" /\ Next
    BY <1>5, Zenon DEF InRun, startVars
  <2>2. ~Starting'
    BY <2>1, Zenon DEF Starting
  <2> QED
    BY <1>1, <2>1, <2>2, Zenon
<1>6. CASE MainReturns
  <2>1. UNCHANGED vars /\ stage' = "down"
    BY <1>6, Zenon DEF MainReturns
  <2>2. ~Starting'
    BY <2>1, Zenon DEF Starting
  <2> QED
    BY <1>2, <2>1, <2>2, Zenon
<1>7. CASE CancelStart
  <2>1. CASE stage = "load"
    BY <1>3, <1>7, <2>1, Zenon DEF CancelStart
  <2>2. CASE stage # "load"
    <3>1. /\ Starting
          /\ UNCHANGED <<cfg, loop, firstCycle, pass, trigger, tick, asked, tickIsOld,
                         passes>>
      BY <1>7, <2>2, Zenon DEF CancelStart
    <3>2. Fresh /\ loop = "begin"
      BY <3>1, Zenon DEF LoopInv, Fresh
    <3> QED
      BY <1>0, <3>1, <3>2, FreshStays, Zenon
  <2> QED
    BY <2>1, <2>2
<1>8. CASE HangupKillsStart
  <2>1. /\ Starting /\ loop' = "killed" /\ stage' = "down"
        /\ UNCHANGED <<cfg, firstCycle, pass, passes, asked, tickIsOld>>
    BY <1>8, Zenon DEF HangupKillsStart
  <2>2. Fresh /\ loop' # "begin"
    BY <2>1, Zenon DEF LoopInv
  <2> QED
    BY <1>0, <2>1, <2>2, FreshStays, Zenon
<1>9. CASE Restart
  <2>1. /\ loop' = "begin" /\ firstCycle' = TRUE /\ pass' = NewPass("start")
        /\ trigger' = 0 /\ tick' = "absent" /\ asked' = FALSE /\ tickIsOld' = FALSE
        /\ passes' = 0
    BY <1>9, Zenon DEF Restart
  <2>2. Fresh' /\ TickInv' /\ NoRefreshForgotten' /\ ActionsInv'
    BY <2>1, Zenon DEF Fresh, TickInv, NoRefreshForgotten, ActionsInv
  <2>3. pass'.first = FALSE /\ pass'.changed = FALSE
    BY <2>1, Zenon DEF NewPass
  <2> QED
    BY <2>1, <2>2, <2>3, Zenon DEF LoopInv, FirstInv, DryInv
<1>10. CASE UNCHANGED serviceVars
  <2>1. UNCHANGED vars /\ stage' = stage
    BY <1>10, Zenon DEF serviceVars, startVars
  <2> QED
    BY <1>2, <2>1, Zenon DEF Starting
<1> QED
  BY <1>4, <1>5, <1>6, <1>7, <1>8, <1>9, <1>10, Zenon DEF ServiceNext

LEMMA LoopAlways == ServiceSpec => [](TypeOK /\ LoopInv)
  BY InitLoopInv, StepLoopInv, ServiceTypeCorrect, PTL DEF ServiceSpec

(***************************************************************************)
(* No SIGHUP is lost, in no life of the process: none that main leaves     *)
(* before the loop has begun, and none that systemd starts anew.           *)
(***************************************************************************)
THEOREM ServiceForgetsNoRefresh == ServiceSpec => []NoRefreshForgotten
<1>1. LoopInv => NoRefreshForgotten
  BY Zenon DEF LoopInv
<1> QED
  BY <1>1, LoopAlways, PTL

(***************************************************************************)
(* Actions fit the pass that has run them, in every life of the process:   *)
(* RunOnce reports every failure and leaves no change without actions, and *)
(* success is earned by a change or, in the first pass after each start of *)
(* the process, by run-on-start.                                           *)
(***************************************************************************)
THEOREM ServiceActionsFit == ServiceSpec => [](FailureReported /\ ChangesAnnounced)
<1>1. TypeOK /\ LoopInv => FailureReported /\ ChangesAnnounced
  BY ActionsFit, Zenon DEF LoopInv
<1> QED
  BY <1>1, LoopAlways, PTL

(***************************************************************************)
(* No scheduled pass begins for a tick from before the end of the last     *)
(* refresh (Run's ticker.Reset).                                           *)
(***************************************************************************)
THEOREM RefreshComesFirst == ServiceSpec => RefreshPostponesSchedule
<1>1. LoopInv => [TakeTick => ~tickIsOld]_vars
  BY Zenon DEF LoopInv, TickInv
<1> QED
  BY <1>1, LoopAlways, PTL DEF RefreshPostponesSchedule

=============================================================================
