--------------------------- MODULE AppLoopProofs ---------------------------
(***************************************************************************)
(* Proofs about AppLoop, for every set of configurations.                  *)
(***************************************************************************)
EXTENDS AppLoop, TLAPS

USE DEF outside, inside

(***************************************************************************)
(* TypeOK in two halves: the variables with Boolean values, which Zenon is *)
(* good at, and the others, which need the arithmetic of SMT.              *)
(***************************************************************************)
Switches ==
  /\ firstCycle \in BOOLEAN
  /\ pass \in Pass
  /\ cancelled \in BOOLEAN
  /\ signals \in BOOLEAN
  /\ asked \in BOOLEAN
  /\ tickIsOld \in BOOLEAN

Places ==
  /\ cfg \in Configurations
  /\ loop \in {"begin", "detect", "local", "cloud", "actions", "return",
               "select", "exited", "panicked", "killed"}
  /\ trigger \in 0 .. 1
  /\ tick \in {"absent", "empty", "full"}
  /\ forwarder \in {"receive", "send", "gone"}
  /\ passes \in 0 .. 2

LEMMA TypeHalves == TypeOK <=> Switches /\ Places
  BY Zenon DEF TypeOK, Switches, Places

LEMMA NewPassType == \A o \in {"start", "refresh", "schedule"} : NewPass(o) \in Pass
  BY Zenon DEF NewPass, Pass

LEMMA InitType == Init => TypeOK
<1>1. Init => Switches
  BY Zenon, NewPassType DEF Init, Switches
<1>2. Init => Places
  BY DEF Init, Places
<1> QED
  BY <1>1, <1>2, TypeHalves

LEMMA StepSwitches == Switches /\ [Next]_vars => Switches'
<1> SUFFICES ASSUME Switches, [Next]_vars PROVE Switches'
  OBVIOUS
<1> USE DEF Switches
<1>1. CASE BeginPass
  BY <1>1, Zenon DEF BeginPass, ClearFirstCycle, Pass
<1>2. CASE Detect \/ SyncLocal \/ SyncCloud
  BY <1>2, Zenon DEF Detect, SyncLocal, SyncCloud, Half, Pass
<1>3. CASE RunActions
  BY <1>3, Zenon DEF RunActions, ActionsOf, Pass
<1>4. CASE \/ SyncLocalPanics \/ ReturnAndExit
           \/ ReturnFromStart \/ ReturnFromRefresh \/ ReturnFromSchedule
  BY <1>4, Zenon DEF SyncLocalPanics, ReturnAndExit, ReturnFromStart,
    ReturnFromRefresh, ReturnFromSchedule
<1>5. CASE Select
  BY <1>5, Zenon, NewPassType DEF Select, TakeCancellation, TakeTrigger, TakeTick
<1>6. CASE Forward
  BY <1>6, Zenon DEF Forward, Receive, Send, Leave
<1>7. CASE Hangup \/ HangupKills \/ Tick
  BY <1>7, Zenon DEF Hangup, HangupKills, Tick
<1>8. CASE Cancel \/ PassTimesOut
  BY <1>8, Zenon DEF Cancel, PassTimesOut, Pass
<1>9. CASE UNCHANGED vars
  BY <1>9, Zenon DEF vars
<1> QED
  BY <1>1, <1>2, <1>3, <1>4, <1>5, <1>6, <1>7, <1>8, <1>9 DEF Next, RunPass

LEMMA StepPlaces == Places /\ [Next]_vars => Places'
<1> SUFFICES ASSUME Places, [Next]_vars PROVE Places'
  OBVIOUS
<1> USE DEF Places
<1>1. CASE BeginPass
  BY <1>1 DEF BeginPass, UpTo2
<1>2. CASE Detect
  BY <1>2 DEF Detect
<1>3. CASE SyncLocal \/ SyncCloud
  <2>1. /\ loop' \in {"cloud", "actions"}
        /\ UNCHANGED <<cfg, trigger, tick, passes, forwarder>>
    BY <1>3, Zenon DEF SyncLocal, SyncCloud, Half
  <2> QED
    BY <2>1
<1>4. CASE RunActions
  <2>1. loop' = "return" /\ UNCHANGED <<cfg, trigger, tick, passes, forwarder>>
    BY <1>4, Zenon DEF RunActions
  <2> QED
    BY <2>1
<1>5. CASE SyncLocalPanics \/ ReturnAndExit \/ ReturnFromStart \/ ReturnFromSchedule
  BY <1>5 DEF SyncLocalPanics, ReturnAndExit, ReturnFromStart, ReturnFromSchedule
<1>6. CASE ReturnFromRefresh
  BY <1>6 DEF ReturnFromRefresh, Reset
<1>7. CASE Select
  BY <1>7 DEF Select, TakeCancellation, TakeTrigger, TakeTick
<1>8. CASE Forward
  BY <1>8 DEF Forward, Receive, Send, Leave, Enqueue
<1>9. CASE Hangup \/ HangupKills \/ Tick \/ Cancel \/ PassTimesOut
  BY <1>9 DEF Hangup, HangupKills, Tick, Cancel, PassTimesOut
<1>10. CASE UNCHANGED vars
  BY <1>10 DEF vars
<1> QED
  BY <1>1, <1>2, <1>3, <1>4, <1>5, <1>6, <1>7, <1>8, <1>9, <1>10 DEF Next, RunPass

LEMMA StepType == TypeOK /\ [Next]_vars => TypeOK'
<1> SUFFICES ASSUME TypeOK, [Next]_vars PROVE Switches' /\ Places'
  BY Zenon DEF TypeOK, Switches, Places
<1> QED
  BY TypeHalves, StepSwitches, StepPlaces

(* The state of the loop keeps its type. *)
THEOREM TypeCorrect == Spec => []TypeOK
  BY InitType, StepType, PTL DEF Spec

(* A request only leaves a place for the next one, the channel of the loop *)
(* drops a request only if it holds one, and the loop takes one out of it  *)
(* only to begin a pass, which answers every SIGHUP so far.                *)
LEMMA StepRefresh == TypeOK /\ NoRefreshForgotten /\ [Next]_vars => NoRefreshForgotten'
<1> SUFFICES ASSUME TypeOK, NoRefreshForgotten, [Next]_vars
             PROVE  NoRefreshForgotten'
  OBVIOUS
<1> USE DEF NoRefreshForgotten
<1>1. CASE RunPass
  <2>1. CASE BeginPass
    BY <2>1 DEF BeginPass
  <2>2. CASE ~BeginPass
    <3>1. loop # "begin" /\ UNCHANGED <<asked, signals, forwarder, trigger>>
      BY <1>1, <2>2 DEF RunPass, Detect, SyncLocal, SyncLocalPanics, SyncCloud,
        RunActions, ReturnAndExit, ReturnFromStart, ReturnFromRefresh,
        ReturnFromSchedule
    <3> QED
      BY <3>1
  <2> QED
    BY <2>1, <2>2
<1>2. CASE Select
  BY <1>2 DEF Select, TakeCancellation, TakeTrigger, TakeTick
<1>3. CASE Forward
  <2>1. CASE Receive
    BY <2>1 DEF Receive
  <2>2. CASE Send
    <3>1. trigger \in 0 .. 1
      BY Zenon DEF TypeOK
    <3>2. trigger' > 0
      BY <2>2, <3>1 DEF Send, Enqueue
    <3> QED
      BY <3>2
  <2>3. CASE Leave
    BY <2>3 DEF Leave
  <2> QED
    BY <1>3, <2>1, <2>2, <2>3 DEF Forward
<1>4. CASE Hangup \/ HangupKills
  BY <1>4 DEF Hangup, HangupKills
<1>5. CASE Cancel \/ PassTimesOut \/ Tick
  BY <1>5 DEF Cancel, PassTimesOut, Tick
<1>6. CASE UNCHANGED vars
  BY <1>6 DEF vars
<1> QED
  BY <1>1, <1>2, <1>3, <1>4, <1>5, <1>6 DEF Next

(***************************************************************************)
(* No SIGHUP is lost on its way to the loop, through the handler and the   *)
(* two channels of one slot: NoRefreshForgotten is inductive.              *)
(***************************************************************************)
THEOREM RefreshNeverForgotten == Spec => []NoRefreshForgotten
<1>1. Init => NoRefreshForgotten
  BY DEF Init, NoRefreshForgotten
<1> QED
  BY <1>1, StepRefresh, TypeCorrect, PTL DEF Spec

(* No tick is older than a refresh: Ticker.Reset discards the one it finds. *)
TickInv == ~tickIsOld

LEMMA StepTick == TickInv /\ [Next]_vars => TickInv'
<1> SUFFICES ASSUME TickInv, [Next]_vars PROVE TickInv'
  OBVIOUS
<1> USE DEF TickInv
<1>1. CASE ReturnFromRefresh
  BY <1>1 DEF ReturnFromRefresh, Reset
<1>2. CASE TakeTick \/ Tick
  BY <1>2, Zenon DEF TakeTick, Tick
<1>3. CASE UNCHANGED tickIsOld
  BY <1>3
<1> QED
  BY <1>1, <1>2, <1>3, Zenon DEF Next, RunPass, BeginPass, Detect, SyncLocal,
    SyncLocalPanics, SyncCloud, RunActions, ReturnAndExit, ReturnFromStart,
    ReturnFromSchedule, Select, TakeCancellation, TakeTrigger, Forward, Receive, Send,
    Leave, Hangup, HangupKills, Cancel, PassTimesOut, vars

-----------------------------------------------------------------------------
(***************************************************************************)
(* Which actions ran. They are those of the pass that has just ended, and  *)
(* run-on-start counts in the first pass only: both hold because no step   *)
(* between RunActions and the next pass, and none of the surroundings,     *)
(* touches what the choice was made from.                                  *)
(***************************************************************************)
FirstInv ==
  /\ firstCycle => passes = 0
  /\ pass.first => passes = 1

Fitting(s) ==
  /\ s.failed => s.ran = "failed"
  /\ ~s.failed => s.ran # "failed"
  /\ s.changed => s.ran # "nothing"
  /\ s.ran = "success" => s.changed \/ (cfg.runOnStart /\ s.first)

ActionsInv == loop \in {"return", "select", "exited"} => Fitting(pass)

LEMMA InitActions == Init => FirstInv /\ ActionsInv
<1> SUFFICES ASSUME Init PROVE FirstInv /\ ActionsInv
  OBVIOUS
<1>1. pass.first = FALSE /\ passes = 0 /\ loop = "begin"
  BY Zenon DEF Init, NewPass
<1> QED
  BY <1>1, Zenon DEF FirstInv, ActionsInv

LEMMA StepFirst == TypeOK /\ FirstInv /\ [Next]_vars => FirstInv'
<1> SUFFICES ASSUME TypeOK, FirstInv, [Next]_vars PROVE FirstInv'
  OBVIOUS
<1>0. pass \in Pass /\ firstCycle \in BOOLEAN
  BY Zenon DEF TypeOK
<1>1. CASE BeginPass
  <2>1. firstCycle' = FALSE /\ passes' = UpTo2(passes) /\ pass'.first = firstCycle
    BY <1>0, <1>1, Zenon DEF BeginPass, ClearFirstCycle, Pass
  <2>2. UpTo2(0) = 1
    BY DEF UpTo2
  <2> QED
    BY <2>1, <2>2, Zenon DEF FirstInv
<1>2. ASSUME pass'.first => pass.first, UNCHANGED <<firstCycle, passes>> PROVE FirstInv'
  BY <1>2, Zenon DEF FirstInv
<1>3. CASE Detect \/ SyncLocal \/ SyncCloud \/ RunActions
  BY <1>0, <1>2, <1>3, Zenon DEF Detect, SyncLocal, SyncCloud, Half, RunActions, Pass
<1>4. CASE \/ SyncLocalPanics \/ ReturnAndExit
           \/ ReturnFromStart \/ ReturnFromRefresh \/ ReturnFromSchedule
  BY <1>2, <1>4, Zenon DEF SyncLocalPanics, ReturnAndExit, ReturnFromStart,
    ReturnFromRefresh, ReturnFromSchedule
<1>5. CASE Select
  <2>1. \A origin : NewPass(origin).first = FALSE
    BY Zenon DEF NewPass
  <2>2. CASE TakeCancellation
    BY <1>2, <2>2, Zenon DEF TakeCancellation
  <2>3. CASE TakeTrigger \/ TakeTick
    BY <1>2, <2>1, <2>3, Zenon DEF TakeTrigger, TakeTick
  <2> QED
    BY <1>5, <2>2, <2>3 DEF Select
<1>6. CASE Forward
  BY <1>2, <1>6, Zenon DEF Forward, Receive, Send, Leave, inside
<1>7. CASE Hangup \/ HangupKills \/ Tick
  BY <1>2, <1>7, Zenon DEF Hangup, HangupKills, Tick, inside
<1>8. CASE Cancel \/ PassTimesOut
  BY <1>0, <1>2, <1>8, Zenon DEF Cancel, PassTimesOut, Pass
<1>9. CASE UNCHANGED vars
  BY <1>2, <1>9, Zenon DEF vars
<1> QED
  BY <1>1, <1>3, <1>4, <1>5, <1>6, <1>7, <1>8, <1>9 DEF Next, RunPass

LEMMA StepActions == TypeOK /\ ActionsInv /\ [Next]_vars => ActionsInv'
<1> SUFFICES ASSUME TypeOK, ActionsInv, [Next]_vars PROVE ActionsInv'
  OBVIOUS
<1>0. pass \in Pass
  BY Zenon DEF TypeOK
<1> DEFINE Over(l) == l \in {"return", "select", "exited"}
<1>1. ASSUME ~Over(loop') PROVE ActionsInv'
  BY <1>1, Zenon DEF ActionsInv
<1>2. ASSUME Over(loop') => Over(loop), UNCHANGED <<cfg, pass>> PROVE ActionsInv'
  BY <1>2, Zenon DEF ActionsInv, Fitting
<1>3. CASE BeginPass \/ Detect \/ SyncLocal \/ SyncLocalPanics \/ SyncCloud
  <2>1. loop' \in {"detect", "local", "actions", "cloud", "panicked"}
    BY <1>3, Zenon DEF BeginPass, Detect, SyncLocal, SyncLocalPanics, SyncCloud, Half
  <2> QED
    BY <1>1, <2>1
<1>4. CASE RunActions
  <2>1. /\ pass'.ran = ActionsOf /\ pass'.failed = pass.failed
        /\ pass'.changed = pass.changed /\ pass'.first = pass.first /\ cfg' = cfg
    BY <1>0, <1>4, Zenon DEF RunActions, Pass, outside
  <2>2. /\ pass.failed => ActionsOf = "failed"
        /\ ~pass.failed => ActionsOf \in {"success", "nothing"}
        /\ pass.changed => ActionsOf # "nothing"
        /\ ActionsOf = "success" => pass.changed \/ (cfg.runOnStart /\ pass.first)
    BY Zenon DEF ActionsOf
  <2> QED
    BY <2>1, <2>2, Zenon DEF ActionsInv, Fitting
<1>5. CASE ReturnAndExit \/ ReturnFromStart \/ ReturnFromRefresh \/ ReturnFromSchedule
  BY <1>2, <1>5, Zenon DEF ReturnAndExit, ReturnFromStart, ReturnFromRefresh,
    ReturnFromSchedule, outside
<1>6. CASE TakeCancellation
  BY <1>2, <1>6, Zenon DEF TakeCancellation, outside
<1>7. CASE TakeTrigger \/ TakeTick
  <2>1. loop' = "begin"
    BY <1>7, Zenon DEF TakeTrigger, TakeTick
  <2> QED
    BY <1>1, <2>1
<1>8. CASE Forward
  BY <1>2, <1>8, Zenon DEF Forward, Receive, Send, Leave, inside
<1>9. CASE Hangup \/ Tick
  BY <1>2, <1>9, Zenon DEF Hangup, Tick, inside, outside
<1>10. CASE HangupKills
  <2>1. loop' = "killed"
    BY <1>10, Zenon DEF HangupKills
  <2> QED
    BY <1>1, <2>1
<1>11. CASE Cancel \/ PassTimesOut
  <2>1. /\ pass'.ran = pass.ran /\ pass'.failed = pass.failed
        /\ pass'.changed = pass.changed /\ pass'.first = pass.first
        /\ loop' = loop /\ cfg' = cfg
    BY <1>0, <1>11, Zenon DEF Cancel, PassTimesOut, Pass, outside
  <2> QED
    BY <2>1, Zenon DEF ActionsInv, Fitting
<1>12. CASE UNCHANGED vars
  BY <1>2, <1>12, Zenon DEF vars
<1> QED
  BY <1>3, <1>4, <1>5, <1>6, <1>7, <1>8, <1>9, <1>10, <1>11, <1>12 DEF Next, RunPass, Select

(* logChanges: nothing counts as changed under dry-run.                    *)
DryInv == pass.changed => ~cfg.dryRun

LEMMA InitDry == Init => DryInv
<1> SUFFICES ASSUME Init PROVE DryInv
  OBVIOUS
<1>1. pass.changed = FALSE
  BY Zenon DEF Init, NewPass
<1> QED
  BY <1>1, Zenon DEF DryInv

LEMMA StepDry == TypeOK /\ DryInv /\ [Next]_vars => DryInv'
<1> SUFFICES ASSUME TypeOK, DryInv, [Next]_vars PROVE DryInv'
  OBVIOUS
<1>0. pass \in Pass
  BY Zenon DEF TypeOK
<1>1. ASSUME pass'.changed => pass.changed, cfg' = cfg PROVE DryInv'
  BY <1>1, Zenon DEF DryInv
<1>2. CASE SyncLocal \/ SyncCloud
  <2>1. PICK reported \in BOOLEAN :
          pass'.changed = (pass.changed \/ (reported /\ ~cfg.dryRun))
    BY <1>0, <1>2, Zenon DEF SyncLocal, SyncCloud, Half, Pass
  <2>2. cfg' = cfg
    BY <1>2, Zenon DEF SyncLocal, SyncCloud, outside
  <2> QED
    BY <2>1, <2>2, Zenon DEF DryInv
<1>3. CASE BeginPass \/ Detect \/ RunActions \/ Cancel \/ PassTimesOut
  <2>1. pass'.changed = pass.changed
    BY <1>0, <1>3, Zenon DEF BeginPass, Detect, RunActions, Cancel, PassTimesOut, Pass
  <2>2. cfg' = cfg
    BY <1>3, Zenon DEF BeginPass, Detect, RunActions, Cancel, PassTimesOut, outside
  <2> QED
    BY <1>1, <2>1, <2>2
<1>4. CASE \/ SyncLocalPanics \/ ReturnAndExit
           \/ ReturnFromStart \/ ReturnFromRefresh \/ ReturnFromSchedule
  BY <1>1, <1>4, Zenon DEF SyncLocalPanics, ReturnAndExit, ReturnFromStart,
    ReturnFromRefresh, ReturnFromSchedule, outside
<1>5. CASE TakeTrigger \/ TakeTick
  <2>1. \A origin : NewPass(origin).changed = FALSE
    BY Zenon DEF NewPass
  <2> QED
    BY <1>1, <1>5, <2>1, Zenon DEF TakeTrigger, TakeTick, outside
<1>6. CASE TakeCancellation \/ Hangup \/ HangupKills \/ Tick
  BY <1>1, <1>6, Zenon DEF TakeCancellation, Hangup, HangupKills, Tick, inside, outside
<1>7. CASE Forward
  BY <1>1, <1>7, Zenon DEF Forward, Receive, Send, Leave, inside
<1>8. CASE UNCHANGED vars
  BY <1>1, <1>8, Zenon DEF vars
<1> QED
  BY <1>2, <1>3, <1>4, <1>5, <1>6, <1>7, <1>8 DEF Next, RunPass, Select

LEMMA ActionsAlways == Spec => [](TypeOK /\ FirstInv /\ ActionsInv /\ DryInv)
  BY InitType, StepType, InitActions, InitDry, StepFirst, StepActions, StepDry, PTL DEF Spec

LEMMA ActionsFit ==
  TypeOK /\ FirstInv /\ ActionsInv /\ DryInv => FailureReported /\ ChangesAnnounced
<1>1. TypeOK /\ ActionsInv => FailureReported
  <2> SUFFICES ASSUME TypeOK, ActionsInv, PassOver
               PROVE  (pass.ran = "failed") = pass.failed
    BY Zenon DEF FailureReported
  <2>1. Fitting(pass) /\ pass.failed \in BOOLEAN
    BY Zenon DEF PassOver, ActionsInv, TypeOK, Pass
  <2> QED
    BY <2>1, Zenon DEF Fitting
<1>2. FirstInv /\ ActionsInv /\ DryInv => ChangesAnnounced
  BY Zenon DEF ChangesAnnounced, PassOver, FirstInv, ActionsInv, DryInv, Fitting
<1> QED
  BY <1>1, <1>2

(***************************************************************************)
(* Every pass with an error, and no other one, has run the failed actions  *)
(* once it is over (RunOnce's switch), also when it was cut short by       *)
(* general.timeout or by a shutdown.                                       *)
(***************************************************************************)
THEOREM FailuresReported == Spec => []FailureReported
  BY ActionsFit, ActionsAlways, PTL

(***************************************************************************)
(* RunOnce and logChanges: no change of routes goes without actions, and   *)
(* under dry-run nothing counts as a change. Without one, success actions  *)
(* run for the first pass of the process under run-on-start only.          *)
(***************************************************************************)
THEOREM ChangesAreAnnounced == Spec => []ChangesAnnounced
  BY ActionsFit, ActionsAlways, PTL

=============================================================================
