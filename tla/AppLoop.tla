------------------------------ MODULE AppLoop ------------------------------
(***************************************************************************)
(* internal/app: the loop of the service (App.Run), one pass of it         *)
(* (App.RunOnce), and what may happen while a pass is under way: SIGHUP,   *)
(* forwarded by the goroutine of NotifyOnSignal through two channels of    *)
(* one slot each; ticks, held by a channel of one slot; the end of the     *)
(* context of the pass; SIGTERM, which cancels the context of everything.  *)
(*                                                                         *)
(* What the halves of a pass do is abstracted to what RunOnce sees of it:  *)
(* whether they changed something and whether they failed.                 *)
(***************************************************************************)
EXTENDS Naturals

CONSTANT Configurations  \* the configurations the service may be given

(***************************************************************************)
(* periodic: general.interval is positive; local: local-static-routes or   *)
(* remove-stale-local-routes is set; then general.dry-run and              *)
(* actions.run-on-start.                                                   *)
(***************************************************************************)
Config == [periodic : BOOLEAN, local : BOOLEAN, dryRun : BOOLEAN, runOnStart : BOOLEAN]

ASSUME AppAssumption == Configurations \subseteq Config

VARIABLES
  cfg,         \* App.cfg
  loop,        \* where the loop is
  firstCycle,  \* App.firstCycle
  pass,        \* the pass under way, or the last one
  trigger,     \* the number of requests in App.trigger
  tick,        \* the channel of the ticker: absent, empty or full
  cancelled,   \* SIGINT or SIGTERM was received
  signals,     \* the channel of NotifyOnSignal holds a SIGHUP
  forwarder,   \* the goroutine of NotifyOnSignal
  asked,       \* history: no pass has begun since the last SIGHUP
  tickIsOld,   \* history: a refresh pass has ended since the tick in the channel
  passes       \* history: the number of passes begun, up to 2

vars == <<cfg, loop, firstCycle, pass, trigger, tick, cancelled, signals, forwarder,
          asked, tickIsOld, passes>>

(***************************************************************************)
(* A pass: what started it, firstCycle as it was then, whether its context *)
(* has ended, whether an error was, whether routes changed (logChanges),   *)
(* and which actions it ran.                                               *)
(***************************************************************************)
Pass ==
  [origin : {"start", "refresh", "schedule"}, first : BOOLEAN, ended : BOOLEAN,
   failed : BOOLEAN, changed : BOOLEAN, ran : {"nothing", "success", "failed"}]

UpTo2(n) == IF n < 2 THEN n + 1 ELSE n

TypeOK ==
  /\ cfg \in Configurations
  /\ loop \in {"begin", "detect", "local", "cloud", "actions", "return",
               "select", "exited", "panicked", "killed"}
  /\ firstCycle \in BOOLEAN
  /\ pass \in Pass
  /\ trigger \in 0 .. 1
  /\ tick \in {"absent", "empty", "full"}
  /\ cancelled \in BOOLEAN
  /\ signals \in BOOLEAN
  /\ forwarder \in {"receive", "send", "gone"}
  /\ asked \in BOOLEAN
  /\ tickIsOld \in BOOLEAN
  /\ passes \in 0 .. 2

NewPass(origin) ==
  [origin |-> origin, first |-> FALSE, ended |-> FALSE,
   failed |-> FALSE, changed |-> FALSE, ran |-> "nothing"]

(* New and NotifyOnSignal have run; Run is called. *)
Init ==
  /\ cfg \in Configurations
  /\ loop = "begin"
  /\ firstCycle = TRUE
  /\ pass = NewPass("start")
  /\ trigger = 0
  /\ tick = "absent"
  /\ cancelled = FALSE
  /\ signals = FALSE
  /\ forwarder = "receive"
  /\ asked = FALSE
  /\ tickIsOld = FALSE
  /\ passes = 0

Running == loop \notin {"exited", "panicked", "killed"}

outside == <<cfg, cancelled, signals, forwarder>>

-----------------------------------------------------------------------------
(* RunOnce.                                                                *)

KeepFirstCycle(first) == first

(* firstCycle is cleared whatever becomes of the pass. *)
ClearFirstCycle(first) == FALSE

BeginPass ==
  /\ loop = "begin"
  /\ loop' = "detect"
  /\ firstCycle' = ClearFirstCycle(firstCycle)
  /\ pass' = [pass EXCEPT !.first = firstCycle, !.ended = cancelled]
  /\ asked' = FALSE
  /\ passes' = UpTo2(passes)
  /\ UNCHANGED <<trigger, tick, tickIsOld, outside>>

(* netinfo.Detect asks the host only, which the context does not bound. *)
Detect ==
  /\ loop = "detect"
  /\ \/ loop' = "local" /\ UNCHANGED pass
     \/ loop' = "actions" /\ pass' = [pass EXCEPT !.failed = TRUE]
  /\ UNCHANGED <<firstCycle, trigger, tick, asked, tickIsOld, passes, outside>>

(* One half of the pass reports changes and an error, or neither, or both; *)
(* calls made after the context has ended fail.                            *)
Half(next) ==
  \E reported \in BOOLEAN, error \in BOOLEAN :
    /\ pass.ended => error
    /\ pass' = [pass EXCEPT !.failed = @ \/ error,
                            !.changed = @ \/ (reported /\ ~cfg.dryRun)]
    /\ loop' = next

SyncLocal ==
  /\ loop = "local"
  /\ cfg.local
  /\ Half("cloud")
  /\ UNCHANGED <<firstCycle, trigger, tick, asked, tickIsOld, passes, outside>>

(***************************************************************************)
(* Without local routes New stores a nil *localroutes.Manager in the       *)
(* interface field local, which then is not nil: syncLocal calls Sync on   *)
(* it, list dereferences the nil manager and the process dies.             *)
(***************************************************************************)
SyncLocalPanics ==
  /\ loop = "local"
  /\ ~cfg.local
  /\ loop' = "panicked"
  /\ UNCHANGED <<firstCycle, pass, trigger, tick, asked, tickIsOld, passes, outside>>

SyncCloud ==
  /\ loop = "cloud"
  /\ Half("actions")
  /\ UNCHANGED <<firstCycle, trigger, tick, asked, tickIsOld, passes, outside>>

ActionsInContext ==
  IF pass.failed THEN IF pass.ended THEN "nothing" ELSE "failed"
  ELSE IF pass.changed \/ (pass.first /\ cfg.runOnStart) THEN "success" ELSE "nothing"

(* The actions have a context of their own that outlives the pass. *)
ActionsOf ==
  IF pass.failed THEN "failed"
  ELSE IF pass.changed \/ (pass.first /\ cfg.runOnStart) THEN "success" ELSE "nothing"

RunActions ==
  /\ loop = "actions"
  /\ loop' = "return"
  /\ pass' = [pass EXCEPT !.ran = ActionsOf]
  /\ UNCHANGED <<firstCycle, trigger, tick, asked, tickIsOld, passes, outside>>

-----------------------------------------------------------------------------
(* Run.                                                                    *)

(* The single pass of a service without an interval. *)
ReturnAndExit ==
  /\ loop = "return"
  /\ ~cfg.periodic
  /\ loop' = "exited"
  /\ UNCHANGED <<firstCycle, pass, trigger, tick, asked, tickIsOld, passes, outside>>

(* The first pass is over: the ticker starts. *)
ReturnFromStart ==
  /\ loop = "return"
  /\ cfg.periodic
  /\ pass.origin = "start"
  /\ loop' = "select"
  /\ tick' = "empty"
  /\ UNCHANGED <<firstCycle, pass, trigger, asked, tickIsOld, passes, outside>>

NoReset(t) == t

(* Ticker.Reset starts a new interval and discards a tick not yet taken. *)
Reset(t) == "empty"

ReturnFromRefresh ==
  /\ loop = "return"
  /\ pass.origin = "refresh"
  /\ loop' = "select"
  /\ tick' = Reset(tick)
  /\ tickIsOld' = (tick' = "full")
  /\ UNCHANGED <<firstCycle, pass, trigger, asked, passes, outside>>

ReturnFromSchedule ==
  /\ loop = "return"
  /\ pass.origin = "schedule"
  /\ loop' = "select"
  /\ UNCHANGED <<firstCycle, pass, trigger, tick, asked, tickIsOld, passes, outside>>

TakeCancellationWhenIdle ==
  /\ loop = "select"
  /\ cancelled /\ trigger = 0 /\ tick # "full"
  /\ loop' = "exited"
  /\ UNCHANGED <<firstCycle, pass, trigger, tick, asked, tickIsOld, passes, outside>>

TakeCancellation ==
  /\ loop = "select"
  /\ cancelled
  /\ loop' = "exited"
  /\ UNCHANGED <<firstCycle, pass, trigger, tick, asked, tickIsOld, passes, outside>>

TakeTrigger ==
  /\ loop = "select"
  /\ trigger > 0
  /\ trigger' = trigger - 1
  /\ loop' = "begin"
  /\ pass' = NewPass("refresh")
  /\ UNCHANGED <<firstCycle, tick, asked, tickIsOld, passes, outside>>

TakeTick ==
  /\ loop = "select"
  /\ tick = "full"
  /\ tick' = "empty"
  /\ tickIsOld' = FALSE
  /\ loop' = "begin"
  /\ pass' = NewPass("schedule")
  /\ UNCHANGED <<firstCycle, trigger, asked, passes, outside>>

-----------------------------------------------------------------------------
(* The goroutine of NotifyOnSignal.                                        *)

inside == <<cfg, loop, firstCycle, pass, tick, tickIsOld, passes>>

Receive ==
  /\ forwarder = "receive"
  /\ signals
  /\ signals' = FALSE
  /\ forwarder' = "send"
  /\ UNCHANGED <<trigger, cancelled, asked, inside>>

EnqueueUnbounded(requests) == requests + 1

EnqueueUnbuffered(requests) == IF loop = "select" THEN 1 ELSE requests

(* Trigger: a request that finds another one pending is dropped; one made  *)
(* during a pass waits in the channel.                                     *)
Enqueue(requests) == IF requests < 1 THEN requests + 1 ELSE requests

Send ==
  /\ forwarder = "send"
  /\ trigger' = Enqueue(trigger)
  /\ forwarder' = "receive"
  /\ UNCHANGED <<cancelled, signals, asked, inside>>

Leave ==
  /\ forwarder = "receive"
  /\ cancelled
  /\ forwarder' = "gone"
  /\ UNCHANGED <<trigger, cancelled, signals, asked, inside>>

-----------------------------------------------------------------------------
(* The surroundings.                                                       *)

(* SIGHUP: signal.Notify does not wait for a slot in its channel. *)
Hangup ==
  /\ Running
  /\ forwarder # "gone"
  /\ signals' = TRUE
  /\ asked' = TRUE
  /\ UNCHANGED <<trigger, cancelled, forwarder, inside>>

(* After signal.Stop a SIGHUP does what it does by default. *)
HangupKills ==
  /\ Running
  /\ forwarder = "gone"
  /\ loop' = "killed"
  /\ UNCHANGED <<firstCycle, pass, trigger, tick, asked, tickIsOld, passes, outside>>

(* SIGINT or SIGTERM: ends the context of the pass as well. *)
Cancel ==
  /\ Running
  /\ ~cancelled
  /\ cancelled' = TRUE
  /\ pass' = [pass EXCEPT !.ended = TRUE]
  /\ UNCHANGED <<cfg, loop, firstCycle, trigger, tick, signals, forwarder,
                 asked, tickIsOld, passes>>

(* general.timeout is over. *)
PassTimesOut ==
  /\ loop \in {"detect", "local", "cloud"}
  /\ ~pass.ended
  /\ pass' = [pass EXCEPT !.ended = TRUE]
  /\ UNCHANGED <<loop, firstCycle, trigger, tick, asked, tickIsOld, passes, outside>>

(* general.interval is over; a tick nobody has taken makes room for none. *)
Tick ==
  /\ Running
  /\ tick = "empty"
  /\ tick' = "full"
  /\ tickIsOld' = FALSE
  /\ UNCHANGED <<loop, firstCycle, pass, trigger, asked, passes, outside>>

-----------------------------------------------------------------------------

RunPass ==
  \/ BeginPass \/ Detect \/ SyncLocal \/ SyncLocalPanics \/ SyncCloud \/ RunActions
  \/ ReturnAndExit \/ ReturnFromStart \/ ReturnFromRefresh \/ ReturnFromSchedule

Select == TakeCancellation \/ TakeTrigger \/ TakeTick

Forward == Running /\ (Receive \/ Send \/ Leave)

Next ==
  \/ RunPass \/ Select \/ Forward
  \/ Hangup \/ HangupKills \/ Cancel \/ PassTimesOut \/ Tick

Spec == Init /\ [][Next]_vars

(***************************************************************************)
(* Both goroutines are scheduled, a pass and its actions are bounded in    *)
(* time, and select chooses among the ready channels at random: none that  *)
(* is ready again and again is passed over for ever. Nothing is asked of   *)
(* the ticker, whose next tick may be as far away as one likes.            *)
(***************************************************************************)
FairSpec ==
  /\ Spec
  /\ WF_vars(RunPass)
  /\ SF_vars(TakeCancellation) /\ SF_vars(TakeTrigger) /\ SF_vars(TakeTick)
  /\ WF_vars(Forward)

-----------------------------------------------------------------------------
(* Properties.                                                             *)

(***************************************************************************)
(* A SIGHUP no pass has answered is on its way: no interleaving of the     *)
(* handler, the two one-slot channels and the loop loses it.               *)
(***************************************************************************)
NoRefreshForgotten ==
  asked => signals \/ forwarder = "send" \/ trigger > 0 \/ loop = "begin"
           \/ forwarder = "gone"

(***************************************************************************)
(* Every SIGHUP is followed by a pass that begins after it, unless the     *)
(* service is told to stop, even if it arrives in the middle of a pass,    *)
(* and without waiting for the schedule.                                   *)
(***************************************************************************)
RefreshHonoured == asked ~> (~asked \/ cancelled \/ ~Running)

(***************************************************************************)
(* After a refresh the schedule starts anew: no scheduled pass begins for  *)
(* a tick from before the end of the last refresh.                         *)
(***************************************************************************)
RefreshPostponesSchedule == [][TakeTick => ~tickIsOld]_vars

PassOver == loop \in {"return", "select", "exited"} /\ passes > 0

(***************************************************************************)
(* A pass with an error runs the failed actions before the loop goes on or *)
(* ends, also when its context was cancelled or had timed out.             *)
(***************************************************************************)
FailureReported == PassOver => (pass.ran = "failed") = pass.failed

(***************************************************************************)
(* A change of routes never goes without actions: the pass that made it    *)
(* runs the success actions, or the failed ones if another half of it had  *)
(* an error. Without a change success actions run under run-on-start only, *)
(* in the first pass of the process; under dry-run nothing is changed, so  *)
(* they never run. Of dry-run together with run-on-start nothing is said.  *)
(***************************************************************************)
ChangesAnnounced ==
  PassOver =>
    /\ pass.changed => ~cfg.dryRun /\ pass.ran # "nothing"
    /\ pass.ran = "success" /\ ~(cfg.dryRun /\ cfg.runOnStart) =>
         pass.changed \/ (cfg.runOnStart /\ passes = 1)

(***************************************************************************)
(* SIGTERM ends the loop, whatever else select finds ready.                *)
(***************************************************************************)
ShutdownEventually == cancelled ~> ~Running

(***************************************************************************)
(* A service without local routes does not use the local manager. Does not *)
(* hold: it calls it, and dies of it.                                      *)
(***************************************************************************)
LocalUnusedUnlessConfigured == loop # "panicked"

=============================================================================
