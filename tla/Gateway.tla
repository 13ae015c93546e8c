------------------------------ MODULE Gateway ------------------------------
(***************************************************************************)
(* A pass of the service from end to end: the loop of App, Collect over    *)
(* the sources, the Yandex manager with its token on one route table, and  *)
(* the actions, with the time they all take. Time is counted in units of   *)
(* half a minute; timers run down.                                         *)
(*                                                                         *)
(* The loop is AppLoop's without SIGHUP, which ImplementsLoop states. The  *)
(* table is reduced to the prefixes that point here and the manager to one *)
(* read and one write of it: what the manager does to other routes, and    *)
(* what becomes of a write nobody waits for, is YandexManager's subject.   *)
(* Of the host's routes only the outcome of the local half is kept.        *)
(***************************************************************************)
EXTENDS Sources, Actions, YandexToken

CONSTANTS
  PassTimeout,     \* general.timeout
  MaxDisturbances  \* bound: how often something goes wrong

ASSUME GatewayAssumption ==
  /\ PassTimeout \in Nat \ {0}
  /\ MaxDisturbances \in Nat

VARIABLES
  loop,       \* where the loop is
  pass,       \* the pass under way, or the last one, as in AppLoop
  tick,       \* the channel of the ticker: absent, empty or full
  cancelled,  \* SIGINT or SIGTERM was received
  passes,     \* history: the number of passes begun, up to 2
  timeLeft,   \* the time left to the context of the pass
  routed,     \* the prefixes that lead here in the route table
  request,    \* what syncTable is at: idle, get, patch
  synced,     \* history: what became of Sync in this pass: no, done, failed
  lost,       \* history: the prefixes someone else took since the pass began
  budget      \* the disturbances left

loopVars == <<loop, pass, tick, cancelled, passes, timeLeft>>
tableVars == <<routed, request, synced, lost>>
vars == <<sourceVars, batchVars, tokenVars, loopVars, tableVars, budget>>

Pass ==
  [origin : {"start", "schedule"}, first : BOOLEAN, ended : BOOLEAN,
   failed : BOOLEAN, changed : BOOLEAN, ran : {"nothing", "success", "failed"}]

TypeOK ==
  /\ SourcesTypeOK /\ ActionsTypeOK /\ TokenTypeOK
  /\ loop \in {"begin", "detect", "local", "collect", "sync", "actions",
               "return", "select", "exited"}
  /\ pass \in Pass
  /\ tick \in {"absent", "empty", "full"}
  /\ cancelled \in BOOLEAN
  /\ passes \in 0 .. 2
  /\ timeLeft \in 0 .. PassTimeout
  /\ routed \subseteq Prefix
  /\ request \in {"idle", "get", "patch"}
  /\ synced \in {"no", "done", "failed"}
  /\ lost \subseteq Prefix
  /\ budget \in 0 .. MaxDisturbances

NewPass(origin) ==
  [origin |-> origin, first |-> FALSE, ended |-> FALSE,
   failed |-> FALSE, changed |-> FALSE, ran |-> "nothing"]

Init ==
  /\ SourcesInit /\ ActionsInit /\ TokenInit
  /\ loop = "begin"
  /\ pass = NewPass("start")
  /\ tick = "absent"
  /\ cancelled = FALSE
  /\ passes = 0
  /\ timeLeft = 0
  /\ routed = {}
  /\ request = "idle"
  /\ synced = "no"
  /\ lost = {}
  /\ budget = MaxDisturbances

Running == loop # "exited"

Disturb == budget > 0 /\ budget' = budget - 1

-----------------------------------------------------------------------------
(* RunOnce and cycle.                                                      *)

BeginPass ==
  /\ loop = "begin"
  /\ loop' = "detect"
  /\ pass' = [pass EXCEPT !.first = (passes = 0), !.ended = cancelled]
  /\ passes' = IF passes < 2 THEN passes + 1 ELSE passes
  /\ timeLeft' = IF cancelled THEN 0 ELSE PassTimeout
  /\ UNCHANGED <<sourceVars, batchVars, tokenVars, tableVars, tick, cancelled, budget>>

Detect ==
  /\ loop = "detect"
  /\ loop' = "local"
  /\ UNCHANGED <<sourceVars, batchVars, tokenVars, tableVars, pass, tick, cancelled,
                 passes, timeLeft, budget>>

(* Without the host's own address there is nothing to do. *)
DetectFails ==
  /\ loop = "detect"
  /\ loop' = "actions"
  /\ pass' = [pass EXCEPT !.failed = TRUE]
  /\ Disturb
  /\ UNCHANGED <<sourceVars, batchVars, tokenVars, tableVars, tick, cancelled,
                 passes, timeLeft>>

(* syncLocal; the halves are independent, its error ends nothing. *)
SyncLocal(reported, error) ==
  /\ loop = "local"
  /\ loop' = "collect"
  /\ pass.ended => error
  /\ pass' = [pass EXCEPT !.failed = @ \/ error, !.changed = @ \/ reported]
  /\ IF reported \/ (error /\ ~pass.ended) THEN Disturb ELSE UNCHANGED budget
  /\ StartScan
  /\ UNCHANGED <<batchVars, tokenVars, tableVars, tick, cancelled, passes, timeLeft>>

-----------------------------------------------------------------------------
(* syncCloud.                                                              *)

AskSource ==
  /\ loop = "collect"
  /\ \/ Fetch(pass.ended) /\ UNCHANGED budget
     \/ FetchWithoutClient /\ UNCHANGED budget
     \/ BuildClient(TRUE) /\ UNCHANGED budget
     \/ BuildClient(FALSE) /\ Disturb
     \/ FetchFails /\ IF pass.ended THEN UNCHANGED budget ELSE Disturb
  /\ UNCHANGED <<batchVars, tokenVars, tableVars, loopVars>>

ErrorsForgotten == FALSE
SomeSourceFailed == scan.errs # {}

(* Sync is called with what the sources that answered have; not at all if  *)
(* that is nothing, which is an error.                                     *)
ScanEnds ==
  /\ loop = "collect"
  /\ ScanOver
  /\ IF scan.found = {}
     THEN /\ loop' = "actions"
          /\ pass' = [pass EXCEPT !.failed = TRUE]
          /\ UNCHANGED request
     ELSE /\ loop' = "sync"
          /\ request' = "get"
          /\ UNCHANGED pass
  /\ UNCHANGED <<sourceVars, batchVars, tokenVars, tick, cancelled, passes, timeLeft,
                 routed, synced, lost, budget>>

(* The steps of an exchange that leave the pass where it is: a call made   *)
(* after the end of the context of the pass fails, whatever the cache has. *)
Exchange ==
  /\ loop = "sync"
  /\ ~pass.ended
  /\ UseCached \/ AskMetadata \/ Receive
  /\ UNCHANGED <<sourceVars, batchVars, loopVars, tableVars, budget>>

(* The metadata service; not to say for how long is unusual. *)
MetadataIssues ==
  /\ loop = "sync"
  /\ \E life \in Lifetimes :
       \/ Issue(life, TRUE) /\ UNCHANGED budget
       \/ Issue(life, FALSE) /\ Disturb
  /\ UNCHANGED <<sourceVars, batchVars, loopVars, tableVars>>

(* The API: a request it accepts is carried out. *)
ApiTakes ==
  /\ loop = "sync"
  /\ ~pass.ended
  /\ Arrive
  /\ routed' = IF request = "patch" /\ call.life > 0
               THEN routed \cup scan.found ELSE routed
  /\ UNCHANGED <<sourceVars, batchVars, loopVars, request, synced, lost, budget>>

(* The errors of the sources and of Sync are joined (srcErr, syncErr).     *)
SyncEnds(result, changes) ==
  /\ loop' = "actions"
  /\ request' = "idle"
  /\ synced' = result
  /\ pass' = [pass EXCEPT !.failed = @ \/ SomeSourceFailed \/ result = "failed",
                          !.changed = @ \/ changes]

SomethingThere == scan.found \cap routed # {}
UpToDate == scan.found \subseteq routed

(* The table was read: it has everything, or is to be updated. Nobody else *)
(* changes it between the answer and the update but at a cost (Taken).     *)
GotTable ==
  /\ loop = "sync"
  /\ request = "get"
  /\ call.taken
  /\ ~pass.ended
  /\ Return
  /\ IF UpToDate
     THEN SyncEnds("done", FALSE)
     ELSE request' = "patch" /\ UNCHANGED <<loop, synced, pass>>
  /\ UNCHANGED <<sourceVars, batchVars, tick, cancelled, passes, timeLeft,
                 routed, lost, budget>>

UpdateDone ==
  /\ loop = "sync"
  /\ request = "patch"
  /\ call.taken
  /\ ~pass.ended
  /\ Return
  /\ SyncEnds("done", TRUE)
  /\ UNCHANGED <<sourceVars, batchVars, tick, cancelled, passes, timeLeft,
                 routed, lost, budget>>

(***************************************************************************)
(* A call fails: at the end of a context, by a fault, or because the API   *)
(* has refused the token. The changes of an update are reported all the    *)
(* same. An exchange as old as HttpTimeout may fail without further ado.   *)
(***************************************************************************)
SyncFails ==
  /\ loop = "sync"
  /\ \/ call.pc = "none" /\ pass.ended /\ UNCHANGED tokenVars
     \/ call.pc = "arrived" /\ ~call.taken /\ Return
     \/ CallFails
  /\ IF \/ pass.ended
        \/ call.pc = "arrived" /\ ~call.taken
        \/ call.age = HttpTimeout
     THEN UNCHANGED budget ELSE Disturb
  /\ SyncEnds("failed", request = "patch")
  /\ UNCHANGED <<sourceVars, batchVars, tick, cancelled, passes, timeLeft, routed, lost>>

-----------------------------------------------------------------------------
(* The actions, and the loop.                                              *)

ChangesFirst ==
  IF pass.changed THEN "success" ELSE IF pass.failed THEN "failed" ELSE "nothing"

ActionsOf ==
  IF pass.failed THEN "failed" ELSE IF pass.changed THEN "success" ELSE "nothing"

RunActions ==
  /\ loop = "actions"
  /\ loop' = "return"
  /\ pass' = [pass EXCEPT !.ran = ActionsOf]
  /\ timeLeft' = 0
  /\ IF ActionsOf = "nothing" THEN UNCHANGED batchVars ELSE StartBatch(ActionsOf)
  /\ ForgetScan /\ synced' = "no" /\ lost' = {}
  /\ UNCHANGED <<tokenVars, routed, request, tick, cancelled, passes, budget>>

(* A child that outlives its shell is a disturbance. *)
RunBatch ==
  /\ loop = "return"
  /\ \/ (BeginCommand \/ SkipCommand \/ ShellEnds(0) \/ PipeCloses \/ EndBatch)
        /\ UNCHANGED budget
     \/ \E holds \in 1 .. OrphanTime : ShellEnds(holds) /\ Disturb
  /\ UNCHANGED <<sourceVars, tokenVars, loopVars, tableVars>>

BatchOver == batch.pc = "off"

ReturnFromStart ==
  /\ loop = "return"
  /\ BatchOver
  /\ pass.origin = "start"
  /\ loop' = "select"
  /\ tick' = "empty"
  /\ UNCHANGED <<sourceVars, batchVars, tokenVars, tableVars, pass, cancelled, passes,
                 timeLeft, budget>>

ReturnFromSchedule ==
  /\ loop = "return"
  /\ BatchOver
  /\ pass.origin = "schedule"
  /\ loop' = "select"
  /\ UNCHANGED <<sourceVars, batchVars, tokenVars, tableVars, pass, tick, cancelled,
                 passes, timeLeft, budget>>

TakeCancellation ==
  /\ loop = "select"
  /\ cancelled
  /\ loop' = "exited"
  /\ UNCHANGED <<sourceVars, batchVars, tokenVars, tableVars, pass, tick, cancelled,
                 passes, timeLeft, budget>>

TakeTick ==
  /\ loop = "select"
  /\ tick = "full"
  /\ tick' = "empty"
  /\ loop' = "begin"
  /\ pass' = NewPass("schedule")
  /\ UNCHANGED <<sourceVars, batchVars, tokenVars, tableVars, cancelled, passes,
                 timeLeft, budget>>

-----------------------------------------------------------------------------
(* The surroundings.                                                       *)

Cancel ==
  /\ Running
  /\ ~cancelled
  /\ cancelled' = TRUE
  /\ pass' = [pass EXCEPT !.ended = TRUE]
  /\ timeLeft' = 0
  /\ UNCHANGED <<sourceVars, batchVars, tokenVars, tableVars, loop, tick, passes, budget>>

Tick ==
  /\ loop = "select"
  /\ tick = "empty"
  /\ tick' = "full"
  /\ UNCHANGED <<sourceVars, batchVars, tokenVars, tableVars, loop, pass, cancelled,
                 passes, timeLeft, budget>>

InContext == loop \in {"local", "collect", "sync"}

(***************************************************************************)
(* A unit of time. Between passes and while commands run it is free; a     *)
(* call of a pass that takes so long is a disturbance. Nothing waits for a *)
(* call after the context of the pass has ended.                           *)
(***************************************************************************)
Elapse ==
  /\ loop \in {"return", "select"} \/ (InContext /\ ~pass.ended)
  /\ TokenElapses
  /\ BatchElapses
  /\ timeLeft' = Reduce(timeLeft, 1)
  /\ pass' = IF InContext THEN [pass EXCEPT !.ended = (timeLeft = 1)] ELSE pass
  /\ IF InContext THEN Disturb ELSE UNCHANGED budget
  /\ UNCHANGED <<sourceVars, tableVars, loop, tick, cancelled, passes>>

Republish ==
  /\ Running
  /\ Disturb
  /\ \E i \in Source : Publish(i)
  /\ UNCHANGED <<batchVars, tokenVars, loopVars, tableVars>>

(* Another gateway or an operator takes a route. *)
Taken ==
  /\ Running
  /\ Disturb
  /\ \E p \in routed : routed' = routed \ {p} /\ lost' = IF loop \in {"begin", "return", "select"} THEN {} ELSE lost \cup {p}
  /\ UNCHANGED <<sourceVars, batchVars, tokenVars, loopVars, request, synced>>

-----------------------------------------------------------------------------

Work ==
  \/ BeginPass \/ Detect \/ DetectFails
  \/ \E reported \in BOOLEAN, error \in BOOLEAN : SyncLocal(reported, error)
  \/ AskSource \/ ScanEnds
  \/ Exchange \/ MetadataIssues \/ ApiTakes \/ GotTable \/ UpdateDone \/ SyncFails
  \/ RunActions \/ RunBatch
  \/ ReturnFromStart \/ ReturnFromSchedule

Next ==
  \/ Work \/ TakeCancellation \/ TakeTick
  \/ Cancel \/ Tick \/ Elapse \/ Republish \/ Taken

Spec == Init /\ [][Next]_vars

(***************************************************************************)
(* The loop runs, time passes and the ticker ticks; calls have deadlines.  *)
(* Nothing goes wrong for ever, for disturbances are bounded.              *)
(***************************************************************************)
FairSpec ==
  /\ Spec
  /\ WF_vars(Work) /\ WF_vars(TakeTick) /\ WF_vars(Tick) /\ SF_vars(Elapse)

-----------------------------------------------------------------------------
(* Properties.                                                             *)

Loop == INSTANCE AppLoop WITH
  Configurations <- {[periodic |-> TRUE, local |-> TRUE, dryRun |-> FALSE, runOnStart |-> FALSE]},
  cfg <- [periodic |-> TRUE, local |-> TRUE, dryRun |-> FALSE, runOnStart |-> FALSE],
  loop <- IF loop \in {"collect", "sync"} THEN "cloud" ELSE loop,
  firstCycle <- (passes = 0),
  trigger <- 0,
  signals <- FALSE,
  forwarder <- "receive",
  asked <- FALSE,
  tickIsOld <- FALSE

(***************************************************************************)
(* Seen as App sees them, the two halves of the pass and its actions, with *)
(* their calls and their time, are steps of the loop: what was shown of    *)
(* the loop with halves that report anything holds of these.               *)
(***************************************************************************)
ImplementsLoop == Loop!Spec

Led == routed \cup lost

(***************************************************************************)
(* Collect and README: if a source fails, the routes of the others are     *)
(* applied. After Sync without error, whatever a source held that answers, *)
(* or a readable file, from before the scan until now, leads here, unless  *)
(* someone has taken it since.                                             *)
(***************************************************************************)
HealthyApplied ==
  loop = "actions" /\ synced = "done" =>
    \A i \in steady : i \notin scan.errs \/ (Local(i) /\ Readable(i)) => Offered(i) \subseteq Led

(***************************************************************************)
(* Nothing is left out in silence: if a prefix that stood in the list of a *)
(* source throughout the pass does not lead here, bad list and broken      *)
(* client included, or if there is no prefix at all, then the pass failed  *)
(* and it was the failed actions that ran.                                 *)
(***************************************************************************)
NothingLostSilently ==
  [][RunActions /\ pass'.ran # "failed" =>
       /\ synced = "done"
       /\ \A i \in steady : published[i].routes \subseteq Led]_vars

(***************************************************************************)
(* A prefix is led here only if a readable list has held it since the scan *)
(* of this very pass began: nothing is carried over from earlier passes or *)
(* picked up from a list with bad entries.                                 *)
(***************************************************************************)
AppliedWasOffered == [][routed' \ routed \subseteq offered]_vars

(***************************************************************************)
(* Whatever went wrong, in the end all readable lists lead here, but those *)
(* of objects whose client could not be built the first time.              *)
(***************************************************************************)
OfferedRouted ==
  <>[](cancelled \/ \A i \in Source : client[i] # "broken" => Offered(i) \subseteq routed)

=============================================================================
