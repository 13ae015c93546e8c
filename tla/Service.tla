------------------------------ MODULE Service ------------------------------
(***************************************************************************)
(* The life of the service under systemd: main.run from the configuration  *)
(* to the exit code, app.New with the detection of the cloud, the loop of  *)
(* AppLoop while it runs, signals at any moment of it, and restarts        *)
(* (Restart=on-failure).                                                   *)
(*                                                                         *)
(* Of the configuration, general.cloud is followed through file, flag and  *)
(* validation; what else the loop uses of it is cfg, as it is after the    *)
(* flags were applied.                                                     *)
(***************************************************************************)
EXTENDS AppLoop

CONSTANTS
  Setups,          \* the configurations and hosts of the service
  MaxDisturbances  \* bound: how often something goes wrong

Clouds == {"aws", "yandex"}

(***************************************************************************)
(* file and flag: general.cloud and -cloud ("none" if not passed); bad is  *)
(* no name of a cloud. badEntry: source.static.routes has an entry that is *)
(* no route. host: the cloud of the instance; on aws-v1 there are no       *)
(* tokens for instance metadata. access: who tells the region or gives the *)
(* IAM token; nowhere if no service account is attached, for one.          *)
(***************************************************************************)
Setup ==
  [cfg : Configurations, file : Clouds \cup {"auto", "bad"},
   flag : Clouds \cup {"auto", "bad", "none"}, badEntry : BOOLEAN,
   host : {"aws", "aws-v1", "yandex"}, access : {"metadata", "environment", "nowhere"}]

ASSUME ServiceAssumption ==
  /\ Setups \subseteq Setup
  /\ MaxDisturbances \in Nat

VARIABLES
  setup,     \* the configuration file, the command line, the host
  stage,     \* where main is
  provider,  \* what New has resolved
  late,      \* the time of the probes of isAWS is used up
  exit,      \* how the process ended, as systemd sees it
  budget     \* the disturbances left

startVars == <<setup, stage, provider, late, exit, budget>>
serviceVars == <<vars, startVars>>

ServiceTypeOK ==
  /\ setup \in Setups
  /\ stage \in {"load", "resolve", "token", "instance", "google", "manager",
                "notify", "run", "down"}
  /\ provider \in Clouds \cup {"none"}
  /\ late \in BOOLEAN
  /\ exit \in {"none", "ok", "error", "killed"}
  /\ budget \in 0 .. MaxDisturbances

ServiceInit ==
  /\ Init
  /\ setup \in Setups
  /\ cfg = setup.cfg
  /\ stage = "load"
  /\ provider = "none"
  /\ late = FALSE
  /\ exit = "none"
  /\ budget = MaxDisturbances

Disturb == budget > 0 /\ budget' = budget - 1

(* main returns before the loop has begun. *)
Leaves(code) ==
  /\ stage' = "down"
  /\ exit' = code
  /\ loop' = "exited"
  /\ UNCHANGED <<cfg, firstCycle, pass, trigger, tick, cancelled, signals, forwarder,
                 asked, tickIsOld, passes>>

Enters(next) == stage' = next /\ UNCHANGED <<vars, exit>>

NoExitCode(error) == "ok"
ExitCode(error) == IF error THEN "error" ELSE "ok"

-----------------------------------------------------------------------------
(* run and New.                                                            *)

(* A flag that was passed overrides the file. *)
Told == IF setup.flag = "none" THEN setup.file ELSE setup.flag

FileIsValid == setup.file # "bad"

(* The file is validated by itself (Load), then with the flags; neither    *)
(* time are the entries of a static list looked at.                        *)
Valid == setup.file # "bad" /\ Told # "bad"

LoadConfig ==
  /\ stage = "load"
  /\ IF Valid THEN Enters("resolve") ELSE Leaves(ExitCode(TRUE))
  /\ UNCHANGED <<setup, provider, late, budget>>

AsConfigured ==
  /\ provider' = Told
  /\ Enters("manager")

(* A cloud that is named is taken at its word, else metadata is asked. *)
ResolveProvider ==
  IF Told \in Clouds THEN provider' = Told /\ Enters("manager")
  ELSE Enters("token") /\ UNCHANGED provider

(* source.Build comes first: NewStatic parses the list. *)
Resolve ==
  /\ stage = "resolve"
  /\ IF setup.badEntry
     THEN Leaves(ExitCode(TRUE)) /\ UNCHANGED provider
     ELSE ResolveProvider
  /\ UNCHANGED <<setup, late, budget>>

Detected(cloud) == provider' = cloud /\ Enters("manager")

(***************************************************************************)
(* A probe gets the answer of the host, or an error. A probe nobody        *)
(* answers takes all the time there is (hangs): the probes of isAWS share  *)
(* one context, isYandex has its own.                                      *)
(***************************************************************************)
Answers == ~late /\ ~cancelled /\ UNCHANGED <<late, budget>>

Errs == IF late \/ cancelled THEN UNCHANGED <<late, budget>> ELSE Disturb /\ UNCHANGED late

Hangs == ~late /\ ~cancelled /\ late' = TRUE /\ Disturb

ProbeToken ==
  /\ stage = "token"
  /\ \/ Answers /\ setup.host = "aws" /\ Detected("aws")
     \/ Answers /\ setup.host # "aws" /\ Enters("instance") /\ UNCHANGED provider
     \/ (Errs \/ Hangs) /\ Enters("instance") /\ UNCHANGED provider
  /\ UNCHANGED setup

ProbeInstance ==
  /\ stage = "instance"
  /\ \/ Answers /\ setup.host # "yandex" /\ Detected("aws")
     \/ /\ (Answers /\ setup.host = "yandex") \/ Errs \/ Hangs
        /\ Enters("google")
        /\ UNCHANGED provider
  /\ UNCHANGED setup

ProbeGoogle ==
  /\ stage = "google"
  /\ \/ /\ ~cancelled /\ setup.host = "yandex"
        /\ Detected("yandex")
        /\ UNCHANGED budget
     \/ /\ Leaves(ExitCode(TRUE))
        /\ IF cancelled \/ setup.host # "yandex" THEN UNCHANGED budget ELSE Disturb
        /\ UNCHANGED provider
  /\ late' = FALSE
  /\ UNCHANGED setup

HostIs(cloud) == (cloud = "yandex") = (setup.host = "yandex")

(* A region, a first token: metadata has them for the cloud it belongs to. *)
Accessible(cloud) ==
  \/ setup.access = "environment"
  \/ setup.access = "metadata" /\ HostIs(cloud)

(* New fails without, at every start if it is for want of access. (After   *)
(* it, ParseSpecs only repeats what validation has done.)                  *)
NewManager ==
  /\ stage = "manager"
  /\ \/ /\ Accessible(provider) /\ (cancelled => setup.access = "environment")
        /\ Enters("notify")
        /\ UNCHANGED budget
     \/ /\ Leaves(ExitCode(TRUE))
        /\ IF cancelled \/ ~Accessible(provider) THEN UNCHANGED budget ELSE Disturb
  /\ late' = FALSE
  /\ UNCHANGED <<setup, provider>>

(* From here on SIGHUP is a request. *)
NotifyOnSignal ==
  /\ stage = "notify"
  /\ Enters("run")
  /\ UNCHANGED <<setup, provider, late, budget>>

NoError == FALSE
PassError == ~cfg.periodic /\ pass.failed

(***************************************************************************)
(* main after Run: the error of a single pass is that of the process,      *)
(* unless it is, among others, that the context was cancelled.             *)
(***************************************************************************)
MainReturns ==
  /\ stage = "run"
  /\ stage' = "down"
  /\ \/ loop = "exited" /\ exit' = ExitCode(PassError)
     \/ loop = "exited" /\ cancelled /\ exit' = ExitCode(FALSE)
     \/ loop = "panicked" /\ exit' = "error"
     \/ loop = "killed" /\ exit' = "killed"
  /\ UNCHANGED <<vars, setup, provider, late, budget>>

-----------------------------------------------------------------------------
(* Signals before there is a loop, and systemd.                            *)

Starting == stage \notin {"run", "down"}

(* NotifyContext comes after the configuration. *)
CancelStart ==
  /\ Starting
  /\ Disturb
  /\ IF stage = "load"
     THEN Leaves("killed")
     ELSE /\ ~cancelled
          /\ cancelled' = TRUE
          /\ UNCHANGED <<cfg, loop, firstCycle, pass, trigger, tick, signals, forwarder,
                         asked, tickIsOld, passes, stage, exit>>
  /\ UNCHANGED <<setup, provider, late>>

(* Until NotifyOnSignal has run, SIGHUP does what it does by default. *)
HangupKillsStart ==
  /\ Starting
  /\ stage' = "down"
  /\ exit' = "killed"
  /\ loop' = "killed"
  /\ UNCHANGED <<cfg, firstCycle, pass, trigger, tick, cancelled, signals, forwarder,
                 asked, tickIsOld, passes, setup, provider, late, budget>>

(* RestartSec is over. A death by SIGHUP or SIGTERM is none by failure. *)
Restart ==
  /\ stage = "down"
  /\ exit = "error"
  /\ stage' = "load"
  /\ provider' = "none"
  /\ late' = FALSE
  /\ exit' = "none"
  /\ loop' = "begin"
  /\ firstCycle' = TRUE
  /\ pass' = NewPass("start")
  /\ trigger' = 0
  /\ tick' = "absent"
  /\ cancelled' = FALSE
  /\ signals' = FALSE
  /\ forwarder' = "receive"
  /\ asked' = FALSE
  /\ tickIsOld' = FALSE
  /\ passes' = 0
  /\ UNCHANGED <<cfg, setup, budget>>

-----------------------------------------------------------------------------

Start ==
  \/ LoadConfig \/ Resolve \/ ProbeToken \/ ProbeInstance \/ ProbeGoogle
  \/ NewManager \/ NotifyOnSignal

InRun(action) == stage = "run" /\ action /\ UNCHANGED startVars

ServiceNext ==
  \/ Start \/ InRun(Next) \/ MainReturns
  \/ CancelStart \/ HangupKillsStart \/ Restart

ServiceSpec == ServiceInit /\ [][ServiceNext]_serviceVars

(* AppLoop's fairness; main goes on, and systemd does what the unit says. *)
ServiceFairSpec ==
  /\ ServiceSpec
  /\ WF_serviceVars(Start) /\ WF_serviceVars(MainReturns) /\ WF_serviceVars(Restart)
  /\ WF_serviceVars(InRun(RunPass))
  /\ SF_serviceVars(InRun(TakeCancellation)) /\ SF_serviceVars(InRun(TakeTrigger))
  /\ SF_serviceVars(InRun(TakeTick))
  /\ WF_serviceVars(InRun(Forward))

-----------------------------------------------------------------------------
(* Properties.                                                             *)

Intended ==
  IF Told \in Clouds THEN Told ELSE IF setup.host = "yandex" THEN "yandex" ELSE "aws"

(***************************************************************************)
(* The loop runs against the cloud that the command line or else the file  *)
(* names, or, if told to find out, against the one the instance is in,     *)
(* whichever probes failed or hung. It does not run at all with a setting  *)
(* that names no cloud, with a static list that cannot be read, or without *)
(* access to the cloud.                                                    *)
(***************************************************************************)
CloudAsTold ==
  stage = "run" => /\ Told # "bad"
                   /\ ~setup.badEntry
                   /\ provider = Intended
                   /\ Accessible(provider)

(***************************************************************************)
(* A service that makes a single pass ends with success only if the pass   *)
(* had no error, or it was told to stop.                                   *)
(***************************************************************************)
NoFalseSuccess == exit = "ok" => passes > 0 /\ (cancelled \/ cfg.periodic \/ ~pass.failed)

Stopped == stage = "down" /\ (exit = "killed" \/ (exit = "ok" /\ passes > 0))

(***************************************************************************)
(* If nothing that lasts is in the way, the loop begins in the end,        *)
(* whatever goes wrong at startup, unless a signal ends the process: each  *)
(* failure makes systemd try again. What lasts, and makes every start fail *)
(* alike, is an invalid configuration, an entry of a static list that is   *)
(* no route, and the lack of access to the cloud that is named or found.   *)
(***************************************************************************)
CanStart == Valid /\ ~setup.badEntry /\ Accessible(Intended)

StartsEventually == CanStart /\ stage # "run" ~> stage = "run" \/ Stopped

=============================================================================
