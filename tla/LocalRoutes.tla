---------------------------- MODULE LocalRoutes ----------------------------
(***************************************************************************)
(* internal/localroutes: the static routes of the host, kept with ip(8).   *)
(* A pass lists the routes tagged with the service's protocol id, replaces *)
(* those that differ from the configured specs, one command each, and, if  *)
(* told to, deletes the tagged routes it does not want. Between its        *)
(* commands DHCP, routing daemons and people change the same table, and    *)
(* the default gateway that "via default" stands for may go and come back. *)
(***************************************************************************)
EXTENDS Naturals, Sequences

CONSTANTS
  Prefix,          \* the destination prefixes that occur
  Unlisted,        \* those `ip -o route show proto` omits or prints unparsably
  Hop,             \* next hop addresses
  Blackhole,       \* the target of a null route
  Default,         \* the target "default" of a spec
  Configurations,  \* the configurations the service may be started with
  InitialKernels,  \* the contents the kernel table may start with
  None,            \* no route, no gateway
  Disturbances,    \* the kinds of disturbance that occur
  MaxDisturbances  \* bound: how many occur

Target == Hop \cup {Blackhole}

(* A route of metric 0: tagged `proto 201` or not, and where it leads. *)
Route == [ours : BOOLEAN, target : Target]

(* An entry of local-static-routes. *)
RouteSpec == [prefix : Prefix, target : Target \cup {Default}]

Config == [specs : Seq(RouteSpec), removeStale : BOOLEAN, dryRun : BOOLEAN]

Kind == {"fault", "crash", "edit", "gateway"}

ASSUME LocalAssumption ==
  /\ Unlisted \subseteq Prefix
  /\ Default \notin Target
  /\ Configurations \subseteq Config
  /\ InitialKernels \subseteq [Prefix -> Route \cup {None}]
  /\ None \notin Route \cup Target
  /\ Disturbances \subseteq Kind
  /\ MaxDisturbances \in Nat

VARIABLES
  kernel,   \* the routing table of the host
  gateway,  \* the next hop of the default route, None without one
  cfg,      \* App.localSpecs and the two switches of App.cfg
  pass,     \* Sync: where it is and what it knows
  touched,  \* history: what others changed since Sync listed or last wrote it
  budget    \* disturbances left

vars == <<kernel, gateway, cfg, pass, touched, budget>>

specs == cfg.specs

(***************************************************************************)
(* The pass: the routes listed, the spec it is at, the default gateway     *)
(* once it is resolved, the prefixes not to delete, the stale ones still   *)
(* to delete, the prefixes of the changes that are no noop, and whether an *)
(* error was.                                                              *)
(***************************************************************************)
Pass ==
  [pc : {"idle", "list", "specs", "stale", "report"},
   current : [Prefix -> Target \cup {None}], at : Nat, gateway : Hop \cup {None},
   desired : SUBSET Prefix, stale : SUBSET Prefix, changed : SUBSET Prefix,
   failed : BOOLEAN]

Idle == [pc |-> "idle", current |-> [p \in Prefix |-> None], at |-> 1,
         gateway |-> None, desired |-> {}, stale |-> {}, changed |-> {},
         failed |-> FALSE]

TypeOK ==
  /\ kernel \in [Prefix -> Route \cup {None}]
  /\ gateway \in Hop \cup {None}
  /\ cfg \in Configurations
  /\ pass \in Pass
  /\ pass.at \in 1 .. Len(specs) + 1
  /\ touched \subseteq Prefix
  /\ budget \in 0 .. MaxDisturbances

Init ==
  /\ kernel \in InitialKernels
  /\ gateway \in Hop \cup {None}
  /\ cfg \in Configurations
  /\ pass = Idle
  /\ touched = {}
  /\ budget = MaxDisturbances

Disturb(kind) ==
  /\ kind \in Disturbances
  /\ budget > 0
  /\ budget' = budget - 1

Ours(p) == kernel[p] # None /\ kernel[p].ours

-----------------------------------------------------------------------------
(* What Sync decides, and what it does to the state of the pass.           *)

(* The routes list finds: tagged, and printed in a form it can read. *)
Listed ==
  [p \in Prefix |-> IF Ours(p) /\ p \notin Unlisted THEN kernel[p].target ELSE None]

Fail(s) == [s EXCEPT !.failed = TRUE]

(* After the last spec, what was listed and is not desired is stale. *)
NextSpec(s) ==
  IF s.at < Len(specs) THEN [s EXCEPT !.at = @ + 1]
  ELSE LET stale == {p \in Prefix : s.current[p] # None} \ s.desired IN
       [s EXCEPT !.at = @ + 1,
                 !.stale = IF cfg.removeStale THEN stale ELSE {},
                 !.pc = IF cfg.removeStale /\ stale # {} THEN "stale" ELSE "report"]

NextStale(s, p) ==
  [s EXCEPT !.stale = @ \ {p}, !.pc = IF s.stale = {p} THEN "report" ELSE "stale"]

KeepUnlessFailed(s, p) == IF s.failed THEN s ELSE [s EXCEPT !.desired = @ \cup {p}]

(* desired is set before the command is tried: a failure keeps the route. *)
Keep(s, p) == [s EXCEPT !.desired = @ \cup {p}]

Changed(s, p) == [s EXCEPT !.changed = @ \cup {p}]

AtSpec == pass.pc = "specs" /\ pass.at <= Len(specs)

Prefix1 == specs[pass.at].prefix

NeedsGatewayNever == FALSE

NeedsGateway == specs[pass.at].target = Default /\ pass.gateway = None

(* The target of the spec, the default gateway resolved. *)
Want == IF specs[pass.at].target = Default THEN pass.gateway ELSE specs[pass.at].target

-----------------------------------------------------------------------------
(* The pass.                                                               *)

StartPass ==
  /\ pass.pc = "idle"
  /\ pass' = [pass EXCEPT !.pc = "list"]
  /\ UNCHANGED <<kernel, gateway, cfg, touched, budget>>

FirstSpec(s) == IF specs = <<>> THEN NextSpec([s EXCEPT !.at = 0]) ELSE s

List ==
  /\ pass.pc = "list"
  /\ pass' = FirstSpec([pass EXCEPT !.pc = "specs", !.current = Listed])
  /\ UNCHANGED <<kernel, gateway, cfg, touched, budget>>

ListFails ==
  /\ pass.pc = "list"
  /\ Disturb("fault")
  /\ pass' = [Fail(pass) EXCEPT !.pc = "report"]
  /\ UNCHANGED <<kernel, gateway, cfg, touched>>

ResolveDefault ==
  /\ AtSpec
  /\ NeedsGateway
  /\ gateway # None
  /\ pass' = [pass EXCEPT !.gateway = gateway]
  /\ UNCHANGED <<kernel, gateway, cfg, touched, budget>>

(* continue: the prefix of the spec does not become a desired one. *)
ResolveFails ==
  /\ AtSpec
  /\ NeedsGateway
  /\ \/ gateway = None /\ UNCHANGED budget
     \/ Disturb("fault")
  /\ pass' = NextSpec(Fail(pass))
  /\ UNCHANGED <<kernel, gateway, cfg, touched>>

AlwaysReplaced(current, want) == FALSE

UpToDateIfListed(current, want) == current # None

(* Whether a listed route is left alone. *)
UpToDate(current, want) == current = want

LeaveAlone ==
  /\ AtSpec /\ ~NeedsGateway
  /\ UpToDate(pass.current[Prefix1], Want)
  /\ pass' = NextSpec(Keep(pass, Prefix1))
  /\ UNCHANGED <<kernel, gateway, cfg, touched, budget>>

Replaces == AtSpec /\ ~NeedsGateway /\ ~UpToDate(pass.current[Prefix1], Want)

ReplaceDry ==
  /\ Replaces /\ cfg.dryRun
  /\ pass' = NextSpec(Changed(Keep(pass, Prefix1), Prefix1))
  /\ UNCHANGED <<kernel, gateway, cfg, touched, budget>>

(* `ip route replace` takes the place of whatever route the prefix has. *)
IpReplace(p, target) ==
  kernel' = [kernel EXCEPT ![p] = [ours |-> TRUE, target |-> target]]

Replace ==
  /\ Replaces /\ ~cfg.dryRun
  /\ IpReplace(Prefix1, Want)
  /\ pass' = NextSpec(Changed(Keep(pass, Prefix1), Prefix1))
  /\ touched' = touched \ {Prefix1}
  /\ UNCHANGED <<gateway, cfg, budget>>

(* ip refuses, or is killed when the context ends, before or after it acts. *)
ReplaceFails ==
  /\ Replaces /\ ~cfg.dryRun
  /\ Disturb("fault")
  /\ IpReplace(Prefix1, Want) \/ UNCHANGED kernel
  /\ pass' = NextSpec(Keep(Fail(pass), Prefix1))
  /\ UNCHANGED <<gateway, cfg, touched>>

AtStale(p) == pass.pc = "stale" /\ p \in pass.stale

DeleteDry(p) ==
  /\ AtStale(p) /\ cfg.dryRun
  /\ pass' = NextStale(Changed(pass, p), p)
  /\ UNCHANGED <<kernel, gateway, cfg, touched, budget>>

IpDeleteWhatever(p) ==
  /\ kernel[p] # None
  /\ kernel' = [kernel EXCEPT ![p] = None]

(* `ip route del P proto 201` finds tagged routes only. *)
IpDelete(p) ==
  /\ Ours(p)
  /\ kernel' = [kernel EXCEPT ![p] = None]

(* Stale routes are deleted in the random order of a map. *)
Delete(p) ==
  /\ AtStale(p) /\ ~cfg.dryRun
  /\ IpDelete(p)
  /\ pass' = NextStale(Changed(pass, p), p)
  /\ UNCHANGED <<gateway, cfg, touched, budget>>

(* The route is not there any more, or is somebody else's by now. *)
DeleteRefused(p) ==
  /\ AtStale(p) /\ ~cfg.dryRun
  /\ ~Ours(p)
  /\ pass' = NextStale(Fail(pass), p)
  /\ UNCHANGED <<kernel, gateway, cfg, touched, budget>>

DeleteFails(p) ==
  /\ AtStale(p) /\ ~cfg.dryRun
  /\ Disturb("fault")
  /\ IpDelete(p) \/ UNCHANGED kernel
  /\ pass' = NextStale(Fail(pass), p)
  /\ UNCHANGED <<gateway, cfg, touched>>

EndPassKeepsGateway ==
  /\ pass.pc = "report"
  /\ pass' = [Idle EXCEPT !.gateway = pass.gateway]
  /\ touched' = {}
  /\ UNCHANGED <<kernel, gateway, cfg, budget>>

(* Nothing is kept: the next pass resolves the default gateway anew. *)
EndPass ==
  /\ pass.pc = "report"
  /\ pass' = Idle
  /\ touched' = {}
  /\ UNCHANGED <<kernel, gateway, cfg, budget>>

-----------------------------------------------------------------------------
(* The surroundings.                                                       *)

(* The service dies, or is restarted with another configuration. *)
Restart ==
  /\ Disturb("crash")
  /\ cfg' \in Configurations
  /\ pass' = Idle
  /\ touched' = {}
  /\ UNCHANGED <<kernel, gateway>>

(* Somebody else adds, changes or removes a route; so does a link change. *)
Edit(p) ==
  /\ Disturb("edit")
  /\ \E r \in [ours : {FALSE}, target : Hop] \cup {None} :
       kernel' = [kernel EXCEPT ![p] = r]
  /\ touched' = IF pass.pc \in {"idle", "list"} THEN {} ELSE touched \cup {p}
  /\ UNCHANGED <<gateway, cfg, pass>>

ChangeGateway ==
  /\ Disturb("gateway")
  /\ gateway' \in Hop \cup {None}
  /\ UNCHANGED <<kernel, cfg, pass, touched>>

-----------------------------------------------------------------------------

Step ==
  \/ StartPass \/ List \/ ListFails \/ ResolveDefault \/ ResolveFails
  \/ LeaveAlone \/ ReplaceDry \/ Replace \/ ReplaceFails
  \/ \E p \in Prefix : DeleteDry(p) \/ Delete(p) \/ DeleteRefused(p) \/ DeleteFails(p)
  \/ EndPass

Surroundings == Restart \/ ChangeGateway \/ \E p \in Prefix : Edit(p)

Next == Step \/ Surroundings

Spec == Init /\ [][Next]_vars

(* Every command ends (general.timeout), every pass is followed by another. *)
FairSpec == Spec /\ WF_vars(Step)

-----------------------------------------------------------------------------
(* Properties.                                                             *)

Configured == {specs[i].prefix : i \in DOMAIN specs}

(***************************************************************************)
(* Cleanup never deletes a route that does not carry the service's         *)
(* protocol id, even if the prefix was the service's own when it listed    *)
(* the table; at a prefix that is not configured Sync does nothing to such *)
(* a route. Under dry-run it does nothing to the table at all.             *)
(***************************************************************************)
Foreign(p) == kernel[p] # None /\ ~Ours(p)

ForeignNotDeleted ==
  [][Step => /\ \A p \in Prefix : Foreign(p) =>
                  /\ kernel'[p] # None
                  /\ p \notin Configured => kernel'[p] = kernel[p]
             /\ cfg.dryRun => kernel' = kernel]_vars

(***************************************************************************)
(* Routes without the service's protocol id are never affected. Does not   *)
(* hold: `ip route replace` puts the route of a configured prefix in the   *)
(* place of whatever route the prefix has.                                 *)
(***************************************************************************)
ForeignUnaffected ==
  [][Step => \A p \in Prefix : Foreign(p) => kernel'[p] = kernel[p]]_vars

(***************************************************************************)
(* Cleanup spares what is configured with a target of its own, also in the *)
(* pass that fails to bring it up to date.                                 *)
(***************************************************************************)
Fixed == {specs[i].prefix : i \in {j \in DOMAIN specs : specs[j].target # Default}}

FixedNotDeleted ==
  [][Step => \A p \in Fixed : kernel[p] # None => kernel'[p] # None]_vars

(***************************************************************************)
(* Cleanup spares whatever is configured. Does not hold: a route "via      *)
(* default" is deleted while there is no default gateway.                  *)
(***************************************************************************)
ConfiguredNotDeleted ==
  [][Step => \A p \in Configured : kernel[p] # None => kernel'[p] # None]_vars

(***************************************************************************)
(* Sync: a pass without error leaves every configured prefix with a route  *)
(* of the service, to a target that one of its specs names or the default  *)
(* gateway this pass resolved, unless somebody else has changed it since   *)
(* it was listed or written; and with cleanup no other route that list     *)
(* sees, whatever happened to the table meanwhile.                         *)
(***************************************************************************)
GivenTo(p) ==
  {IF specs[i].target = Default THEN pass.gateway ELSE specs[i].target :
     i \in {j \in DOMAIN specs : specs[j].prefix = p}}

Clean == \A p \in Prefix \ (Configured \cup Unlisted) : ~Ours(p)

InstalledWhenSuccessful ==
  pass.pc = "report" /\ ~pass.failed /\ ~cfg.dryRun =>
    /\ \A p \in Configured \ touched : Ours(p) /\ kernel[p].target \in GivenTo(p)
    /\ cfg.removeStale => Clean

(***************************************************************************)
(* Once disturbances stop, every prefix with a spec that can be resolved   *)
(* is installed as such a spec says, following the gateway that is the     *)
(* default by then, and with cleanup no other listed route of the service  *)
(* is left. ParseSpecs lets a prefix be named twice; no matter which of    *)
(* the two then prevails.                                                  *)
(***************************************************************************)
Resolved(spec) == IF spec.target = Default THEN gateway ELSE spec.target

TargetsOf(p) == {Resolved(specs[i]) : i \in {j \in DOMAIN specs : specs[j].prefix = p}} \ {None}

Installed(p) == TargetsOf(p) # {} => Ours(p) /\ kernel[p].target \in TargetsOf(p)

Converges ==
  <>[](~cfg.dryRun =>
         /\ \A p \in Configured : Installed(p)
         /\ cfg.removeStale => Clean)

(***************************************************************************)
(* ... and from then on passes leave what is installed alone: they report  *)
(* no change, so success actions do not run on every pass, unless a spec   *)
(* names a prefix that list does not see, which is installed each time, or *)
(* two specs name one prefix: they take turns, for both are compared with  *)
(* the same listing.                                                       *)
(***************************************************************************)
Contested == {p \in Configured : \E t \in TargetsOf(p) : TargetsOf(p) # {t}}

QuietOnceConverged ==
  <>[](pass.pc = "report" /\ ~cfg.dryRun => pass.changed \subseteq Unlisted \cup Contested)

=============================================================================
