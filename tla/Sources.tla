------------------------------ MODULE Sources ------------------------------
(***************************************************************************)
(* internal/source: the origins of the configuration, what they publish,   *)
(* and Collect, which asks each of them once and merges the answers.       *)
(*                                                                         *)
(* What an origin publishes is changed by others at any time, in the       *)
(* middle of a scan too. Parsing is abstracted to whether a list has bad   *)
(* entries; what Fetch returns beside an error is dropped by Collect.      *)
(***************************************************************************)
EXTENDS Naturals, Sequences

CONSTANTS
  Prefix,         \* canonical prefixes (routes.ParseOne)
  OriginLists,    \* the source sections the service may be given, as Build orders them
  Publications    \* what an origin of each kind may hold

(* "object" is an S3 object or an SSM parameter: both keep an API client.  *)
Kind == {"static", "file", "optional", "object", "metadata"}

(***************************************************************************)
(* A list without bad entries is readable, one with bad entries spoiled;   *)
(* an absent one does not exist. NewStatic has read a static list.         *)
(***************************************************************************)
Publication == [routes : SUBSET Prefix, state : {"readable", "spoiled", "absent"}]

ASSUME SourcesAssumption ==
  /\ \A list \in OriginLists : list \in Seq(Kind) /\ Len(list) > 0
  /\ Publications \in [Kind -> SUBSET Publication]
  /\ \A kind \in Kind : \A p \in Publications[kind] :
       /\ kind = "static" => p.state = "readable"
       /\ p.state = "absent" => p.routes = {}

VARIABLES
  origins,    \* App.sources
  published,  \* what each of them holds
  client,     \* S3.client and err, SSM.client and err: none, ready, broken
  scan,       \* the locals of Collect: the source to ask next (0: none), set, errs
  steady,     \* history: the sources nobody has changed since the scan began
  offered     \* history: the prefixes in readable lists since the scan began

sourceVars == <<origins, published, client, scan, steady, offered>>

Source == DOMAIN origins

Local(i) == origins[i] \in {"static", "file", "optional"}

(* A missing file is an empty list if it is optional (os.ErrNotExist). *)
Readable(i) ==
  \/ published[i].state = "readable"
  \/ published[i].state = "absent" /\ origins[i] = "optional"

Offered(i) == IF Readable(i) THEN published[i].routes ELSE {}

SourcesTypeOK ==
  /\ origins \in OriginLists
  /\ published \in [Source -> Publication]
  /\ client \in [Source -> {"none", "ready", "broken"}]
  /\ scan \in [at : 0 .. Len(origins) + 1, found : SUBSET Prefix, errs : SUBSET Source]
  /\ steady \subseteq Source
  /\ offered \subseteq Prefix

NoScan == [at |-> 0, found |-> {}, errs |-> {}]

(* Build has run. *)
SourcesInit ==
  /\ origins \in OriginLists
  /\ published \in [Source -> Publication]
  /\ \A i \in Source : published[i] \in Publications[origins[i]]
  /\ client = [i \in Source |-> "none"]
  /\ scan = NoScan
  /\ steady = {}
  /\ offered = {}

-----------------------------------------------------------------------------
(* Collect.                                                                *)

Asking == scan.at \in Source

ScanOver == scan.at > Len(origins)

StartScan ==
  /\ scan' = [NoScan EXCEPT !.at = 1]
  /\ steady' = Source
  /\ offered' = UNION {Offered(i) : i \in Source}
  /\ UNCHANGED <<origins, published, client>>

(* The pass is over: the locals are gone, the history no longer asked for. *)
ForgetScan ==
  /\ scan' = NoScan
  /\ steady' = {}
  /\ offered' = {}
  /\ UNCHANGED <<origins, published, client>>

(* The client of an object is built on first use, once and for all. *)
HasClient(i) == origins[i] = "object" => client[i] = "ready"

BuildClient(succeeds) ==
  /\ Asking
  /\ origins[scan.at] = "object"
  /\ client[scan.at] = "none"
  /\ client' = [client EXCEPT ![scan.at] = IF succeeds THEN "ready" ELSE "broken"]
  /\ UNCHANGED <<origins, published, scan, steady, offered>>

StopAtError(at) == Len(origins) + 1
ContinueAfterError(at) == at + 1

Answered(i) ==
  scan' = [scan EXCEPT !.found = @ \cup published[i].routes, !.at = i + 1]

Failed(i) ==
  scan' = [scan EXCEPT !.errs = @ \cup {i}, !.at = ContinueAfterError(i)]

AcceptSpoiled(i) == published[i].state # "absent" \/ origins[i] = "optional"
AcceptReadable(i) == Readable(i)

(* Nothing but the list itself makes a local source fail; its Fetch has no *)
(* use for the context.                                                    *)
Fetch(ended) ==
  LET i == scan.at IN
    /\ Asking
    /\ HasClient(i)
    /\ ~Local(i) => ~ended
    /\ IF AcceptReadable(i) THEN Answered(i) ELSE Failed(i)
    /\ UNCHANGED <<origins, published, client, steady, offered>>

(* A call that fails, or is made or waited for after the context's end. *)
FetchFails ==
  LET i == scan.at IN
    /\ Asking
    /\ HasClient(i)
    /\ ~Local(i)
    /\ Failed(i)
    /\ UNCHANGED <<origins, published, client, steady, offered>>

(* sync.Once keeps the error of the first attempt. *)
FetchWithoutClient ==
  LET i == scan.at IN
    /\ Asking
    /\ client[i] = "broken"
    /\ Failed(i)
    /\ UNCHANGED <<origins, published, client, steady, offered>>

-----------------------------------------------------------------------------
(* The surroundings: an origin gets another list, or loses it.             *)

Publish(i) == \E p \in Publications[origins[i]] \ {published[i]} :
  /\ origins[i] # "static"
  /\ published' = [published EXCEPT ![i] = p]
  /\ steady' = steady \ {i}
  /\ offered' = IF scan.at > 0 /\ p.state = "readable" THEN offered \cup p.routes ELSE offered
  /\ UNCHANGED <<origins, client, scan>>

SourcesNext ==
  \/ StartScan \/ ForgetScan
  \/ \E succeeds \in BOOLEAN : BuildClient(succeeds)
  \/ \E ended \in BOOLEAN : Fetch(ended)
  \/ FetchFails \/ FetchWithoutClient
  \/ \E i \in Source : Publish(i)

SourcesSpec == SourcesInit /\ [][SourcesNext]_sourceVars

=============================================================================
