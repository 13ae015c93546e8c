# Formal model of cloud-route-manager

TLA+ specifications of the parts of cloud-route-manager whose correctness hangs
on order, concurrency and failure; TLC runs that check them on small instances;
and TLAPS proofs of the properties that matter most, for instances of any size.

Every definition is translated from the Go code; `map` in `PROJECT.json` names
the lines of each. Paths below are relative to the repository.

## The system

A gateway instance runs one process. It makes a *pass* at startup, every
`general.interval`, and on SIGHUP: detect the instance's own address, install
the host's static routes, collect the prefixes that the sources publish, point
each of them at the instance in every cloud route table, and run shell commands
according to the outcome.

| Component (code) | State it keeps | Operations | What makes it hard | What makes it correct |
|---|---|---|---|---|
| Service loop (`internal/app`) | `firstCycle`, the channel `trigger`, a ticker, the signal channel, two contexts | `Run`, `RunOnce`, `cycle`, `Trigger`, `NotifyOnSignal` | two goroutines, one-slot channels, random `select`, a pass cut off by a timeout or a shutdown | no refresh request is lost; actions follow from the outcome of the pass; the schedule restarts after a refresh; it stops when told to |
| AWS manager (`internal/cloud/aws`) | the interface id, once resolved | `Sync`, `syncTable`, `networkInterfaceID` | tables shared with other instances and operators, one call per route on a table read earlier, lost answers | only listed prefixes are touched; a pass without error has routed them; the report is an account of what happened; convergence |
| Yandex manager (`internal/cloud/yandex`) | none (a token cache) | `Sync`, `syncTable`, `updateStaticRoutes`, `waitOperation` | read-modify-write of whole tables by several instances; operations executed after the process stopped waiting | unlisted routes survive; no success for a rejected update; convergence in spite of lost updates |
| Cloud contract (`internal/cloud/cloud.go`) | — | `Manager.Sync` | holds for both providers | what may change in the tables, and by whom |
| Host routes (`internal/localroutes`) | none (the kernel's table) | `Sync`, `list`, `defaultGateway`, `ip route replace` and `del` | the kernel's table changes between two commands; the default gateway comes and goes; restarts with another list | foreign routes are not deleted; cleanup spares what is configured; convergence, and quiet afterwards |
| Sources (`internal/source`), route sets (`internal/routes`) | cached API clients | `Build`, `Collect`, `Fetch`, `Parse` | one source fails among several; lists change in the middle of a scan; `sync.Once` keeps the error of the first attempt | what the sources that answer hold is applied, nothing is left out in silence, nothing is applied that was not offered |
| Actions (`internal/actions`, `App.actionsBudget`) | — | `Run` | two deadlines; a child that outlives the shell that was killed | a batch is bounded; no command takes the turn of the next |
| Yandex metadata (`metadata.go`) | token and its expiry | `Token`, `Get`, `Manager.do` | time passes between the check of the expiry and the use of the token | a token lasts longer than the request made with it |
| Startup (`main.go`, `config.go`, `cloud/detect.go`, the systemd unit) | the configuration, the provider | `run`, `Load`, `New`, `ResolveProvider`, `isAWS`, `isYandex` | probes share a deadline; some failures pass and others last; SIGHUP and SIGTERM at any moment; the exit code decides on the restart | the loop runs in the right cloud or not at all; no failure looks like success; the service starts in the end if nothing that lasts is in the way |
| `internal/netinfo`, logging, Docker | — | `Detect` | sequential | not modelled; see below |

The components meet in one process through calls: the loop calls
`localroutes.Sync`, then `source.Collect`, then `cloud.Manager.Sync`, then the
action runner, always from one goroutine. They meet other processes through
shared state only: the cloud route tables and the kernel's routing table.
The second goroutine, of `NotifyOnSignal`, talks to the loop through a channel.

## Modules

| Module | Models | State |
|---|---|---|
| `RouteTables` | what `cloud.Manager.Sync` promises: a gateway points prefixes of its lists at itself, operators do what they like, nobody else does anything | `table` |
| `AwsManager` | any number of gateways with the AWS manager, EC2, operators | `table` (EC2), `addr` (the host), `eni` (`Manager.eni`), `pass` (the locals of `Sync` and `syncTable` while a pass runs), `budget` |
| `YandexManager` | any number of gateways with the Yandex manager, the VPC and operation APIs, operators | `table`, `operations` (the API), `pass`, `budget` |
| `AppLoop` | `App.Run`, `RunOnce`, `NotifyOnSignal`, signals, the ticker | `loop` (where the loop's goroutine is), `firstCycle`, `pass`, `trigger`, `tick`, `cancelled`, `signals`, `forwarder` and the history variables `asked`, `tickIsOld`, `passes` |
| `Service` | extends `AppLoop` to the life of the process: `main.run`, `App.New`, cloud detection, systemd | `setup` (file, flag, static list, host, access to its cloud), `stage` (where main is), `provider`, `late` (the shared context of the AWS probes has ended), `exit`, `budget` |
| `LocalRoutes` | `localroutes.Manager.Sync` and the kernel's table | `kernel`, `gateway`, `cfg`, `pass`, `budget`, and `touched`, which remembers what others changed since Sync listed or last wrote it |
| `Sources` | the origins and what they publish, `Collect`, all five `Fetch` | `origins`, `published`, `client` (`sync.Once`), `scan` (the locals of `Collect`), and `steady`, `offered`, which remember what happened during the scan |
| `Actions` | `Runner.Run` under the context of `RunOnce` | `actionTimeout`, `batch` |
| `YandexToken` | `MetadataClient.Token` and the requests of `Manager.do` | `token`, `call` |
| `Gateway` | a pass from end to end on Yandex: the loop, the sources, the token, one table and the actions with the time they take. Extends `Sources`, `Actions` and `YandexToken`; implements `AppLoop` | theirs, `loop`, `pass`, `tick`, `cancelled`, `timeLeft` (the context of the pass), `routed` (the prefixes that lead here), `request`, and `passes`, `synced`, `lost` as history |
| `MCAwsManager`, `MCYandexManager`, `MCAppLoop`, `MCService`, `MCLocalRoutes`, `MCGateway` | values of the constants for TLC | |
| `AwsManagerProofs`, `YandexManagerProofs`, `AppLoopProofs`, `ServiceProofs`, `LocalRoutesProofs`, `ActionsProofs`, `YandexTokenProofs`, `GatewayProofs` | theorems | |

How the code became actions:

- A pass is a program counter (`pass.pc`, `loop`) and the locals that live from
  one call to the next. Everything between two calls to the outside is one
  action, since no other goroutine of the process touches those locals.
  `AwsManager`'s `Describe` reads a table and computes what to do,
  `CallSucceeds`, `CallAnswerLost`, `CallRefused` and `CallFails` are the
  outcomes of one `CreateRoute` or `ReplaceRoute`; `YandexManager`'s `GetTable`
  reads a table and computes the whole update, `PatchAccepted` hands it over,
  `Execute` is the API's own step, `PollDone`, `PollRejected` and `PollFails`
  are what `waitOperation` sees.
- Where the code loops over tables, the action ends in `NextTable`; over
  prefixes, in `NextPrefix`, in the order of `routes.Less`; over specs, in
  `NextSpec`. `errs = append(...)` is `Fail`.
- What can go wrong is a *disturbance*: a fault of a call, the end of the
  context of a pass, a crash with restart, a rejected operation, an edit of a
  table, a route turned blackhole, a moved address or gateway. Once the context
  has ended, all further calls of the pass fail without being disturbances.
- Prefixes, addresses, interfaces, tables are members of small sets. Parsing,
  text, logging and the previous next hop of a change, which is only logged,
  are left out. The metadata service and the API fallback of
  `networkInterfaceID` are one lookup.
- Lists are never empty: `syncCloud` returns before `Sync` if the list is.
- Time. `Actions`, `YandexToken` and `Gateway` count units of half a minute.
  Every deadline is a timer that runs down with `BatchElapses`, `TokenElapses`
  and, for all of them at once, `Gateway`'s `Elapse`. A killed shell ends before
  any more time passes, its child need not: that is what `drain` is.
- Composition. A component that `Gateway` extends has actions that change its
  own variables only. `Gateway` joins them: `SyncLocal` starts the scan,
  `ScanEnds` hands its result to Sync, `GotTable`, `UpdateDone` and `SyncFails`
  join the errors of the sources with that of Sync, `RunActions` starts the
  batch. `PassesRunActions`, `PassesUseToken` and `PassesCollect` prove that the
  composition does nothing to a part which the part's own specification does
  not allow.
- Abstraction. `ImplementsLoop` maps `collect` and `sync` to the one place
  `cloud` of `AppLoop`: there the halves of a pass report anything, here they
  report what sources, token and table give. `Gateway` leaves out SIGHUP, whose
  handling `AppLoop` has.
- `Service` runs the actions of `AppLoop` while `stage` is `run` and starts it
  anew on a restart. A flag given twice is the last one; `-cloud` not passed is
  `none`. `badEntry` is a static list with an entry that is no route, which both
  validations let pass and `source.Build` does not. `access` is where `NewManager`
  finds a region or a first token: in metadata, which only the host's own cloud
  has, in the environment, or nowhere. Like an invalid `general.cloud` these do
  not change from one start to the next, so a service that lacks them fails for
  ever; what passes (a request that fails, a probe that hangs) is a disturbance.

## Runs

All runs take less than three minutes with two workers; the largest are
`local_cleanup` (494,106 states), `gateway` (472,360) and `app_loop` (224,014).

| Run | Checks | Shows |
|---|---|---|
| `aws_promise` | `TypeOK`, `AccountedChanges`, `ImplementsPromise` | two gateways with overlapping, changing lists and two disturbances of six kinds: each gateway touches only prefixes of its lists, also on a wrong interface, and its report tells what EC2 did |
| `aws_converge` | `RoutedWhenSuccessful`, `ImplementsPromise`, `Converges`, `QuietOnceConverged` | one gateway over two tables with an operator on one of its prefixes, an instance under dry-run beside it: success means routed, passes repair everything and then fall silent, dry-run writes nothing |
| `yandex_shared` | `TypeOK`, `NoSuccessForRejectedUpdate`, `UnmanagedUntouched`, `Converges` | two writers and an operator on one table, three disturbances: routes that are on no list, or only on one used under dry-run, survive, no false success, lost updates are made good |
| `yandex_alone` | `RoutedWhenSuccessful`, `ImplementsPromise` | one writer over two tables with three disturbances: late operations of earlier passes do not take back what a successful pass did |
| `app_loop` | `TypeOK`, `ServiceTypeOK`, `NoRefreshForgotten`, `FailureReported`, `ChangesAnnounced`, `CloudAsTold`, `NoFalseSuccess`, `RefreshHonoured`, `RefreshPostponesSchedule`, `ShutdownEventually`, `StartsEventually` | `Service`: the loop in all sixteen configurations, and startup with every way to name the cloud on every kind of host, with and without access to it and a list that can be read, with signals at any moment, failing and hanging probes, and restarts |
| `gateway` | `TypeOK`, `HealthyApplied`, `NothingLostSilently`, `AppliedWasOffered`, `OfferedRouted`, `TokenOutlivesRequest`, `BatchBounded`, `EveryCommandStarts`, `ImplementsLoop` | passes end to end: lists that change, go bad or vanish while they are read, clients that cannot be built, tokens that run out, commands that overrun, a cancellation at any moment |
| `local_cleanup` | `TypeOK`, `InstalledWhenSuccessful`, `ForeignNotDeleted`, `FixedNotDeleted`, `Converges`, `QuietOnceConverged` | success means installed, cleanup spares foreign routes, and the host's routes through restarts with other lists (one of them names a prefix twice), edits and gateway changes |
| `aws_stale_eni` | `RoutedWhenSuccessful`, violated | the interface resolved first is used for ever |
| `yandex_lost_update` | `NothingDeleted`, violated | one instance deletes the route another has just added |
| `app_without_local` | `LocalUnusedUnlessConfigured`, violated | a nil pointer in a non-nil interface: the process dies in its first pass |
| `local_gateway_gone` | `ConfiguredNotDeleted`, violated | cleanup deletes a configured route while there is no default gateway |
| `local_foreign` | `ForeignUnaffected`, violated | `ip route replace` of a configured prefix takes the place of a foreign route |

The last five are disagreements between the code and what its own comments,
README or changelog say; `findings` in `PROJECT.json` quotes both sides.

Deadlock is checked but in `app_loop`, `app_without_local` and `gateway`, where
the process may exit.

### Bounds

- `MaxDisturbances` bounds how much goes wrong, 2 or 3 per behaviour. Two are
  enough for every pair of mishaps (a crash after a lost answer; an edit
  between the read and the write of a pass whose predecessor left an operation
  behind); initial tables of any content stand for all earlier mishaps.
- Two gateways, because conflicts on a table are pairwise; two tables where a
  property speaks of all tables, one where it is about conflicts on one table.
- Two prefixes of a list tell "first", "later" and "last" of a loop apart; one
  more prefix on nobody's list is what may be destroyed by mistake.
- `MaxOperations = 3`: an operation per writer and one left behind. If all are
  taken, `Accept` waits until one is over; an operation nobody waits for is
  forgotten when it ends, so this blocks no pass for good.
- `AppLoop` needs no bound but for `passes`, which stops counting at 2: the
  properties ask only for the first pass.
- `Service` has two disturbances, enough for a probe that hangs with a signal
  or another failure after it, and for two failed starts; SIGHUP costs none.
  Every configuration of the loop is combined with one host; one configuration
  with every host, file (`yandex` is told like `aws`), flag (`auto` is told like
  a file that says so) and access: startup does not look at the rest. A static
  list with a bad entry comes with access through metadata only, as `New` ends
  before it asks for any.
- `Gateway` scales the code's times down and keeps their order: half a minute
  for an HTTP exchange (`HttpTimeout = 1`), twice that for the margin of a
  token, more for the hour assumed of a token that does not say
  (`Hour = 4`), `general.timeout` of two units. Tokens are granted for 2 units,
  the margin, so that nothing is cached, or for 3, so that the cache is used
  and runs out. Action timeouts are none and two units, with two commands and
  a child that lives on for one unit: budgets are used up both ways. There are
  no success actions, which are run the same way. Two disturbances are shared
  by all parts.
- Two prefixes and two instances of the source list, which between them have
  all five kinds of origin, good, spoiled and absent lists.

### Fairness

- `AwsManager`, `YandexManager`, `LocalRoutes`: the steps of a pass go on. The
  calls of a pass have deadlines (`general.timeout`, the 30 s of the HTTP
  client, `opTimeout`), and the loop starts another pass after `general.interval`.
  With `general.timeout` unset this relies on the SDK's and ip(8)'s own limits.
  Nothing is assumed of disturbances: they may stop, and being bounded they do.
- `YandexManager`: an operation is executed in the end, unless it is rejected.
- `AppLoop`: both goroutines are scheduled. `select` picks at random among
  ready channels, so a channel that is ready again and again is taken in the
  end: strong fairness of each of its three cases. The ticker need not tick, so
  that no property holds just because the next scheduled pass comes along.
- `Service`: that of `AppLoop` while the loop runs; main goes on, for every
  probe and request at startup has a deadline, and systemd restarts what ended
  with an error (`Restart=on-failure`, which `RestartSec=10s` keeps under the
  start limit). What fails at startup and passes is bounded by
  `MaxDisturbances`; `StartsEventually` is about starts that nothing lasting
  prevents (`CanStart`), and the run has the others too.
- `Gateway`: the work of a pass goes on and the ticker ticks (weak fairness,
  for nothing takes these away), and time passes whenever it keeps being due
  (strong fairness, for it stops while something is to happen at once). Unlike
  in `AppLoop` the ticker must tick: `OfferedRouted` is about later passes.

## Proofs

All theorems hold for every value of the constants that satisfies the named
assumption of the module (`AwsAssumption`, `YandexAssumption`, `AppAssumption`,
`ServiceAssumption`, `LocalAssumption`, `SourcesAssumption`,
`ActionsAssumption`, `TokenAssumption`, `GatewayAssumption`). They say that
constants have their types, that there is at least one table, that lists are
not empty and that "no route" is no route. One says more: `TokenAssumption` has
`2 * HttpTimeout =< Margin`, in the code `http.Client.Timeout` of 30 s and a
margin of a minute. TLC evaluates all of them in the runs.

Three theorems have hypotheses on the constants besides. They are what the
properties' own comments say they are meant for, each passing run of the property
is an instance of them, and without them the property is false of the code:

- `AwsManagerProofs!SuccessMeansRouted`: `Alone`, no two writing gateways share
  a prefix that nobody edits (they would take it from each other, as two
  instances of one route do), and `OneInterface`, the addresses of a gateway
  belong to one interface (`aws_stale_eni` shows what happens otherwise).
- `YandexManagerProofs!SuccessMeansRouted`: `OneWriter`, `FixedList` and
  `NotEdited`: at most one gateway writes, it always has the same list, and
  nobody edits the prefixes on it. A second writer undoes what the first has
  done (`yandex_lost_update`), and so does an operation of an earlier pass with
  another list that is executed late.
- `YandexManagerProofs!KeepsPromise`: the same with `Edited = {}`, for a late
  operation puts back whatever an operator has changed since.

| Theorem | States |
|---|---|
| `AwsManagerProofs!TypeCorrect` | `Spec => []TypeOK` |
| `AwsManagerProofs!KeepsPromise` | `Spec => ImplementsPromise`: the refinement of `RouteTables` |
| `AwsManagerProofs!ReportsAreAccounts` | `Spec => []AccountedChanges` |
| `AwsManagerProofs!SuccessMeansRouted` | `Spec => []RoutedWhenSuccessful`, for an instance that is alone |
| `YandexManagerProofs!TypeCorrect` | `Spec => []TypeOK` |
| `YandexManagerProofs!LeavesUnmanaged` | `Spec => UnmanagedUntouched` |
| `YandexManagerProofs!SuccessIsKnown` | `Spec => []NoSuccessForRejectedUpdate` |
| `YandexManagerProofs!SuccessMeansRouted` | `Spec => []RoutedWhenSuccessful`, for one writer |
| `YandexManagerProofs!KeepsPromise` | `Spec => ImplementsPromise`, for one writer: the refinement of `RouteTables` |
| `AppLoopProofs!TypeCorrect` | `Spec => []TypeOK` |
| `AppLoopProofs!RefreshNeverForgotten` | `Spec => []NoRefreshForgotten` |
| `AppLoopProofs!FailuresReported` | `Spec => []FailureReported` |
| `AppLoopProofs!ChangesAreAnnounced` | `Spec => []ChangesAnnounced` |
| `ServiceProofs!ServiceTypeCorrect` | `ServiceSpec => [](TypeOK /\ ServiceTypeOK)` |
| `ServiceProofs!RunsInItsCloud` | `ServiceSpec => []CloudAsTold` |
| `ServiceProofs!ExitCodeIsEarned` | `ServiceSpec => []NoFalseSuccess` |
| `ServiceProofs!ServiceForgetsNoRefresh` | `ServiceSpec => []NoRefreshForgotten` |
| `ServiceProofs!ServiceActionsFit` | `ServiceSpec => [](FailureReported /\ ChangesAnnounced)` |
| `ServiceProofs!RefreshComesFirst` | `ServiceSpec => RefreshPostponesSchedule` |
| `LocalRoutesProofs!TypeCorrect` | `Spec => []TypeOK` |
| `LocalRoutesProofs!ForeignSpared` | `Spec => ForeignNotDeleted` |
| `LocalRoutesProofs!FixedSpared` | `Spec => FixedNotDeleted` |
| `LocalRoutesProofs!SuccessMeansInstalled` | `Spec => []InstalledWhenSuccessful` |
| `ActionsProofs!ActionsTypeCorrect` | `ActionsSpec => []ActionsTypeOK` |
| `ActionsProofs!BatchesBounded` | `ActionsSpec => []BatchBounded` |
| `ActionsProofs!CommandsStart` | `ActionsSpec => []EveryCommandStarts` |
| `YandexTokenProofs!TokenIsLongEnough` | `TokenSpec => []TokenOutlivesRequest` |
| `GatewayProofs!PartsKeepTheirPromises` | what was proved of actions and token alone, of `Gateway` |
| `GatewayProofs!PassesCollect` | `Spec => SourcesSpec` |
| `GatewayProofs!TypeCorrect` | `Spec => []TypeOK` |
| `GatewayProofs!HealthySourcesApplied` | `Spec => []HealthyApplied` |
| `GatewayProofs!NoLossIsSilent` | `Spec => NothingLostSilently` |
| `GatewayProofs!AppliedIsOffered` | `Spec => AppliedWasOffered` |
| `GatewayProofs!LoopIsImplemented` | `Spec => ImplementsLoop`: the refinement of `AppLoop` |
| `GatewayProofs!PassesAreActedOn` | what was proved of the loop's actions alone, of `Gateway` |

The arguments:

- **AWS.** `TypeOK` is not inductive: a pass "describing" must be at a table
  that exists, and what it writes must be an interface. `Sound(g, s, e)` says
  so of one pass: the interface cached is one of g's own and known before a
  table is read, the tables are taken in turn, what is left to do is on a list
  of g. `IInv` is `TypeOK` and `Sound` of every gateway. A write is then a
  `Claim` of `RouteTables` (`WriteClaims`), everything else a stutter or an
  operator's edit; a blackholed route keeps its target, so the abstract table
  does not see it.
- **Yandex.** An update rewrites a whole table, long after it was computed, so
  no step can be judged alone. `UInv` says that routes on nobody's list are the
  same in three places: in the table, in what a pass is about to send for it,
  and in every operation not yet executed. `NextKeeps` shows that no step
  changes them in the table, `NextRunning` and `NextPass` that operations and
  updates come from nowhere but the table; so the copies stay in agreement.
- **Routed when successful.** The claim is about the end of a pass, over all
  tables, while the tables are read and written one at a time; what a pass
  knows of a table must stay true while others act on it.
  - *AWS.* `Held(g, s, e, ts)` says of one pass: as long as it has no error, the
    tables behind it are routed to the interface e it has cached (`Points`); in
    the table it is at, what is still to do is as it was read, and the rest of
    the list is routed. It lasts (`HeldUndisturbed`) because, by `Alone`, no
    other gateway writes those prefixes, and operators write only those the
    property excepts. `OneInterface` makes e the interface of the address that
    the pass works with.
  - *Yandex.* Writing is the API's, later. `ClaimsInFlight` says that every
    update on its way, whoever has forgotten it, gives the writer's prefixes to
    the writer; `FixedList` and `NotEdited` make that enough, for then nothing
    that is executed late takes a listed route away. `Works` follows the pass:
    tables behind it are routed, and the operation it waits for will route the
    one it is at. From `ClaimsInFlight` it also follows that an executed
    operation is a `Claim` of `RouteTables`, which is `KeepsPromise`.
- **Loop.** `TypeOK` is inductive and is proved in two halves, the Boolean
  variables and the rest. `NoRefreshForgotten` is inductive once the types are
  known. For the actions, `Fitting` relates what ran to the outcome of the pass
  from `RunActions` on until the next pass begins, `FirstInv` ties `firstCycle`
  to the count of passes, and `DryInv` says that nothing counts as changed under
  dry-run. `TickInv`: no tick is older than the
  last refresh, as `Ticker.Reset` empties the channel.
- **Reports.** `AccountedChanges` speaks of the end of a pass; `Accounted`
  says it of every moment: a reported change was made, and one made is reported
  or there is an error. Each outcome of a call keeps it, a lost answer because
  it fails. For Yandex a report comes before the update: `SeenThrough` excepts
  the table whose update is about to be sent or waited for (`Pending`), and a
  table is left only with its update seen through or with an error.
- **Service.** `CloudInv` carries the claim of `CloudAsTold` back through the
  stages: from the configuration's validation on, what is told is a name; past
  `source.Build` the static list is known to be readable; while probes are made
  what is told is `auto`; once a provider is chosen it is the right one, for a
  probe that fails or hangs chooses none; past `NewManager` there is access. `ExitInv` knows of a process
  that is down what its loop had come to. `LoopInv` carries the invariants of
  the loop through the stages before it runs, when it is as new (`Fresh`), and
  through restarts, which make it so again.
- **Host routes.** A pass never deletes the route of a fixed spec because its
  prefix is in `desired` once the spec has had its turn, whatever failed
  (`FixedInv`), and only what is not in `desired` is stale. A foreign route is
  spared by `ip route del ... proto`, whatever has changed since the listing.
  For `SuccessMeansInstalled`, `SyncInv` says what a pass without error `Knows`
  of the table at any moment: what is desired is `Placed`, what has not had its
  turn is still `AsListed`, what list would have shown and did not is not the
  service's (`Unseen`), and the specs behind it are `Done`; what others touch
  is excepted until the pass writes it itself. Two specs of one prefix need
  `Placed` to allow either target.
- **Actions.** Time spent and budget left add up to the budget until that is
  used up; afterwards only a child already there keeps the batch waiting. For
  `CommandsStart`, the budget left covers `Per` for each command to come as
  long as none was overtime.
- **Token.** `CacheInv`: what a cached token still lasts exceeds the time until
  it is no longer used by the margin, less the time it took to arrive.
  `CallInv` follows it through the exchange: what it lasts and the age of the
  exchange together exceed `HttpTimeout` until it arrives.
- **Gateway.** The steps of the parts are first shown to be theirs, so that the
  theorems about `ActionsSpec`, `TokenSpec` and `SourcesSpec` carry over.
  `GatewayInv` then has the types, `ScanInv` (every source asked so far that
  did not change meanwhile is in what was found or among the errors; what was
  found was offered) and `TableInv` (what was found leads here, or did until
  someone took it, from the accepted update on; a pass without error has had
  Sync done and no source failed). `LoopIsImplemented` treats each step of
  `Gateway` as a step of `AppLoop` or as one it does not see; the theorems
  about `AppLoop` are then instantiated under the same mapping (`LoopAlone`).

Each inductive invariant was checked by TLC before it was proved; the three
written last, `HeldInv`, `WriterInv` and `SyncInv`, on the instances of
`aws_converge`, `yandex_alone` and `local_cleanup`.

Only model-checked is liveness, which needs fairness and ENABLED, and TLAPS does
not reason about these: `Converges` of the managers and of `LocalRoutes`,
`QuietOnceConverged`, `OfferedRouted`, `RefreshHonoured`, `ShutdownEventually`
and `StartsEventually`. Every other property of a passing run is a theorem. No
recursive definition occurs in any module.

## Disagreements not run

These were met while modelling; the models contain the behaviour, and the
properties are worded so as to allow it.

- `internal/cloud/yandex/routes.go:163` returns the changes of a table together
  with the error of the update that failed, and the loop logs them as made;
  `cloud.go:58` and the AWS manager leave out what failed.
- `internal/app/app.go:193` uses up `run-on-start` in a first pass that fails;
  `config.go:152` speaks of the first successful cycle.
- `internal/app/app.go:224` runs the success actions of the first pass under
  `dry-run` if `run-on-start` is set; `README.md:215` says never, and so do the
  comment at `app.go:292-294` and `TestRunOnceDryRunDoesNotFireSuccessActions`,
  whose configuration leaves `run-on-start` unset. `ChangesAnnounced` says nothing
  of the success actions of the two switches together.
- `internal/config/config.go:209`: validation looks into local routes, "so that a
  typo is caught by -check-config" (`config.go:243`), but not into a static list:
  a bad entry there passes `-check-config` and fails every start
  (`static.go:20`), which systemd repeats for ever. `CanStart` excepts it.
- `main.go:177`: until `NotifyOnSignal` has run, cloud detection and first token
  included, SIGHUP has its default action and ends the process, and
  `Restart=on-failure` does not bring it back; the unit file (line 12) says that
  SIGHUP forces a scan "without restarting the service". `HangupKillsStart`
  models it and `StartsEventually` allows for it.
- `internal/localroutes/localroutes.go:162`: `ip route show` prints no IPv6
  routes, and the default prefix as `default`, so specs for those are installed
  and reported anew on every pass. `Unlisted` is the set of these prefixes.
- `internal/source/source.go:61` drops all that a source returned beside an
  error; `routes.go:95-96` collects bad entries so that "one bad entry does not
  hide the rest of the list". One bad entry hides the list (`spoiled`).
- `internal/source/s3.go:63`, `ssm.go`: after a failure to build the client the
  source is never asked again; `config.go:97` speaks of every configured source
  being queried on each pass. `OfferedRouted` excepts these, and
  `NothingLostSilently` shows that every pass reports them.
- `internal/actions/actions.go:86`: a child that keeps the output pipe open
  outlives `action-timeout`, as `Cmd.WaitDelay` is not set; `config.go:89` says
  the timeout bounds a single action command. `BatchBounded` adds `OrphanTime`.
- With `action-timeout` at zero or below, one command may use up the budget of
  all; `README.md:204-205` says a failing command does not stop the rest.
  `EveryCommandStarts` is about timeouts above zero.
- `internal/cloud/detect.go:16` has `DetectTimeout` bound "a single metadata
  probe", but both probes of `isAWS` run in one context: if the token request
  hangs, the fallback to IMDSv1 has no time left (`late`).
- The file is validated by itself before the command line overrides it
  (`main.go:142`), so `-cloud` cannot mend a bad `general.cloud`.
- The unit's `TimeoutStopSec=30s` is shorter than a batch of actions may be.
- After SIGTERM `select` may begin further passes, each of which fails at once
  and runs the failed actions, before it takes `ctx.Done`.
- Two local specs for one prefix take turns on every pass (`Contested`).

## Not modelled, and why

- `netinfo.Detect` reads the host's interfaces; the models take its outcome
  from a set (`addr`, `Detect` of `AppLoop` and `Gateway`). `YandexManager` has
  a fixed address per gateway.
- Parsing of routes, specs and YAML, logging, Docker: text and I/O. The
  switches that matter are constants or variables of the modules; of the
  configuration only `general.cloud` is followed through its sources.
- `-version` and `-check-config`, which end before anything is started.
- `YC_IAM_TOKEN` and `YC_TOKEN`, which make the token a constant, and tokens
  revoked before their end.
- `Service` takes a Yandex host not to answer the EC2 path of the instance id.
- `Gateway` leaves to other modules what they treat in full: SIGHUP
  (`AppLoop`), operations executed late and other routes of the table
  (`YandexManager`), the host's routes (`LocalRoutes`).
- `s3.go:20,56` reads no more than 8 MiB of an object: the rest of a longer list
  is left out without an error. The lists of `Sources` are shorter, so what
  `NothingLostSilently` and `AppliedWasOffered` say does not extend to such objects.
- A child of a command that holds the output pipe for ever: without
  `Cmd.WaitDelay` the batch, and with it the loop, would wait for ever. `Actions`
  bounds what a child lives on by `OrphanTime`, and `ShutdownEventually` takes it
  that actions end.
- Duplicate entries in a Yandex table, kernel routes with several metrics, a
  PATCH answered without an operation id (taken for success). A PATCH answered
  as done at once is one that is accepted, executed and polled.

## Plan

1. `RouteTables`, `AwsManager`, `YandexManager`, `AppLoop`, `LocalRoutes`, their
   runs and the first theorems. *Done.*
2. `Sources`, `Actions`, `YandexToken`, `Service`, and `Gateway`, which composes
   the first three with the loop; that it implements `AppLoop`. *Done.*
3. Theorems on the safety of every module but those named above as only
   model-checked. *Done.*
4. `RoutedWhenSuccessful` of both managers, `Yandex`'s refinement for one
   writer, `InstalledWhenSuccessful` of the host's routes, the loop's theorems in
   `Service` and in `Gateway`. *Done.*
5. Left: the step from "routed" to "quiet", that a pass over a table which is as
   it should be writes nothing, as an action property with a theorem; a next hop
   that changes in `YandexManager`; `Gateway` with the AWS manager, whose SDK
   retries on its own.
