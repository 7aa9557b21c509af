# TLA+ verification of proxypools

`proxypools` keeps a sing-box process supplied with the nodes of a proxy
subscription: it downloads the subscription, stores the nodes in SQLite, writes a
sing-box configuration, restarts sing-box with it, probes the nodes through
sing-box's Clash API, moves each listening port from a dead node to a healthy one,
and, in front of all that, runs a dispatcher that spreads HTTP and SOCKS5 requests
over "lanes".  An administrator may lock a port to a node, disable nodes and ask for
refreshes meanwhile.

This directory holds TLA+ models of that control logic, TLC configurations that
check them on small instances, and TLAPS proofs that the safety properties hold, and that
the detailed modules implement the abstract ones, for any number of nodes, ports, lanes,
requests and configurations.
All paths below are relative to `src/`.  `PROJECT.json` maps every definition to the
lines it was translated from, lists the runs with their properties, a mutation of
the code's model that breaks each property, the hazards the properties are aimed at,
and the places where code and documents disagree.

    tlc -workers 2 -config MCControlPlane_overlap.cfg MCControlPlane
    tlapm SingBoxProcess_proofs.tla
    tlapm Startup_proofs.tla
    tlapm OrderLemmas.tla
    tlapm NodeSelection_proofs.tla
    tlapm PortFailover_proofs.tla
    tlapm Dispatcher_proofs.tla
    tlapm ControlPlane_proofs.tla
    tlapm PortChoices_proofs.tla

## 1. Inventory

### The parts, their state and their operations

| Part | Code | State | Operations | Model |
|---|---|---|---|---|
| sing-box supervisor | `internal/runtime/process.go`, `applyNodesToRuntime`, `Shutdown` | `cmd`, `running`, `lastError`, `lastApplyStatus` under `Process.mu`; the configuration file; the child | Check, WriteConfig, Start, `wait` (one goroutine per child), Stop, IsRunning | `SingBoxProcess`, promising `ConfigRollout` |
| node selection and scoring | `internal/pool/selector.go`, `scorer.go`, `checker.go` | none (functions of a `node_runtime_status` list) | Probe, Score, SelectNext, sequential, random, balance | `NodeSelection`, `PortFailover` |
| subscription refresh, registry | `app.go` RefreshSubscription, `storage/sqlite` | `nodes`, `node_runtime_status`, `port_node_state`, `port_runtime_state`, `request_lane_state` | refresh: read, fetch, replace, restore, reload | `ControlPlane`, promising `PortChoices` |
| health check, failover | `app.go` runHealthCheck, reconcilePortRuntime; `internal/pool/scheduler.go` | the same tables, the selectors of sing-box | probe all nodes, move ports, re-assign lanes | `ControlPlane`, `PortFailover` |
| administrator requests | `app.go` SwitchNode, UnlockSelection, SetNodeManualDisabled | the same | switch and lock, unlock, disable, enable | `ControlPlane`, `PortFailover` |
| lanes | `app.go` buildLaneStates, reconcileLaneStates | `request_lane_state` | assignment of nodes to lanes | `ControlPlane`, `Dispatcher` |
| dispatcher | `app.go` dispatcherRelay, `internal/pool/dispatcher_selector.go` | the snapshot under `snapshotMu`; `request_lane_state.state` | serve a request with fallback, record its outcome, rebuild the snapshot | `Dispatcher`, promising `LaneService` |
| Clash API client | `internal/runtime/clashapi.go` | none | switch a selector, measure a delay | by its effect, in `ControlPlane` |
| configuration builder | `internal/runtime/builder.go` | none | nodes, ports and lanes to JSON | which node each selector starts at, in `ControlPlane`; where it listens, in `ListenBindings` |
| program entry | `cmd/proxypools/main.go` | none | serve, wait for a signal, shut down within five seconds | `SingBoxProcess` |
| startup and settings | `app.go` New, UpdateRuntimeSettings; `internal/config` | `a.Config`, the port rows, the tables of earlier runs | merge the environment with what is stored, refresh or apply stored nodes, listen; change settings | `Startup`, crash and restart in `ControlPlane` |
| configuration validation | `internal/config/config.go` ResolvedPorts, Validate | none | fill in what a port does not give; listeners must differ | `ListenBindings` |
| fetcher and parser | `internal/subscription`, `internal/parser` | none | bytes to nodes and their keys | `SubscriptionParser` |
| admin API, web UI | `internal/web` | none | routes, authentication, JSON | not modelled |
| event log | `repository.go` CreateEventLog, ListEventLogs | append-only table | | not modelled |
| schema migration | `storage/sqlite/db.go`, `migrations.go` | the schema | create, alter, insert the default port's row | the row, in `Startup`; constraints cited in the map |

### How they interact

- There is one SQLite connection (`MaxOpenConns(1)`): every statement is atomic, and no
  sequence of statements is, except the transactions of ReplaceNodesForSubscription,
  SetPortNodeManualDisabled and UpdatePortRuntimeState.  Most repository calls are one
  statement or one transaction; section 5 names those that are two.
- `App.refreshMu` serialises refreshes with each other and with nothing else.
- One scheduler goroutine serves both tickers, so a scheduled refresh and a health
  check never overlap; a refresh asked for over the API, the administrator's requests
  and the dispatcher's requests overlap everything.
- `Process.mu` protects each access to `cmd` and `running`, not the sequence that
  Stop makes of them; the goroutine that waits for a child clears `running` whenever
  gets to run.
- Start only forks: sing-box opens its configuration file by itself, some time after
  Start has returned, and the next refresh may have begun to overwrite it by then.
- The health check and the administrator drive sing-box over the Clash API, a refresh
  by replacing the process.
- `a.Config` is written by settings requests and read by everything else, without a
  lock.
- Under docker-compose the program is restarted whenever it ends, with the same
  database; New itself refreshes the subscription or applies the stored nodes.
- Lane states are written by refreshes, health checks and dispatcher requests;
  health checks and node toggles rebuild the dispatcher's snapshot, dispatcher
  requests edit it in place.

### What is hard here

State read before a slow call and written back whole after it (health check: the
statuses, the port row; refresh: the disabled keys, the lanes); node ids that change
with every refresh while probes, requests and rows still carry old ones; a flag that
stands for "the current child" cleared by the goroutine of an earlier one; a reload
that fails at any of its five steps; a configuration file that is overwritten in place
while a child started from it may not have read it; a disabled flag kept per port and
mirrored globally for the default port, on which ports without rows of their own fall
back; requests that share a snapshot, edit it and outlive
rebuilds; selection with one or no eligible node; a start that finds what an
interrupted run left; listeners computed in two places, by Validate from the
configuration and by the builder from the stored lanes; node keys computed by two
parsers.  `PROJECT.json` lists these as
hazards, each at its line with the properties aimed at it.

### What makes each part correct

- Supervisor: the flag never claims a child nobody watches and never sticks; Start is
  never a no-op; "applied" means that the newest sing-box belongs to the file on disk;
  what a sing-box reads was checked for it, unless a later apply was quicker; an apply
  ends.
- Selection: agrees with a reference definition; rotation reaches every eligible node;
  a failover finds a healthy node; a lock survives.
- Registry, refresh, health check: an id never changes its meaning; sing-box is never
  pointed at a node it lacks; a refresh keeps what the administrator chose and leaves
  registry and sing-box in agreement; a health check repairs what overlaps broke;
  disabling is per port as far as a port has rows of its own.
- Startup: acknowledged settings stay in force, also after a restart; what is stored
  never keeps the program from serving in a sound environment; what Validate accepts
  can be listened on.
- Parser: the registry is one served list, whole; a proxy keeps its key.
- Dispatcher: every request ends, tries no lane twice, honours its rule, reports 503
  and 502 for what they mean, and the snapshot converges to the registry.

## 2. The modules

### SingBoxProcess

The apply in progress (`applyPc`: `applyNodesToRuntime` with the Check, IsRunning,
Stop and Start it calls), Shutdown (`shutPc`), the children (`alive`, numbered by
Start) and their wait goroutines (`waiting`) interleave freely.  Variables carry the
names of the fields of `Process`.  Each access under `Process.mu`, each signal and
each wait is a step.  A file is the pair "which apply wrote it, would `sing-box check`
accept it"; writing it first truncates it (`ApplyTruncate`), and a torn file is not
accepted.  Starting and reading are two steps: Start launches a child for the apply in
progress (`launches`), and the child opens the file whenever it gets to it (`ReadConfig`,
external), truncated or overwritten as it may be by then; what it read is kept in
`loaded`.  Stop forgets `cmd` when the child it
read has been reaped, as the code does, whichever child `cmd` is by then.  After main
returned (`shutPc = "exited"`) only children act.

`ConfigRollout` is what this promises, without processes: configurations are rolled
out one at a time and in order, each fails or launches one sing-box with itself, and
what is reported is the outcome of the last.  `ImplementsRollout` maps the supervisor
to it: the rollout is busy while `applyPc` is not "idle", `newest` is the
apply the newest child was launched for.

### NodeSelection and PortFailover

`NodeSelection` holds `Score`, `Probed` and the four selectors with real arithmetic.
Scores are kept twentyfold so that they are integers: `100 - latency/20 + 20*rate -
15*fails` becomes `2000 - latency + 400*rate - 300*fails`.  A selector that may
return several nodes (ties, random) is the set of them.  `PortFailover` runs one port
over any sequence of health checks, switches, unlocks, toggles and changes of the
algorithm, each in one step: this is where "the next health check after" matters.

### ControlPlane

The registry tables, sing-box (`running`, `tags`, the selectors) and one refresh
(`r`), one health check (`h`) and one administrator request (`a`), each a record with
a program counter and the values its calls returned.  One call to the repository, the
Clash API or the supervisor is one step, and every step has its failing alternative.
`KeysOf`, `KeyOf` and `IdOf` are the translation between ids and source keys that a
refresh does; `View(p)` is ListNodeRuntimeStatusesByPort with its fallback from
`port_node_state` to `node_runtime_status`, which a port takes for every node it has no
row for.  A start may find ports newly listed (`fresh` in `Init` and `Restart`): they get
a copy of the default port's row and no row in `port_node_state` and
`request_lane_state` (`Relisted`), until a request, a health check or a refresh writes
one; `laned` says which ports have lanes.  `Assigned` is buildLaneStates for a
port with an http and a socks lane.  `asked` (which keys the administrator has
disabled), `given` (every id ever given out, with its key), `calm` (nobody else has
changed anything since this began) and `left` (bounds) are not in the code.

`Restart` ends the program between any two of these steps, with its sing-box, and New
begins: `r.kind` is "boot" (a refresh by New), "stored" (New applies the stored nodes)
or "api".  If that fails the program is down until the next `Restart`.

`PortChoices` is what all this promises the administrator, by source key and without ids,
tables, plans or sing-box: what is served, and what is chosen for each port (the active
node, whether it is locked, what is disabled).  A refresh replaces what is served and keeps
every choice of a key that is still there, in the one step `Carry`; a health check moves
nothing but an active node, and to one that is served and not disabled; a request does
what it says to its port.  A port that is newly listed follows the default port in what is
disabled of each key (`following`) until it is asked about that key itself or a refresh
replaces the nodes; to disable a key for the default port disables it for those that
follow (`Heeding`).  This holds of activities that do not overlap.  Of the others it
says how far they may go astray: a refresh that is "disturbed" before it is "settled", or
cut off, leaves choices forgotten (`Forgotten`: fewer nodes disabled, no active node, a
lock lost, but no lock that was not there); a disturbed refresh that goes on writes rows
back and enables nothing; a disturbed health check may write an old row back, or the
disabled flag it had read.  Whoever looks while a refresh is "carrying" finds any such
mixture (`Found`).

`ImplementsChoices` maps the tables to it.  `Stored(p)` is what the rows of a port say by
key; while a calm refresh carries over (`CarriesOver`), the choices of the ports it has
still to do are those it is going to write (`Awaited`), so that its calls for them are
stutters: `Chosen` joins the two.  `RefreshPhase`, `CheckPhase` and `Requested` are read
off the program counters and the `calm` flags.

### Startup, ListenBindings and SubscriptionParser

`Startup` is main and New from the environment to the open listeners, over a database
that earlier runs may have left in any state they could be cut off in, and settings
requests that race everything that reads `a.Config`.  `phase` is how far New has got;
`rows`, `registry`, `saved` and `known` are what the database keeps; `modes` is the
part of `a.Config` that requests change.  A port's row is reduced to its mode, a lane
to its existence.  UpdateRuntimeSettings is four steps: the row, the top level of
`a.Config` with the ports computed from it, the ports.  Its race with other readers
and writers is also one within a string: `Raced` lets a mode be read half old and half
new (`Torn`).  Requests that write settings read from `a.Config` back to a row (a
switch, an unlock, a failover, for which the health check reads the ports long before)
are `TouchBegin` and `TouchWrite`.  `envs` is the sequence of environments the
operator has; `Edit` goes to the next while the program is down.

`ListenBindings` computes the listeners twice, as the code does: `CheckedListeners`
(what Validate hands to ensureUniqueBinding) and `Inbounds` with `OwnListeners` (what
is opened).  Whether a set can be opened (`Openable`) is external: a port number is
between 1 and 65535 and no two listeners share it at the same address or at
`0.0.0.0`.  `Plain` names what Validate does not look at.

`SubscriptionParser` turns a body, a form and a list of proxies, into nodes or a
failure: which proxies are skipped, which fail the list, and the key of each node.
`Fetched` adds what the refresh asks of the result.

### Dispatcher

Requests go through select, forward, record and drop (or keep) steps; their lane sets
are those of `dispatcher_selector.go`.  `snapshot` is the set of lanes that are healthy in the
shared snapshot; the registry side is `laneState`, `nodeUp`, `portUp`.  Outcomes are
recorded first in the registry and then in the snapshot, in two steps, the first of
which is skipped by a request whose client has gone (`RecordFailure`, `RecordUse`).  Rebuilds read port
after port and then store.  `load` chooses the algorithm, the routes of HTTP requests
and the bounds of a behaviour.

`LaneService` is what it promises a request: one healthy lane after another, none
twice, a failing lane put out of use and an answering one back into it, and 503 only
for a request that tried none.  Nothing in it is about snapshots, rebuilds, sticky
keys or departed clients.

### How they compose

`ControlPlane` extends `NodeSelection` and takes an instance of `PortChoices`, as
`SingBoxProcess` does of `ConfigRollout` and `Dispatcher` of `LaneService`.  `SingBoxProcess` details what `ControlPlane` takes
as `ApplyStop`, `ApplyStart` and `SingBoxExits`; `PortFailover` details the choice that
`HealthReadPort` leaves open; `ControlPlane` details where the nodes come from that
`Dispatcher` has as up or down.  `Startup` extends `ListenBindings` and
`SubscriptionParser` and sees a refresh as five steps, which `ControlPlane` details.
`MCControlPlane`, `MCDispatcher` and `MCStartup` give constants values for TLC.

## 3. The runs

Passing runs, on two workers between seconds and four minutes each:

| Run | Instance | What it shows |
|---|---|---|
| `SingBoxProcess_supervision` | 3 applies, any number of child deaths, reads at any time, 1 shutdown; 77,688 states | `RunningIsWatched`, `StartNeverNoops`, `AppliedIsLoaded`, `OwnFileWasChecked`; `ImplementsRollout`; `DeadChildIsForgotten` and `ApplyEnds` under fairness |
| `PortFailover_safety` | 3 nodes, latencies 400 and 900 ms, the four selection settings, failures counted up to 2; 124,746 states | `SelectNextIsBest` and `RotationCoversAll` (the selectors against references, in every reachable status list), `FailoverFindsHealthy`, `LockHolds` |
| `MCControlPlane_overlap` | 2 keys, 1 port; one refresh, health check and request, or two refreshes and a health check, or two health checks and a refresh, or any two of them and a restart, or a refresh and two restarts; 2.1 M states | `SelectorsAreRegistered` and `IdsNameOneKey` in any overlap; `CalmRefreshAgrees`, `CalmRefreshIsAccepted` and `CalmHealthCheckHeals` for activities nobody interferes with, whatever came before, interrupted refreshes included |
| `MCControlPlane_two_ports` | 2 keys, 2 ports, the second newly listed at any start or not; a refresh, a request and a restart, or a health check and a request, or two requests and a restart, or a request and two restarts; 0.6 M states | `CalmRefreshPreserves`, `DisablingIsPerPort`; `ImplementsChoices` |
| `MCDispatcher_safety` | 3 lanes on 2 ports; two requests under both families of algorithms, or one of every kind whose client may leave, with a change of node health; 1.6 M states | `ImplementsLaneService`, `RuleBeatsSticky` |
| `MCDispatcher_liveness` | 1 request, one change of node health, under fairness; 0.2 M states | `RequestEnds`, `SnapshotConverges` |
| `MCStartup_start` | settings: 2 ports whose modes are given or not, two or three requests, a refresh, a restart; listeners: 768 second ports, alone or after a run without them, with a provider or the stored nodes; lists: any of up to two of seven proxies in four forms, after any other; 0.2 M states | `SettingsInForce`, `PlainConfigBinds`, `RegistryIsOneSubscription`, `FormatChangeKeepsKeys`; `EventuallyServes` under fairness |

Runs that find a disagreement between the code and what a document, a comment or a
test says of it (`findings` in `PROJECT.json` quotes both sides):

| Run | What happens |
|---|---|
| `SingBoxProcess_CurrentChildIsReported` | The wait goroutine of a stopped child runs after its successor was started and reports the live sing-box as not running. |
| `PortFailover_rotation` | A sequential port stays on a dead node when exactly one healthy node is left. |
| `MCControlPlane_DisableSurvives` | A health check writes back statuses it read before a disable request and so enables the node again. |
| `MCControlPlane_LanesReachDataPlane` | A health check re-assigns a lane in the database; the selector of the lane in sing-box, if there is one, stays. |
| `MCStartup_FailedFetchKeepsServing` | With SUBSCRIPTION_URL set, a restart while the provider is down refuses to start although nodes are stored. |

Differences seen while modelling that have no run of their own:

- A refresh whose configuration is rejected may still take the data plane down: the file
  is overwritten in place before it is checked (`app.go:475`), and a sing-box started by
  the refresh before may not have read it yet (`process.go:61`).  The design document
  asks for a temporary configuration to be checked before a reload (12.5, line 553).
  `OwnFileWasChecked` states what remains: a child never reads a file of an apply before
  its own, nor its own before it was checked; but it may read that of a later one.
- Disabling leaks from the default port to a port that is newly listed in `PORTS_JSON`
  over stored nodes.  Such a port gets a row in `port_runtime_state` only
  (`app.go:991-1031`; Migrate writes `port_node_state` for the default port only,
  `db.go:61`), so what it sees as disabled is the flag that a request for the default
  port also sets (`repository.go:70`).  It lasts until the port has a row of its own for
  the node: by a request for it, or by the next refresh, which makes what was inherited
  the port's own.  The tests of the disable request set up such a port
  (`app_test.go:350`) and only disable on it, never on the default one.  No document
  says what a new port begins with; `DisablingIsPerPort` states how far the leak goes.
- The design document lists the deduplication of nodes, "节点去重", for the registry
  (5.3, line 120).  On a list with two items of one key the code fails the whole refresh
  instead (`migrations.go:18`, `repository.go:220`) and keeps the nodes it had;
  `RegistryIsOneSubscription` states that, and so makes no claim of deduplication.
- The same lost update as in `MCControlPlane_DisableSurvives` undoes a disable that commits
  during a refresh's download (`app.go:391`), and a health check that fails over writes
  back the whole port row, undoing a lock set meanwhile (`app.go:652`).
- A failed reload does not keep the old configuration, as the design document says
  (12.3): the old sing-box is stopped before the new one is started (`app.go:484`) and
  the registry already names the new nodes (`app.go:430`).
- A failover searches from the tier the failed node falls into after it was scored,
  not from the one it had (`app.go:546`).
- A request gives up with 502 when the algorithm returns a lane it tried, although
  another healthy lane was not tried (`app.go:1323`): possible when somebody else
  marks the tried lane healthy again.
- A SOCKS5 request is sent to the first healthy lane whatever its protocol, which is an
  http one (`app.go:1412`); README.md:321 lists a SOCKS5 entry.
- `RUNTIME_MODE` and `POOL_ALGORITHM` (README.md:208-209) have no effect: Migrate
  inserts a row with "single_active" and "sequential" before New looks at the stored
  settings (`db.go:51`, `app.go:73`), and those win from the first start on, except for
  a port that names its own in `PORTS_JSON`.
- Settings of a port other than the default one are lost in `a.Config` at a restart,
  while its row keeps them until the next switch overwrites it (`app.go:73`,
  `app.go:648`).
- Settings of the default port are taken over by every port that has none of its own,
  and by the next settings request for good (`app.go:1151`).
- Lanes that `PORTS_JSON` lists with keys other than `lane-http-1` and `lane-socks-1`
  (README.md:252-285) are checked and never opened; the two that are kept are opened at
  base + 1001 without having been checked (`app.go:667`, `app.go:1108`).
- The scheduler starts only if there were nodes at startup (`app.go:181`).
- After a refresh that was cut off, a start without SUBSCRIPTION_URL may be rejected by
  sing-box for ever: a lane, or the row of another port, names a vanished node
  (`app.go:126`).
- A Clash proxy of an unknown type is found out by `sing-box check`, after the registry
  was replaced (`clash.go:52`, `app.go:430`).
- Keys leave out credentials, so two proxies that differ only in them collide and fail
  the whole refresh; shadowsocks keys differ between the two formats
  (`sharelink.go:138`, `clash.go:144`).  Base64-encoded Clash lists are not recognised
  (`parser.go:23`).
- The "sequential" algorithm of the dispatcher starts every request at the first lane,
  since `currentLaneKey` is local to the request (`app.go:1311`).

### Bounds, and why they are enough

For the properties that section 4 lists the theorems remove these bounds; the runs show
that the cases the properties are about do occur, and check the rest.

- Keys and ids.  Two keys give every case of "the node is still in the subscription,
  is gone, is new", of one healthy node, the other or none; ids grow with every
  refresh.  The key is only compared, so keys are symmetric.
- Ports.  The rows of a port are touched by other ports only through the disabled flag
  mirrored for the default port: two ports, the default one and another, show it.  That
  the other one may be newly listed at the beginning and at each restart shows the
  fallback on that flag.
- Budgets of ControlPlane.  A refresh excludes refreshes and the scheduler runs one
  health check at a time, so what can overlap is one of each of these and the
  administrator's requests.  Of the requests there is one at a time: two that overlap
  each other are left out (section 5).  A second refresh or health check shows what an
  overlap leaves for the next one.
- Nodes of PortFailover.  Three: the current one and two to choose between, with
  equal or different scores and tiers.  A node that answers in 400 ms is in L1, one
  that answers in 900 ms in L2, one never probed in L3, and one or two failures move
  the dead node, whose tier is where the search starts, to L2 or L3: every start of
  the search is reached.  A failed probe already puts a node in cooldown, and a
  success resets the counter, so counting past two adds nothing.
- Restarts.  One shows what any cut-off activity leaves for each of the others; two
  show a start that is itself cut off.
- Startup.  Two jobs at once, three in all, are the least with which a settings
  request and what races it are followed by another; two ports, because settings
  cross from one to the other only through the top level.  Two proxies in a list show
  a collision, a skip and a failure next to a good one.  The listeners of the second
  port are placed at each kind of place that is already taken, and where the derived
  lane has the last port number or none.
- Dispatcher.  Three lanes on two ports (an http and a socks lane, and an http lane)
  let a fallback stay on the port, change it, and run out; two requests are the least
  that disturb each other.
- Applies.  Three: a first start, a replacement, and one more whose Stop meets the
  wait goroutines of both.

`CHECK_DEADLOCK FALSE` appears where a bound, or the end of the program, stops the
model.  The dispatcher, whose health check recurs for ever, is checked for deadlock.

### Fairness

- A goroutine that can run eventually does: the apply, the wait goroutines, Shutdown
  once begun, the serving of an accepted request, a rebuild.  The cancellation of an
  apply's context is left out: nobody owes it.
- A sing-box that was sent SIGINT, SIGTERM or SIGKILL exits.  Without it `Stop` waits
  for ever, which is the code's behaviour too.
- The ticker of the health check does not stop, and sing-box is up for it whenever it
  ticks: runHealthCheck returns at once when `IsRunning` is false (`app.go:532`), and
  `SnapshotConverges` promises nothing while it stays so.
- A program that has ended is started again and New goes on (`StartStep`):
  `docker-compose.yml` says `restart: unless-stopped`, and every call New makes has a
  timeout or is local.  That New succeeds, or that the operator repairs the
  environment, is not assumed.
- Nothing is assumed of clients, of nodes or of an administrator.

`MCDispatcher_liveness` is run without symmetry, which would not be sound for it.

## 4. What is proved

### Supervisor

`SingBoxProcess_proofs` proves, for any number of applies and of children, from
`MaxAppliesAssumption` (`MaxApplies \in Nat`) alone:

| Theorem | Property |
|---|---|
| `TypeCorrect` | `TypeOK` |
| `RunningWatched` | `RunningIsWatched` |
| `StartIsNeverANoop` | `StartNeverNoops` |
| `AppliedMeansLoaded` | `AppliedIsLoaded` |
| `OwnFilesAreChecked` | `OwnFileWasChecked` |
| `Invariance` | `IInv`, the inductive invariant |
| `RolloutRefined` | `ImplementsRollout`: the specification implements `ConfigRollout` |

None of the properties is inductive alone.  `IInv` adds what each relies on:

- `StopTargets`: a Stop that waits does so for a child that was started, without which
  the types of `cmd` and `loaded` do not carry over;
- `LiveChildIsWatched`: every live child has its wait goroutine, orphans included;
- `CheckedUntilStart`: from a check that passed until the start the file on disk is the
  apply's own and one that passes, because only the apply itself writes it;
- `LaunchesPrecede`: no child was launched for a later apply than the last one, nor yet
  for the one in progress;
- `FileOnDisk`: what any child, dead, alive or still to read, would find on disk now is the
  file it was launched for, as it was checked, or that of a later apply.  A read at any
  time then gives `OwnFileWasChecked`, whatever applies have begun or failed meanwhile.

The argument: `StartNeverNoops` holds because the only step that sets `running` is the
apply's own Start; Shutdown and the wait goroutines can only clear it between the
apply's IsRunning and its Start.  `AppliedIsLoaded` follows: a Start that returns
without an error really launched a child, for this apply, whose file stays on disk
until the next one begins.
`InitInv` proves the initial state; `TagsStep`, `ValuesStep`, `FlagsStep` and `FilesStep`
prove that every action preserves the program counters and statuses, the values that count
children, who watches them, and what they read; `Invariance` combines them.

`RolloutRefined` uses `IInv` at each step (`RolloutStep`): each action of the
supervisor is one action of `ConfigRollout` or leaves its variables alone.  What is
not obvious is that a Start which returns without an error has launched a child
(again `StartNeverNoops`), and that Shutdown and the wait goroutines, which may run
between any two steps of an apply, never change what is newest.

### Listeners, start and settings

`Startup_proofs` proves first, of `ListenBindings` alone and from nothing about the
configuration but what it says:

| Theorem | What it says |
|---|---|
| `ValidCanListen` | `Plain(c)` and `Validate(c)` imply that sing-box's inbounds, for whatever ports have stored lanes, the dispatcher and the admin API can all be opened together |

It rests on `OpenedLaneIsChecked`: the lanes the builder opens for a plain port are among
those Validate compared, so that `Inbounds`, but for the Clash API, is part of
`CheckedListeners`.

It proves then of `Startup`, for any configurations, providers, ports and requests, from
`PlansAssumption` (an environment is a record of the fields the code reads) and
`ProvidersAssumption` (a body is a list, of any length, in one of the four forms, or there
is none):

| Theorem | Property |
|---|---|
| `PlainConfigsBind` | `PlainConfigBinds` |
| `RegistryIsWhole` | `RegistryIsOneSubscription` |
| `KeysSurviveFormats` | `FormatChangeKeepsKeys` |
| `TypeCorrect` | `TypeOK` |
| `SettingsStay` | `SettingsInForce` |
| `Invariance` | the inductive invariants of the others: `ListenInv`, `SettingsInv`, `TagsTyped` |

- `ListenInv`: the program only gets past New with a configuration that Validate
  accepted, sing-box is gone whenever New starts over, and a refresh is under way only as
  New's own or while the program is up, so that nobody starts sing-box between Validate
  and the other listeners.
- `RegistryIsWhole` rests on `FetchedIsWhole`: a parse that succeeds has one node for each
  supported item and no other, whatever the length of the list.  The share links that
  parseShareLinks keeps are those at the places that are supported (`ItemsAt`), and
  `RanksAre` of `OrderLemmas` numbers any finite set of places, so that no induction over
  the list is needed.  What is stored changes only by a whole replacement.
- `KeysSurviveFormats` needs that every node in the registry has the key that one of the
  two formats gives its proxy (`NodesAreKeyed`), whatever list it came from.
- `SettingsInForce` speaks of the row and of `a.Config`; what makes it inductive is what
  everybody else still carries of them.  While a port holds acknowledged settings, no
  settings request for it is under way; a switch, an unlock or a failover of it has read
  these settings (`JobsHold`); a settings request of another port that has resolved the
  ports, but not stored them, has them (`JobsHold`); a refresh that has read the rows has
  them (`RefreshHolds`).  `CalmJobs` says what a settings request that nothing has
  overlapped may rely on when it stores.  A port other than the default one holds
  settings only while it has a mode of its own (`InForce`), which is why the race within
  the string at the top level (`Torn`) never reaches it; the default port is safe from
  that race because only its own settings requests write the top level.

### Selection and failover

`OrderLemmas` proves that a finite set of numbers has a least, a greatest and an n-th
element and that a finite set has an element with the best value; the induction is the
library's, over the well-founded order of the naturals and of finite sets.
`NodeSelection_proofs` proves from them what the selectors return (`SelectNextIs`,
`SequentialCovers`): a node other than the current one, eligible, with the best score of
one tier, and some node whenever there is another eligible one.  `PortFailover_proofs`
uses these, from `NodesAssumption` (ids are positive and finitely many),
`LatenciesAssumption`, `PortModesAssumption` and `MaxFailsAssumption`:

| Theorem | Property |
|---|---|
| `TypeCorrect` | `TypeOK` |
| `NextIsBest` | `SelectNextIsBest` |
| `RotationVisitsAll` | `RotationCoversAll` |
| `FailoverFinds` | `FailoverFindsHealthy` |
| `LockIsKept` | `LockHolds` |

`TypeOK` is inductive, and all the invariants there need: the selectors are functions of
a status list, so the two about selection hold of any list of statuses of the right type.
The core of `FailoverFinds` is `StaysOnHealthy`: the search wraps around all three tiers,
so that it comes back empty only if no other node is eligible, wherever scoring has put
the failed node before.

### Dispatcher

`Dispatcher_proofs`, from `LanesAssumption`, `LaneAssumption` and `LoadsAssumption` (lanes
are finitely many numbers, each on a port and with a protocol; a load is a record of its
fields):

| Theorem | Property |
|---|---|
| `TypeCorrect` | `TypeOK` |
| `RuleWins` | `RuleBeatsSticky` |
| `ServiceRefined` | `ImplementsLaneService`: the dispatcher implements `LaneService` |
| `Invariance` | `IInv`, the inductive invariant |

`IInv` is `TypeOK` and `Bookkeeping`: the lane a request is at is among those it has tried,
one that has tried none is at none, and one whose rule named a lane has no sticky key.
The first two are what the refinement needs: the step that answers 503 is `LaneService`'s
only if nothing was tried, and the lane whose failure is recorded is the one the service
handed out.  The third is `RuleBeatsSticky`.  A rebuild that stores a snapshot older than a
recorded failure maps to the same step of `LaneService` as one that does not: the service
never promised that a lane stays out of use.

### Registry, refresh, health check and administrator

`ControlPlane_proofs`, from `KeysAssumption` (finitely many keys, at least one),
`PortsAssumption` (there is a default port) and `BudgetsAssumption` (budgets are numbers):

| Theorem | Property |
|---|---|
| `TypeCorrect` | `TypeOK` |
| `SelectorsRegistered` | `SelectorsAreRegistered` |
| `IdsKeepKeys` | `IdsNameOneKey` |
| `DisablingPerPort` | `DisablingIsPerPort` |
| `CalmRefreshCarries` | `CalmRefreshPreserves` |
| `CalmRefreshInAgreement` | `CalmRefreshAgrees` |
| `CalmRefreshAccepted` | `CalmRefreshIsAccepted` |
| `HealthCheckHeals` | `CalmHealthCheckHeals` |
| `Invariance` | `IInv`, the inductive invariant |

`IInv` has these parts besides `TypeOK`:

- `RowsOfNodes`: each node has a status, a key of its own and an id below the next one to
  be given out.  That a port has a row for it is not so, and not claimed.
- `DefaultMirrored`: the default port does have a row for every status, and with the same
  flag.  It is what a port without a row falls back on, and makes `DisablingIsPerPort`
  true of it: what changes for such a port has changed for the default one.
- `IdsGiven`: `IdsNameOneKey`, and that every id ever given out, in use or long gone, is
  below the next one; so that a replacement, however many lie between, gives out new ones.
- `RowsRenewed`: from its transaction on a calm refresh finds a row for every node and
  port, and `LanesListed`: a port without lane rows has no lanes, so that a refresh that
  has read none has none to carry over.
- `LeftTyped`: the budgets are numbers, by which a restart is told from other steps.
- `CallersTyped`: what the refresh, the health check and the administrator's request keep
  between two calls.
- `PlanIsRegistered`: from the check of a configuration to the start of sing-box with it
  the nodes it names are registered, because only a refresh changes the nodes and there is
  one at a time.  With it `SelectorsAreRegistered` is inductive.
- `CalmRefresh`: how far a refresh nobody has interfered with has carried over what was
  active, locked, disabled and assigned (`CarriedOver`), port by port and call by call,
  and that sing-box agrees once it was reloaded.
- `CalmHealthCheck`: the same for a health check (`Healing`): which nodes are probed, which
  ports have been moved off dead nodes, which lanes re-assigned.

The last two are void as soon as another activity changes anything, which `Noticed` in the
model records: lemmas `NoticedCalmRefresh` and `NoticedCalmHealth` dispose of the steps of
everybody else, interrupted and restarted ones included, and the remaining lemmas follow the
activity's own steps.  Keys are carried over because `KeyOf` and `IdOf` are inverse on
registered nodes (`KeyOfIs`, `IdOfIs`), which is `RowsOfNodes` again.

`PortChoices_proofs` builds on this and proves, from the same assumptions:

| Theorem | Property |
|---|---|
| `ChoicesImplemented` | `ImplementsChoices`: the control plane implements `PortChoices` |

`IInv` says where a calm activity has got to; to see which step of the registry a call is,
one must also know what everybody, calm or not, holds between two calls.  `ChoicesInv` adds:

- `OldIds`: whatever id anybody holds was given out, so that after a replacement it names
  nothing (`KeyOf` is `NoKey`), and a late write of it forgets a choice rather than making
  another.
- `AskedFor`: a request that has reached a call is one of the operations that make it.
- `ReadAsStored`: what a calm refresh has read is still what is stored.  It is what makes
  its transaction `Carry`: what it will write equals what was chosen.
- `RowsUntouched`: a row it has not come to yet names no node or is not locked.  It is why
  a refresh cut off in the middle leaves no lock that was not there.
- `SeenAsStored`: the lock and the disabled flags that a calm health check writes back are
  those that are stored, so that its writes change nothing else, not even for the ports
  that follow the default one's flags.
- `IdleIsNotCalm`: a refresh that has not begun is not calm, which only ties the phases to
  the program counter.

`ChoicesInvariance` proves it, activity by activity.  `FoundOnce` is the fact most steps
use: what is stored at any moment is among what others may find (`Found`).  `FlagWritten` is the
one about flags: to write the default port's flag of a node is to write that of every port
that follows it, which is `Flagged` of `PortChoices`.  Each call is
then a step of the registry: the refresh's in `ReplaceIsStep`, `PortRowIsStep`,
`DisablesIsStep`, `LanesIsStep` and `RefreshStepIsStep`, the health check's in
`ProbeIsStep`, `HealthWriteIsStep` and `HealthStepIsStep`, the administrator's in
`AdminStepIsStep`, what ends or restarts the program or sing-box in `ExitIsStep` and
`RestartIsStep`; `ChoicesStart` and `ChoicesSteps` put them together.

### Model-checked only

- Liveness (`DeadChildIsForgotten`, `ApplyEnds`, `RequestEnds`, `SnapshotConverges`,
  `EventuallyServes`): it rests on fairness and on `ENABLED`, which the prover does not
  handle.
- The findings, which are violations.

## 5. Simplifications

- `SingBoxProcess` merges building ports, lanes and JSON into one step that succeeds
  or fails; the text of `lastError` is reduced to the statement that wrote it.
- UpsertNodeRuntimeStatus runs two statements, ListNodes and ListPortRuntimeStates
  are two queries, and a port's statuses and lanes are read by two: each pair is one
  step.  Nodes change under `refreshMu` only.
- Administrator's requests come one at a time in `ControlPlane`, although the HTTP server
  answers several at once; settings requests that race each other are in `Startup`.
- `ControlPlane` takes its ports as "single_active", in any order, and any healthy
  node as the failover's choice, a superset of the code's.  The http and the socks
  selector of a port are one; a switch that fails at the second leaves the first
  switched.  UpdateRuntimeSettings is in `PortFailover` and `Startup`.  A crash takes
  sing-box with it, as the container does.
- `running` of `ControlPlane` is both the flag and the process: that they may differ is
  the subject of `SingBoxProcess`.
- `Startup` has two modes, each standing for a mode with its algorithm.  A health check
  reads the settings of all ports at once, which is a `TouchBegin` for each of them in
  a row.  A failing write of New or of a settings request ends as the next `Crash` or
  a request that never was.  Validate's checks of texts and dispatcher rules, and the
  paths, intervals and credentials of the configuration, are left out.
- A proxy's server and port are one value, its credentials and transport are left out,
  and whether the parser for its form finds it well formed is an attribute of it.
- The error of a dispatcher rebuild, which the code ignores, is left out.
- Lane weights, counters, times and telemetry, and event logs, are left out.
  "random" of `Dispatcher` stands for the weighted and the balanced choice: any lane
  they could return.  A sticky key is its hash.
- The counter of consecutive failures stops at `MaxFails`.  The branch of Score for
  three failures changes nothing, since a failed probe sets "cooldown" already.

## 6. What is not modelled, and the plan

Not modelled because there is no control to check: the admin API and web UI (routing,
authentication and JSON around the operations modelled here; they keep no state), the
event log (append-only, read by nobody but the UI), the statements of the schema
migration, the JSON of the configuration, the payload of a node, the bytes of HTTP and
SOCKS5.

What could come next is the dispatcher's weighted choice (`dispatcher_selector.go`) with its
weights: `Dispatcher` takes any lane it could return.
