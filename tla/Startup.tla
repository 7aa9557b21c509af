-------------------------------- MODULE Startup --------------------------------
(***************************************************************************)
(* How the program starts and what it makes of its settings (New, main,    *)
(* UpdateRuntimeSettingsByPort and the fetch of RefreshSubscription in     *)
(* internal/app/app.go).  The operator gives an environment, which Default *)
(* turns into a Config; New validates it, lets the database override it,   *)
(* fetches the subscription or falls back on stored nodes, starts sing-box *)
(* and opens its own listeners.  While the program runs, settings requests *)
(* write the port's row and then a.Config, which every other request reads *)
(* without a lock.  It may end at any point and is started again.          *)
(*                                                                         *)
(* What a refresh does to rows, nodes and lanes in detail is in            *)
(* ControlPlane; here a port's row is the mode stored in it.               *)
(***************************************************************************)
EXTENDS FiniteSets, ListenBindings, SubscriptionParser

CONSTANTS
    Providers,  \* the bodies a provider may serve, by name
    Jobs,       \* requests that may run at once
    Plans       \* what a behaviour may have: the environments one after the other
                \* and, as bounds for TLC, how many jobs, refreshes and crashes

\* The bodies of a provider that answers, and of one that does not: lists of items.
ASSUME ProvidersAssumption == \A bodies \in Range(Providers) : \A body \in bodies :
    /\ body.form \in {"clash", "links", "base64", "base64clash", "none"}
    /\ body.items \in Seq(Range(body.items))

\* The environments that occur.
Environments == UNION {Range(plan.envs) : plan \in Plans}

\* The ports of a configuration are the records PORTS_JSON is decoded into.
ASSUME PlansAssumption ==
    /\ \A plan \in Plans :
          /\ plan.jobs \in Nat /\ plan.refreshes \in Nat /\ plan.crashes \in Nat
          /\ plan.envs \in Seq(Environments) /\ plan.envs # <<>>
    /\ \A env \in Environments :
          /\ env.url \in BOOLEAN /\ env.provider \in DOMAIN Providers
          /\ \A p \in Range(env.config.ports) :
                DOMAIN p = {"key", "http", "socks", "mode", "lanes"}

VARIABLES
    envs,      \* the environments: the first is in place
    phase,     \* "down", then in New "boot" or "stored" and "listen", then "up"
    refused,   \* why the last start failed, "" if it did not
    rows,      \* port_runtime_state: the stored mode by port, for ports with a row
    registry,  \* the table nodes, in order
    saved,     \* there is a row in subscriptions
    known,     \* the ports with rows in request_lane_state
    modes,     \* a.Config: the mode at the top level and of each port
    box,       \* sing-box: "off", "serving", or "dead" when it could not listen
    refresh,   \* RefreshSubscription
    job,       \* settings requests, and switches, unlocks and failovers
    asked,     \* not in the code: acknowledged settings nothing has overlapped
    source,    \* not in the code: the body the registry comes from
    left       \* not in the code: how many jobs, refreshes and crashes there may be

stored == <<rows, registry, saved, known, source>>
vars == <<envs, phase, refused, stored, modes, box, refresh, job, asked, left>>

NoMode == "none"
Torn == "torn"   \* half of one mode and half of another
NoBody == [form |-> "none", items |-> <<>>]

Env == Head(envs)
Config == Env.config
Keys == PortKeys(Config)

Begun(pc, current) == [pc |-> pc, rows |-> current]
IdleRefresh == Begun("idle", <<>>)
Job(pc, p, mode, calm) == [pc |-> pc, port |-> p, mode |-> mode, ports |-> <<>>, calm |-> calm]
IdleJob == Job("idle", Default, NoMode, FALSE)

\* The mode port p has in a.Config.
ModeOf(p) == IF modes.ports[p] = Inherit THEN modes.top ELSE modes.ports[p]

Init ==
    /\ \E plan \in Plans :
          /\ envs = plan.envs
          /\ left = [jobs |-> plan.jobs, refreshes |-> plan.refreshes, crashes |-> plan.crashes]
    /\ phase = "down" /\ refused = ""
    /\ rows = <<>> /\ registry = <<>> /\ saved = FALSE /\ known = {} /\ source = NoBody
    /\ modes = [top |-> NoMode, ports |-> <<>>]
    /\ box = "off"
    /\ refresh = IdleRefresh
    /\ job = [j \in Jobs |-> IdleJob]
    /\ asked = [p \in {} |-> NoMode]

-----------------------------------------------------------------------------
(* New, up to the first use of the network                                  *)

\* Migrate inserts the row of the default port.
Migrated == [p \in DOMAIN rows \cup {Default} |->
                IF p \in DOMAIN rows THEN rows[p] ELSE "single_active"]

\* Each port as PORTS_JSON gives it.
GivenModes(c) ==
    IF c.ports = <<>> THEN [p \in {Default} |-> Inherit]
    ELSE [p \in {q.key : q \in Range(c.ports)} |->
            (CHOOSE q \in Range(c.ports) : q.key = p).mode]

\* A plausible bug: the environment wins over the stored mode.
ConfiguredModesOfEnv(c) == [top |-> c.mode, ports |-> GivenModes(c)]

\* The stored mode of the default port replaces the one of the environment.
ConfiguredModes(c) == [top |-> Migrated[Default], ports |-> GivenModes(c)]

\* A plausible bug: the row gets what PORTS_JSON says, which may be nothing.
SyncedRowsUnresolved ==
    [p \in DOMAIN Migrated \cup Keys |->
        IF p \in DOMAIN Migrated THEN Migrated[p] ELSE GivenModes(Config)[p]]

\* syncConfiguredPorts: a port without a row gets one with its configured mode.
SyncedRows ==
    LET given == GivenModes(Config)
    IN  [p \in DOMAIN Migrated \cup Keys |->
            IF p \in DOMAIN Migrated THEN Migrated[p]
            ELSE IF given[p] = Inherit THEN Migrated[Default] ELSE given[p]]

\* main: New refuses the configuration.
StartRefused ==
    /\ phase = "down" /\ ~Validate(Config)
    /\ refused' = "config"
    /\ UNCHANGED <<envs, phase, stored, modes, box, refresh, job, asked, left>>

Start ==
    /\ phase = "down" /\ Validate(Config)
    /\ rows' = SyncedRows
    /\ modes' = ConfiguredModes(Config)
    /\ saved' = (saved \/ Env.url)
    /\ phase' = IF Env.url THEN "boot" ELSE IF registry # <<>> THEN "stored" ELSE "listen"
    /\ refresh' = IF Env.url THEN Begun("fetch", rows') ELSE IdleRefresh
    /\ refused' = ""
    /\ asked' = [p \in Keys |-> IF p = Default /\ p \in DOMAIN asked /\ GivenModes(Config)[p] = Inherit
                                THEN asked[p] ELSE NoMode]
    /\ UNCHANGED <<envs, registry, known, source, box, job, left>>

-----------------------------------------------------------------------------
(* RefreshSubscription, by New, the scheduler or over the API               *)

\* A request ends; New fails, and what it has started goes with the program.
GiveUp(reason) ==
    /\ refresh' = IdleRefresh
    /\ IF phase = "boot"
       THEN phase' = "down" /\ refused' = reason /\ box' = "off"
       ELSE UNCHANGED <<phase, refused, box>>

\* The rows are read; a settings request under way is no longer alone.
RefreshBegin ==
    /\ phase = "up" /\ saved /\ refresh.pc = "idle" /\ left.refreshes > 0
    /\ left' = [left EXCEPT !.refreshes = @ - 1]
    /\ refresh' = Begun("fetch", rows)
    /\ job' = [j \in Jobs |-> [job[j] EXCEPT !.calm = FALSE]]
    /\ UNCHANGED <<envs, phase, refused, stored, modes, box, asked>>

\* A plausible bug: the new nodes are inserted before the old ones are deleted, which
\* fails on a node with a key the registry has.
FetchedInsertingFirst(body) ==
    LET got == IF body.form = "none" THEN Failed ELSE ParseSubscription(body)
        all == registry \o got.nodes
    IN  IF got.nodes # <<>> /\ \A j, k \in DOMAIN all : all[j].key = all[k].key => j = k
        THEN got ELSE Failed

\* The download, the parser, and the transaction that replaces the nodes, which
\* fails on two nodes with one key; a list without nodes is an error.
Fetched(body) ==
    LET got == IF body.form = "none" THEN Failed ELSE ParseSubscription(body)
    IN  IF got.nodes # <<>> /\ \A j, k \in DOMAIN got.nodes :
                got.nodes[j].key = got.nodes[k].key => j = k
        THEN got ELSE Failed

RefreshFetch(body) ==
    /\ refresh.pc = "fetch"
    /\ IF Fetched(body).ok
       THEN /\ registry' = Fetched(body).nodes
            /\ source' = body
            /\ refresh' = [refresh EXCEPT !.pc = "rows"]
            /\ UNCHANGED <<phase, refused, box>>
       ELSE /\ GiveUp("fetch")
            /\ UNCHANGED <<registry, source>>
    /\ UNCHANGED <<envs, rows, saved, known, modes, job, asked, left>>

\* Each row is written as it was read before the download, its node replaced.
RefreshRows ==
    /\ refresh.pc = "rows"
    /\ rows' = [p \in DOMAIN rows \cup DOMAIN refresh.rows |->
                    IF p \in DOMAIN refresh.rows THEN refresh.rows[p] ELSE rows[p]]
    /\ refresh' = [refresh EXCEPT !.pc = "apply"]
    /\ UNCHANGED <<envs, phase, refused, registry, saved, known, source, modes, box, job, asked, left>>

\* `sing-box check` accepts the nodes; ports are bound only when sing-box runs.
Accepted == \A node \in Range(registry) : node.proxy.type \in KnownTypes

\* applyNodesToRuntime: sing-box is started and exits if it cannot listen.
Launched ==
    LET open == IF phase = "up" THEN OwnListeners(Config) ELSE {}
    IN  IF Openable(Inbounds(Config, known) \cup open) THEN "serving" ELSE "dead"

RefreshApply ==
    /\ refresh.pc = "apply"
    /\ IF Accepted
       THEN /\ box' = Launched
            /\ refresh' = [refresh EXCEPT !.pc = "lanes"]
            /\ UNCHANGED <<phase, refused>>
       ELSE GiveUp("check")
    /\ UNCHANGED <<envs, stored, modes, job, asked, left>>

\* reconcileLaneStates gives every port its two lanes.
RefreshLanes ==
    /\ refresh.pc = "lanes"
    /\ known' = known \cup Keys
    /\ refresh' = IdleRefresh
    /\ phase' = IF phase = "boot" THEN "listen" ELSE phase
    /\ UNCHANGED <<envs, refused, rows, registry, saved, source, modes, box, job, asked, left>>

\* The health check gives missing lanes too, while sing-box runs and New had nodes;
\* had it none, they come with the refresh that starts sing-box.
HealthCheck ==
    /\ phase = "up" /\ box = "serving" /\ refresh.pc = "idle" /\ ~(Keys \subseteq known)
    /\ known' = known \cup Keys
    /\ UNCHANGED <<envs, phase, refused, rows, registry, saved, source, modes, box, refresh, job, asked, left>>

-----------------------------------------------------------------------------
(* The rest of New, and main                                                *)

\* Without SUBSCRIPTION_URL the stored nodes are applied; no lane is touched.
StoredApply ==
    /\ phase = "stored"
    /\ IF Accepted
       THEN phase' = "listen" /\ box' = Launched /\ UNCHANGED refused
       ELSE phase' = "down" /\ refused' = "check" /\ UNCHANGED box
    /\ UNCHANGED <<envs, stored, modes, refresh, job, asked, left>>

\* The dispatcher and the admin API listen; sing-box, just started, may be the
\* one that comes too late.
Listen ==
    LET inbounds == IF box = "serving" THEN Inbounds(Config, known) ELSE {}
    IN  /\ phase = "listen"
        /\ \/ /\ Openable(OwnListeners(Config) \cup inbounds)
              /\ phase' = "up" /\ UNCHANGED <<refused, box>>
           \/ /\ ~Openable(OwnListeners(Config) \cup inbounds)
              /\ phase' = "down" /\ refused' = "bind" /\ box' = "off"
           \/ /\ ~Openable(OwnListeners(Config) \cup inbounds) /\ Openable(OwnListeners(Config))
              /\ phase' = "up" /\ box' = "dead" /\ UNCHANGED refused
        /\ UNCHANGED <<envs, stored, modes, refresh, job, asked, left>>

\* The program ends wherever it is, and sing-box with it.
Crash ==
    /\ phase # "down" /\ left.crashes > 0
    /\ left' = [left EXCEPT !.crashes = @ - 1]
    /\ phase' = "down" /\ refused' = ""
    /\ box' = "off"
    /\ refresh' = IdleRefresh
    /\ job' = [j \in Jobs |-> IdleJob]
    /\ UNCHANGED <<envs, stored, modes, asked>>

\* The operator edits the environment before the next start.
Edit ==
    /\ phase = "down" /\ Len(envs) > 1
    /\ envs' = Tail(envs)
    /\ refused' = ""
    /\ UNCHANGED <<phase, stored, modes, box, refresh, job, asked, left>>

-----------------------------------------------------------------------------
(* Requests                                                                 *)

\* No other request is under way that writes port p's row or a.Config.
Alone(j, p) ==
    /\ refresh.pc = "idle"
    /\ \A i \in Jobs \ {j} : job[i].pc = "idle" \/ (job[i].pc = "touch" /\ job[i].port # p)

JobBegin(j, q, disturbed) ==
    /\ job[j].pc = "idle" /\ left.jobs > 0
    /\ left' = [left EXCEPT !.jobs = @ - 1]
    /\ job' = [i \in Jobs |-> IF i = j THEN q
                              ELSE [job[i] EXCEPT !.calm = @ /\ i \notin disturbed]]
    /\ UNCHANGED <<envs, phase, refused, stored, modes, box, refresh>>

\* What a read or a write of the mode at the top level by request j comes to, which
\* should be m: a string is two words, and nothing orders those of two requests.
Raced(j, m) ==
    {m} \cup IF \E i \in Jobs \ {j} : job[i].port = Default /\ job[i].pc \in {"resolve", "store"}
             THEN {Torn} ELSE {}

\* UpdateRuntimeSettingsByPort: the row, the snapshot, then a.Config, if Validate
\* accepts what that will be.
SettingsBegin(j, p, mode) ==
    /\ phase = "up" /\ (p # Default => modes.top # Torn)
    /\ \A q \in Keys \ {p} : modes.ports[q] # Torn
    /\ JobBegin(j, Job("write", p, mode, Alone(j, p)), Jobs)
    /\ asked' = [asked EXCEPT ![p] = NoMode]

JobStep(j, from, q) ==
    /\ job[j].pc = from
    /\ job' = [job EXCEPT ![j] = q]
    /\ UNCHANGED <<envs, phase, refused, registry, saved, known, source, box, refresh, left>>

SettingsWrite(j) ==
    /\ JobStep(j, "write", [job[j] EXCEPT !.pc = "resolve"])
    /\ rows' = [rows EXCEPT ![job[j].port] = job[j].mode]
    /\ UNCHANGED <<modes, asked>>

\* updateConfigPortSettings: the default port's mode is that of the top level too,
\* and every port that inherits one has its own from now on.
SettingsResolve(j) ==
    LET q == job[j]
    IN  /\ \E top \in Raced(j, IF q.port = Default THEN q.mode ELSE modes.top) :
              /\ JobStep(j, "resolve", [q EXCEPT !.pc = "store",
                    !.ports = [p \in Keys |->
                        IF p = q.port THEN q.mode
                        ELSE IF modes.ports[p] = Inherit THEN top ELSE modes.ports[p]]])
              /\ modes' = [modes EXCEPT !.top = IF q.port = Default THEN top ELSE @]
        /\ UNCHANGED <<rows, asked>>

SettingsStore(j) ==
    /\ JobStep(j, "store", IdleJob)
    /\ modes' = [modes EXCEPT !.ports = job[j].ports]
    /\ asked' = [asked EXCEPT ![job[j].port] = IF job[j].calm THEN job[j].mode ELSE NoMode]
    /\ UNCHANGED rows

\* A switch, an unlock or a failover: the port's settings are read from a.Config
\* (by a health check for all ports at once, so for some long before they are used)
\* and end up in its row with the rest of it.
TouchBegin(j, p) ==
    /\ phase = "up"
    /\ \E mode \in IF modes.ports[p] = Inherit THEN Raced(j, modes.top) ELSE {modes.ports[p]} :
          JobBegin(j, Job("touch", p, mode, FALSE), {i \in Jobs : job[i].port = p})
    /\ UNCHANGED asked

TouchWrite(j) ==
    /\ JobStep(j, "touch", IdleJob)
    /\ rows' = [rows EXCEPT ![job[j].port] = job[j].mode]
    /\ UNCHANGED <<modes, asked>>

-----------------------------------------------------------------------------
RefreshStep ==
    \/ \E body \in Providers[Env.provider] : RefreshFetch(body)
    \/ RefreshRows \/ RefreshApply \/ RefreshLanes

StartStep == Start \/ StoredApply \/ Listen \/ RefreshStep

JobEnds(j) == SettingsWrite(j) \/ SettingsResolve(j) \/ SettingsStore(j) \/ TouchWrite(j)

Next ==
    \/ StartRefused \/ StartStep
    \/ RefreshBegin \/ HealthCheck
    \/ Crash \/ Edit
    \/ \E j \in Jobs :
          \/ \E p \in Keys : TouchBegin(j, p) \/ \E mode \in Modes : SettingsBegin(j, p, mode)
          \/ JobEnds(j)

Spec == Init /\ [][Next]_vars

\* docker-compose restarts the program whenever it has ended, and New goes on.
FairSpec == Spec /\ WF_vars(StartStep)

-----------------------------------------------------------------------------
(* Properties                                                               *)

\* Type invariant.
TypeOK ==
    /\ phase \in {"down", "boot", "stored", "listen", "up"}
    /\ refused \in {"", "config", "fetch", "check", "bind"}
    /\ Range(rows) \subseteq Modes \cup {Torn} /\ DOMAIN asked \subseteq DOMAIN rows
    /\ Range(asked) \subseteq Modes \cup {NoMode}
    /\ phase # "down" => /\ DOMAIN modes.ports = Keys /\ modes.top \in Modes \cup {Torn}
                         /\ Range(modes.ports) \subseteq Modes \cup {Inherit, Torn}
    /\ box \in {"off", "serving", "dead"}
    /\ known \subseteq DOMAIN rows
    /\ refresh.pc \in {"idle", "fetch", "rows", "apply", "lanes"}

\* Settings that were acknowledged, with no other request or health check of that
\* port, settings request or refresh under way, stay in the port's row and in force,
\* whatever is asked for other ports and however often nodes are switched
\* afterwards; those of the default port also after a restart, unless PORTS_JSON
\* names its mode.
SettingsInForce ==
    phase = "up" => \A p \in Keys :
        asked[p] # NoMode => rows[p] = asked[p] /\ ModeOf(p) = asked[p]

\* What Validate accepts of the plain configurations can be opened: neither sing-box
\* nor the program ever fails to listen, on a first start, when the lanes of the
\* first refresh come with the next reload, and when the ports change between two
\* starts.
PlainConfigBinds == box = "dead" \/ refused = "bind" => ~Plain(Config)

\* The registry is one served body, all of it or none: each proxy the format
\* supports is one node, with a key of its own, and no malformed one gets in.  A body
\* with two proxies of one key is therefore refused whole (UNIQUE, migrations.go:18):
\* the code does not do the deduplication of nodes the design document lists for the
\* registry (5.3, line 120), and this states what it does instead.
Supported(body) ==
    {k \in DOMAIN body.items : body.form = "clash" \/ body.items[k].type \in LinkTypes}
RegistryIsOneSubscription ==
    registry # <<>> =>
        /\ {node.proxy : node \in Range(registry)} = {source.items[k] : k \in Supported(source)}
        /\ Len(registry) = Cardinality(Supported(source))
        /\ \A node \in Range(registry) : node.proxy.sound
        /\ \A j, k \in DOMAIN registry : registry[j].key = registry[k].key => j = k

\* A provider that changes the format of its list does not make the program forget
\* what was disabled or locked: a proxy keeps its key, unless it has no name or is
\* a shadowsocks one.
KeysAreKept ==
    \A j \in DOMAIN registry, k \in DOMAIN registry' :
        LET proxy == registry[j].proxy
        IN  proxy = registry'[k].proxy /\ proxy.name # "" /\ proxy.type # "shadowsocks"
              => registry[j].key = registry'[k].key
FormatChangeKeepsKeys == [][KeysAreKept]_vars

\* An environment that needs no luck.
Sound(env) ==
    /\ env.url /\ Plain(env.config) /\ Validate(env.config)
    /\ \A body \in Providers[env.provider] :
          LET nodes == IF body.form = "none" THEN <<>> ELSE ParseSubscription(body).nodes
          IN  /\ nodes # <<>> /\ \A j, k \in DOMAIN nodes : nodes[j].key = nodes[k].key => j = k
              /\ \A node \in Range(nodes) : node.proxy.type \in KnownTypes

\* Nothing that was stored by earlier runs, under whatever environments and wherever
\* they were cut off, keeps the program from serving in a sound environment.
EventuallyServes == <>[]((phase = "up" /\ box = "serving") \/ ~Sound(Env))

\* What the design document asks when a subscription cannot be fetched: go on with
\* the result of the last success.
FailedFetchKeepsServing == refused = "fetch" => registry = <<>>
=============================================================================
