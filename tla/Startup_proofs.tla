---------------------------- MODULE Startup_proofs ----------------------------
(***************************************************************************)
(* Proofs about Startup and the modules it extends, for all configurations, *)
(* lists of environments, providers and requests: what Validate compares   *)
(* of a plain configuration is enough, and no start and no reload fails to *)
(* listen with one; acknowledged settings stay in force; a proxy keeps its *)
(* key when its provider changes format; the registry is always the whole  *)
(* of one subscription.                                                    *)
(***************************************************************************)
EXTENDS Startup, OrderLemmas, TLAPS

-----------------------------------------------------------------------------
(* Listeners                                                                *)

\* The lanes that sing-box opens for a port whose lanes are the two that are kept
\* are the lanes Validate compared (laneListenAddr and laneListenPort in app.go find
\* each of them among the configured ones and never fall back on an offset).
LEMMA OpenedLaneIsChecked ==
    ASSUME NEW p, NEW pair \in KeptLanes,
           {<<lane.key, lane.protocol>> : lane \in Range(p.lanes)} = KeptLanes
    PROVE  Listener("lane", p.key, pair[2], pair[1], LaneAt(p, pair[1], pair[2]))
             \in LaneListeners(p)
<1> DEFINE own == {lane \in Range(p.lanes) : lane.key = pair[1] /\ lane.protocol = pair[2]}
<1>1. PICK lane \in Range(p.lanes) : <<lane.key, lane.protocol>> = pair
  OBVIOUS
<1>2. own # {}
  BY <1>1
<1>3. PICK chosen \in own : LaneAt(p, pair[1], pair[2]) = chosen.at
  BY <1>2 DEF LaneAt
<1>4. QED
  BY <1>3 DEF LaneListeners

\* Everything that is opened (buildRuntimePorts, BuildConfig, the dispatcher and the
\* admin API) was compared by Validate, but for the Clash API.
LEMMA OpenedIsChecked ==
    ASSUME NEW c, NEW laned, Plain(c)
    PROVE  Inbounds(c, laned) \cup OwnListeners(c) \subseteq CheckedListeners(c) \cup {ClashAPI}
<1>1. ASSUME NEW p \in Range(ResolvedPorts(c))
      PROVE  PortListeners(p) \subseteq CheckedListeners(c) /\ LaneListeners(p) \subseteq CheckedListeners(c)
  BY DEF CheckedListeners
<1>2. ASSUME NEW p \in Range(ResolvedPorts(c)), NEW pair \in KeptLanes
      PROVE  Listener("lane", p.key, pair[2], pair[1], LaneAt(p, pair[1], pair[2]))
               \in CheckedListeners(c)
  BY <1>1, OpenedLaneIsChecked DEF Plain
<1>3. HealthListener(c) \in CheckedListeners(c) /\ OwnListeners(c) \subseteq CheckedListeners(c)
  BY DEF CheckedListeners
<1>4. QED
  BY <1>1, <1>2, <1>3 DEF Inbounds

\* Fewer listeners conflict less.
LEMMA FewerCanListen ==
    ASSUME NEW S, NEW T, T \subseteq S, Openable(S)
    PROVE  Openable(T)
BY DEF Openable

\* What Validate accepts of the plain configurations can be opened all at once,
\* whichever ports have lanes already: sing-box and the program do not get into each
\* other's way, nor do two ports, a port and a lane, or anything and the Clash API.
THEOREM ValidCanListen ==
    ASSUME NEW c, NEW laned, Plain(c), Validate(c)
    PROVE  Openable(Inbounds(c, laned) \cup OwnListeners(c))
<1> DEFINE all == CheckedListeners(c) \cup {ClashAPI}
<1>1. ASSUME NEW l \in CheckedListeners(c), NEW m \in CheckedListeners(c), SamePort(l, m)
      PROVE  l = m
  BY <1>1 DEF Plain, Validate, UniqueBindings
<1>2. ASSUME NEW l \in CheckedListeners(c)
      PROVE  HasPort(l) /\ ~SamePort(l, ClashAPI) /\ ~SamePort(ClashAPI, l)
  BY DEF Plain, SamePort
<1>3. HasPort(ClashAPI)
  <2>1. ClashAPI.at = Binding("127.0.0.1", 9090)
    BY DEF ClashAPI, Listener
  <2>2. ClashAPI.at.port = 9090
    BY <2>1 DEF Binding
  <2>3. QED
    BY <2>2 DEF HasPort
<1>4. \A l, m \in all : Conflict(l, m) => l = m
  BY <1>1, <1>2 DEF Conflict
<1>5. Openable(all)
  BY <1>2, <1>3, <1>4 DEF Openable
<1>6. QED
  BY <1>5, OpenedIsChecked, FewerCanListen

-----------------------------------------------------------------------------
(* The start                                                                *)

\* The inductive invariant: next to the property, the program only gets past New with
\* a configuration Validate accepted, sing-box ends with it and is not there when New
\* looks for stored nodes, and a refresh is under way only as New's own and while the
\* program is up.
ListenInv ==
    /\ PlainConfigBinds
    /\ phase # "down" => Validate(Config)
    /\ phase \in {"down", "stored"} => box = "off"
    /\ phase \in {"down", "stored", "listen"} => refresh.pc = "idle"

\* sing-box finds every listener free when it is started under a plain configuration.
LEMMA LaunchedServes ==
    ASSUME Plain(Config), Validate(Config)
    PROVE  Launched = "serving"
<1> DEFINE open == IF phase = "up" THEN OwnListeners(Config) ELSE {}
<1>1. Inbounds(Config, known) \cup open \subseteq Inbounds(Config, known) \cup OwnListeners(Config)
  OBVIOUS
<1>2. Openable(Inbounds(Config, known) \cup open)
  BY <1>1, ValidCanListen, FewerCanListen
<1>3. QED
  BY <1>2 DEF Launched

\* So do the dispatcher and the admin API, whether sing-box serves or not.
LEMMA ListenersAreFree ==
    ASSUME Plain(Config), Validate(Config)
    PROVE  Openable(OwnListeners(Config) \cup (IF box = "serving" THEN Inbounds(Config, known) ELSE {}))
<1>1. OwnListeners(Config) \cup (IF box = "serving" THEN Inbounds(Config, known) ELSE {})
        \subseteq Inbounds(Config, known) \cup OwnListeners(Config)
  OBVIOUS
<1>2. QED
  BY <1>1, ValidCanListen, FewerCanListen

LEMMA ListenInit == Init => ListenInv
<1> SUFFICES ASSUME Init PROVE ListenInv
  OBVIOUS
<1>1. phase = "down" /\ refused = "" /\ box = "off" /\ refresh = IdleRefresh
  BY DEF Init
<1>2. QED
  BY <1>1 DEF ListenInv, PlainConfigBinds, IdleRefresh, Begun

LEMMA ListenStep == ListenInv /\ [Next]_vars => ListenInv'
<1> SUFFICES ASSUME ListenInv, [Next]_vars
             PROVE  ListenInv'
  OBVIOUS
<1> USE DEF ListenInv
<1>1. ASSUME StartRefused PROVE ListenInv'
  BY <1>1 DEF StartRefused, PlainConfigBinds, Config, Env
<1>2. ASSUME Start PROVE ListenInv'
  BY <1>2 DEF Start, PlainConfigBinds, Config, Env, IdleRefresh, Begun
<1>3. ASSUME RefreshBegin \/ HealthCheck PROVE ListenInv'
  BY <1>3 DEF RefreshBegin, HealthCheck, PlainConfigBinds, Config, Env
<1>4. ASSUME NEW body, RefreshFetch(body) PROVE ListenInv'
  BY <1>4 DEF RefreshFetch, GiveUp, PlainConfigBinds, Config, Env, IdleRefresh, Begun
<1>5. ASSUME RefreshRows \/ RefreshLanes PROVE ListenInv'
  BY <1>5 DEF RefreshRows, RefreshLanes, PlainConfigBinds, Config, Env, IdleRefresh, Begun
<1>6. ASSUME RefreshApply PROVE ListenInv'
  <2>1. Validate(Config) /\ UNCHANGED envs
    BY <1>6 DEF RefreshApply
  <2>2. CASE Accepted
    BY <1>6, <2>1, <2>2, LaunchedServes DEF RefreshApply, PlainConfigBinds, Config, Env
  <2>3. CASE ~Accepted
    BY <1>6, <2>1, <2>3 DEF RefreshApply, GiveUp, PlainConfigBinds, Config, Env, IdleRefresh, Begun
  <2>4. QED
    BY <2>2, <2>3
<1>7. ASSUME StoredApply PROVE ListenInv'
  BY <1>7, LaunchedServes DEF StoredApply, PlainConfigBinds, Config, Env
<1>8. ASSUME Listen PROVE ListenInv'
  <2>1. Validate(Config) /\ UNCHANGED <<envs, refresh>> /\ refresh.pc = "idle"
    BY <1>8 DEF Listen
  <2>2. CASE Plain(Config)
    <3>1. phase' = "up" /\ UNCHANGED <<refused, box>>
      BY <1>8, <2>1, <2>2, ListenersAreFree DEF Listen
    <3>2. QED
      BY <2>1, <3>1 DEF PlainConfigBinds, Config, Env
  <2>3. CASE ~Plain(Config)
    BY <1>8, <2>1, <2>3 DEF Listen, PlainConfigBinds, Config, Env
  <2>4. QED
    BY <2>2, <2>3
<1>9. ASSUME Crash \/ Edit PROVE ListenInv'
  <2>1. CASE Crash
    <3>1. phase' = "down" /\ refused' = "" /\ box' = "off" /\ refresh' = IdleRefresh
      BY <2>1 DEF Crash
    <3>2. QED
      BY <3>1 DEF PlainConfigBinds, IdleRefresh, Begun
  <2>2. CASE Edit
    <3>1. phase = "down" /\ phase' = "down" /\ refused' = "" /\ UNCHANGED <<box, refresh>>
      BY <2>2 DEF Edit
    <3>2. QED
      BY <3>1 DEF PlainConfigBinds
  <2>3. QED
    BY <1>9, <2>1, <2>2
<1>10. ASSUME NEW j \in Jobs, NEW p, TouchBegin(j, p) \/ \E mode \in Modes : SettingsBegin(j, p, mode)
       PROVE  ListenInv'
  BY <1>10 DEF TouchBegin, SettingsBegin, JobBegin, PlainConfigBinds, Config, Env
<1>11. ASSUME NEW j \in Jobs, JobEnds(j) PROVE ListenInv'
  <2>1. UNCHANGED <<phase, refused, box, refresh>>
    BY <1>11 DEF JobEnds, SettingsWrite, SettingsResolve, SettingsStore, TouchWrite, JobStep
  <2>2. UNCHANGED envs
    BY <1>11 DEF JobEnds, SettingsWrite, SettingsResolve, SettingsStore, TouchWrite, JobStep
  <2>3. QED
    BY <2>1, <2>2 DEF PlainConfigBinds, Config, Env
<1>12. ASSUME UNCHANGED vars PROVE ListenInv'
  BY <1>12 DEF vars, PlainConfigBinds, Config, Env
<1>13. QED
  BY <1>1, <1>2, <1>3, <1>4, <1>5, <1>6, <1>7, <1>8, <1>9, <1>10, <1>11, <1>12
  DEF Next, StartStep, RefreshStep

\* Under a plain configuration neither sing-box nor the program ever fails to listen
\* (New and main, applyNodesToRuntime on every refresh), for every configuration.
THEOREM PlainConfigsBind == Spec => []PlainConfigBinds
<1>1. ListenInv => PlainConfigBinds
  BY DEF ListenInv
<1>2. QED
  BY <1>1, ListenInit, ListenStep, PTL DEF Spec

-----------------------------------------------------------------------------
(* Keys                                                                     *)

\* A node has the key one of the two formats gives its proxy.
NodesAreKeyed ==
    \A j \in DOMAIN registry : registry[j] \in {LinkNode(registry[j].proxy), ClashNode(registry[j].proxy)}

EnvsTyped == envs \in Seq(Environments) /\ envs # <<>>

LEMMA EnvsInit == Init => EnvsTyped
BY PlansAssumption DEF Init, EnvsTyped

LEMMA EnvsStep == EnvsTyped /\ [Next]_vars => EnvsTyped'
<1> SUFFICES ASSUME EnvsTyped, [Next]_vars PROVE EnvsTyped'
  OBVIOUS
<1>1. CASE Edit
  <2>1. envs \in Seq(Environments) /\ Len(envs) > 1 /\ envs' = Tail(envs)
    BY <1>1 DEF Edit, EnvsTyped
  <2>2. Tail(envs) \in Seq(Environments) /\ Len(Tail(envs)) = Len(envs) - 1
    BY <2>1
  <2>3. Tail(envs) # <<>>
    <3>1. Len(<<>>) = 0
      OBVIOUS
    <3>2. Len(Tail(envs)) # 0
      BY <2>1, <2>2
    <3>3. QED
      BY <3>1, <3>2
  <2>4. QED
    BY <2>1, <2>2, <2>3 DEF EnvsTyped
<1>2. CASE ~Edit
  <2>1. UNCHANGED envs
    BY <1>2 DEF Next, StartStep, RefreshStep, JobEnds, StartRefused, Start, StoredApply, Listen,
       RefreshBegin, RefreshFetch, RefreshRows, RefreshApply, RefreshLanes, HealthCheck, Crash,
       TouchBegin, SettingsBegin, JobBegin, JobStep, SettingsWrite, SettingsResolve, SettingsStore,
       TouchWrite, vars
  <2>2. QED
    BY <2>1 DEF EnvsTyped
<1>3. QED
  BY <1>1, <1>2

\* Where the formats agree on the key (parseShareLinks and clashProxyToNode).
LEMMA FormatsAgree ==
    ASSUME NEW proxy, proxy.name # "", proxy.type # "shadowsocks"
    PROVE  LinkNode(proxy).key = ClashNode(proxy).key
BY DEF LinkNode, ParseURL, ClashNode, LinkName, Node

\* What is taken from a list is what is at the given places, as many items as places
\* (parseShareLinks leaves out no supported line and repeats none).
LEMMA ItemsAtAre ==
    ASSUME NEW items, NEW places \in SUBSET Nat, IsFiniteSet(places)
    PROVE  /\ Len(ItemsAt(items, places)) = Cardinality(places)
           /\ DOMAIN ItemsAt(items, places) = 1..Cardinality(places)
           /\ \A m \in 1..Cardinality(places) : \E k \in places : ItemsAt(items, places)[m] = items[k]
           /\ \A k \in places : \E m \in 1..Cardinality(places) : ItemsAt(items, places)[m] = items[k]
<1> DEFINE rank(k) == Cardinality({i \in places : i <= k})
           place(m) == CHOOSE k \in places : rank(k) = m
<1>1. Cardinality(places) \in Nat
  BY RanksAre
<1>2. ItemsAt(items, places) = [m \in 1..Cardinality(places) |-> items[place(m)]]
  BY DEF ItemsAt
<1>3. Len(ItemsAt(items, places)) = Cardinality(places)
  <2> DEFINE n == Cardinality(places)
             f == [m \in 1..n |-> items[place(m)]]
  <2>1. Len(f) = n
    <3> HIDE DEF n, place
    <3>1. n \in Nat
      BY <1>1 DEF n
    <3> QED
      BY <3>1
  <2> QED
    BY <1>2, <2>1
<1>4. ASSUME NEW m \in 1..Cardinality(places) PROVE place(m) \in places /\ rank(place(m)) = m
  <2>1. \E k \in places : rank(k) = m
    BY RanksAre
  <2> HIDE DEF rank
  <2> QED
    BY <2>1
<1>5. ASSUME NEW k \in places PROVE rank(k) \in 1..Cardinality(places) /\ place(rank(k)) = k
  <2>1. rank(k) \in 1..Cardinality(places)
    BY RanksAre
  <2>2. place(rank(k)) \in places /\ rank(place(rank(k))) = rank(k)
    BY <1>4, <2>1
  <2>3. \A j \in places : rank(j) = rank(k) => j = k
    BY RanksAre
  <2> HIDE DEF rank, place
  <2> QED
    BY <2>1, <2>2, <2>3
<1>6. ASSUME NEW m \in 1..Cardinality(places) PROVE \E k \in places : ItemsAt(items, places)[m] = items[k]
  <2> HIDE DEF place
  <2> QED
    BY <1>2, <1>4
<1>7. ASSUME NEW k \in places
      PROVE  \E m \in 1..Cardinality(places) : ItemsAt(items, places)[m] = items[k]
  <2> HIDE DEF place, rank
  <2> QED
    BY <1>2, <1>5
<1> QED
  BY <1>2, <1>3, <1>6, <1>7

\* What is fetched consists of nodes one of the formats has made (ParseSubscription).
LEMMA FetchedIsKeyed ==
    ASSUME NEW body, body.form \in {"clash", "links", "base64", "base64clash", "none"},
           Fetched(body).ok, NEW j \in DOMAIN Fetched(body).nodes
    PROVE  LET node == Fetched(body).nodes[j]
           IN  node \in {LinkNode(node.proxy), ClashNode(node.proxy)}
<1>1. Failed.ok = FALSE
  BY DEF Failed
<1>2. Fetched(body) = ParseSubscription(body) /\ body.form # "none"
  BY <1>1 DEF Fetched
<1>3. CASE body.form = "clash"
  <2>1. Fetched(body) = ParseClash(body.items)
    BY <1>2, <1>3 DEF ParseSubscription
  <2>2. Fetched(body) = Parsed([k \in DOMAIN body.items |-> ClashNode(body.items[k])])
    BY <1>1, <2>1 DEF ParseClash
  <2>3. Fetched(body).nodes[j] = ClashNode(body.items[j])
    BY <2>2 DEF Parsed
  <2>4. QED
    BY <2>3 DEF ClashNode, Node
<1>4. CASE body.form \in {"links", "base64"}
  <2> DEFINE supported == ItemsAt(body.items, {k \in DOMAIN body.items : body.items[k].type \in LinkTypes})
  <2>1. Fetched(body) = ParseShareLinks(body.items)
    BY <1>2, <1>4 DEF ParseSubscription
  <2>2. Fetched(body) = Parsed([k \in DOMAIN supported |-> LinkNode(supported[k])])
    BY <1>1, <2>1 DEF ParseShareLinks
  <2>3. Fetched(body).nodes[j] = LinkNode(supported[j])
    BY <2>2 DEF Parsed
  <2> HIDE DEF supported
  <2>4. QED
    BY <2>3 DEF LinkNode, ParseSS, ParseURL, Node
<1>5. CASE body.form = "base64clash"
  BY <1>1, <1>2, <1>5 DEF ParseSubscription
<1>6. QED
  BY <1>2, <1>3, <1>4, <1>5

\* A list of nodes is the whole of what the format of a body supports, none of it malformed.
IsWhole(nodes, body) ==
    /\ {node.proxy : node \in Range(nodes)} = {body.items[k] : k \in Supported(body)}
    /\ Len(nodes) = Cardinality(Supported(body))
    /\ \A node \in Range(nodes) : node.proxy.sound

\* What is fetched is the whole of what was served (ParseSubscription, parseShareLinks, parseClash).
LEMMA FetchedIsWhole ==
    ASSUME NEW body, body.form \in {"clash", "links", "base64", "base64clash", "none"},
           body.items \in Seq(Range(body.items)), Fetched(body).ok
    PROVE  IsWhole(Fetched(body).nodes, body)
<1> DEFINE items == body.items
           nodes == Fetched(body).nodes
<1>1. Failed.ok = FALSE
  BY DEF Failed
<1>2. Fetched(body) = ParseSubscription(body) /\ body.form # "none"
  BY <1>1 DEF Fetched
<1>3. Len(items) \in Nat /\ DOMAIN items = 1..Len(items)
  OBVIOUS
<1>4. IsFiniteSet(1..Len(items)) /\ Cardinality(1..Len(items)) = Len(items)
  BY <1>3, FS_Interval
<1>5. Supported(body) \subseteq 1..Len(items) /\ IsFiniteSet(Supported(body))
  <2>1. Supported(body) \subseteq 1..Len(items)
    BY <1>3 DEF Supported
  <2> QED
    BY <1>4, <2>1, FS_Subset
<1>6. CASE body.form = "clash"
  <2>1. Fetched(body) = ParseClash(items)
    BY <1>2, <1>6 DEF ParseSubscription
  <2>2. /\ Fetched(body) = Parsed([k \in DOMAIN items |-> ClashNode(items[k])])
        /\ \A item \in Range(items) : item.sound
    BY <1>1, <2>1 DEF ParseClash
  <2>3. Supported(body) = 1..Len(items)
    BY <1>3, <1>6 DEF Supported
  <2>4. nodes = [k \in 1..Len(items) |-> ClashNode(items[k])]
    BY <1>3, <2>2 DEF Parsed
  <2>5. Len(nodes) = Len(items)
    <3> DEFINE n == Len(items)
               f == [k \in 1..n |-> ClashNode(items[k])]
    <3>1. Len(f) = n
      <4> HIDE DEF n
      <4>1. n \in Nat
        BY <1>3 DEF n
      <4> QED
        BY <4>1
    <3> QED
      BY <2>4, <3>1
  <2>6. ASSUME NEW k \in 1..Len(items) PROVE nodes[k].proxy = items[k] /\ items[k].sound
    <3>1. items[k] \in Range(items)
      BY <1>3 DEF Range
    <3>2. nodes[k] = ClashNode(items[k])
      BY <2>4
    <3>3. ClashNode(items[k]).proxy = items[k]
      BY DEF ClashNode, Node
    <3>4. items[k].sound
      BY <2>2, <3>1
    <3> QED
      BY <3>2, <3>3, <3>4
  <2>7. Range(nodes) = {nodes[k] : k \in 1..Len(items)}
    BY <2>4 DEF Range
  <2> HIDE DEF nodes
  <2>8. {node.proxy : node \in Range(nodes)} = {items[k] : k \in 1..Len(items)}
    BY <2>6, <2>7
  <2>9. \A node \in Range(nodes) : node.proxy.sound
    BY <2>6, <2>7
  <2> QED
    BY <1>4, <2>3, <2>5, <2>8, <2>9 DEF nodes, IsWhole
<1>7. CASE body.form \in {"links", "base64"}
  <2> DEFINE at == {k \in DOMAIN items : items[k].type \in LinkTypes}
             list == ItemsAt(items, at)
  <2>1. Fetched(body) = ParseShareLinks(items)
    BY <1>2, <1>7 DEF ParseSubscription
  <2>2. /\ Fetched(body) = Parsed([k \in DOMAIN list |-> LinkNode(list[k])])
        /\ \A item \in Range(list) : item.sound
    BY <1>1, <2>1 DEF ParseShareLinks
  <2>3. Supported(body) = at
    BY <1>7 DEF Supported
  <2>4. at \in SUBSET Nat /\ IsFiniteSet(at)
    BY <1>5, <2>3
  <2>5. /\ DOMAIN list = 1..Cardinality(at)
        /\ \A m \in 1..Cardinality(at) : \E k \in at : list[m] = items[k]
        /\ \A k \in at : \E m \in 1..Cardinality(at) : list[m] = items[k]
    <3> HIDE DEF at
    <3> QED
      BY <2>4, ItemsAtAre
  <2>6. Cardinality(at) \in Nat
    BY <2>4, FS_CardinalityType
  <2> HIDE DEF at, list
  <2>7. nodes = [k \in 1..Cardinality(at) |-> LinkNode(list[k])]
    BY <2>2, <2>5 DEF Parsed
  <2>8. Len(nodes) = Cardinality(at)
    <3> DEFINE n == Cardinality(at)
               f == [k \in 1..n |-> LinkNode(list[k])]
    <3>1. Len(f) = n
      <4> HIDE DEF n
      <4>1. n \in Nat
        BY <2>6 DEF n
      <4> QED
        BY <4>1
    <3> QED
      BY <2>7, <3>1
  <2>9. ASSUME NEW k \in 1..Cardinality(at) PROVE nodes[k].proxy = list[k] /\ list[k].sound
    <3>1. list[k] \in Range(list)
      BY <2>5 DEF Range
    <3>2. nodes[k] = LinkNode(list[k])
      BY <2>7
    <3>3. LinkNode(list[k]).proxy = list[k]
      BY DEF LinkNode, ParseSS, ParseURL, Node
    <3>4. list[k].sound
      BY <2>2, <3>1
    <3> QED
      BY <3>2, <3>3, <3>4
  <2>10. Range(nodes) = {nodes[k] : k \in 1..Cardinality(at)}
    BY <2>7 DEF Range
  <2> HIDE DEF nodes, items
  <2>11. {node.proxy : node \in Range(nodes)} = {items[k] : k \in at}
    BY <2>5, <2>9, <2>10
  <2>12. \A node \in Range(nodes) : node.proxy.sound
    BY <2>9, <2>10
  <2> QED
    BY <2>3, <2>8, <2>11, <2>12 DEF nodes, items, IsWhole
<1>8. CASE body.form = "base64clash"
  BY <1>1, <1>2, <1>8 DEF ParseSubscription
<1> QED
  BY <1>2, <1>6, <1>7, <1>8

LEMMA KeyedInit == Init => NodesAreKeyed
<1>1. Init => registry = <<>>
  BY DEF Init
<1>2. QED
  BY <1>1 DEF NodesAreKeyed

LEMMA KeyedStep == EnvsTyped /\ NodesAreKeyed /\ [Next]_vars => NodesAreKeyed'
<1> SUFFICES ASSUME EnvsTyped, NodesAreKeyed, [Next]_vars PROVE NodesAreKeyed'
  OBVIOUS
<1>1. CASE UNCHANGED registry
  BY <1>1 DEF NodesAreKeyed
<1>2. CASE \E body \in Providers[Env.provider] : RefreshFetch(body)
  <2>1. PICK body \in Providers[Env.provider] : RefreshFetch(body)
    BY <1>2
  <2>2. Env \in Environments
    BY DEF EnvsTyped, Env
  <2>3. body.form \in {"clash", "links", "base64", "base64clash", "none"}
    BY <2>1, <2>2, PlansAssumption, ProvidersAssumption DEF Range
  <2>4. CASE Fetched(body).ok
    <3>1. registry' = Fetched(body).nodes
      BY <2>1, <2>4 DEF RefreshFetch
    <3>2. QED
      BY <2>3, <2>4, <3>1, FetchedIsKeyed DEF NodesAreKeyed
  <2>5. CASE ~Fetched(body).ok
    <3>1. UNCHANGED registry
      BY <2>1, <2>5 DEF RefreshFetch
    <3>2. QED
      BY <1>1, <3>1
  <2>6. QED
    BY <2>4, <2>5
<1>3. QED
  <2>1. UNCHANGED registry \/ \E body \in Providers[Env.provider] : RefreshFetch(body)
    BY DEF Next, StartStep, RefreshStep, JobEnds, StartRefused, Start, StoredApply, Listen,
       RefreshBegin, RefreshRows, RefreshApply, RefreshLanes, HealthCheck, Crash, Edit, stored,
       TouchBegin, SettingsBegin, JobBegin, JobStep, SettingsWrite, SettingsResolve, SettingsStore,
       TouchWrite, vars
  <2>2. QED
    BY <1>1, <1>2, <2>1

\* The registry is always the whole of one served body (ReplaceNodesForSubscription
\* after ParseSubscription), each node with a key of its own: a body is taken whole or
\* refused whole, for every list of proxies of any length and however refreshes,
\* restarts and requests follow each other.
THEOREM RegistryIsWhole == Spec => []RegistryIsOneSubscription
<1>1. Init => RegistryIsOneSubscription
  BY DEF Init, RegistryIsOneSubscription
<1>2. EnvsTyped /\ RegistryIsOneSubscription /\ [Next]_vars => RegistryIsOneSubscription'
  <2> SUFFICES ASSUME EnvsTyped, RegistryIsOneSubscription, [Next]_vars
               PROVE  RegistryIsOneSubscription'
    OBVIOUS
  <2>1. UNCHANGED <<registry, source>> \/ \E body \in Providers[Env.provider] : RefreshFetch(body)
    BY DEF Next, StartStep, RefreshStep, JobEnds, StartRefused, Start, StoredApply, Listen,
       RefreshBegin, RefreshRows, RefreshApply, RefreshLanes, HealthCheck, Crash, Edit, stored,
       TouchBegin, SettingsBegin, JobBegin, JobStep, SettingsWrite, SettingsResolve, SettingsStore,
       TouchWrite, vars
  <2>2. CASE UNCHANGED <<registry, source>>
    BY <2>2 DEF RegistryIsOneSubscription
  <2>3. CASE \E body \in Providers[Env.provider] : RefreshFetch(body)
    <3>1. PICK body \in Providers[Env.provider] : RefreshFetch(body)
      BY <2>3
    <3>2. Env \in Environments
      BY DEF EnvsTyped, Env
    <3>3. /\ body.form \in {"clash", "links", "base64", "base64clash", "none"}
          /\ body.items \in Seq(Range(body.items))
      <4>1. Providers[Env.provider] \in Range(Providers)
        BY <3>2, PlansAssumption DEF Range
      <4> QED
        BY <3>1, <4>1, ProvidersAssumption
    <3>4. CASE Fetched(body).ok
      <4>1. registry' = Fetched(body).nodes /\ source' = body
        BY <3>1, <3>4 DEF RefreshFetch
      <4>2. IsWhole(Fetched(body).nodes, body)
        BY <3>3, <3>4, FetchedIsWhole
      <4>3. IsWhole(registry', source')
        BY <4>1, <4>2
      <4>4. \A j, k \in DOMAIN registry' : registry'[j].key = registry'[k].key => j = k
        BY <4>1, <3>4 DEF Fetched, Failed
      <4> QED
        BY <4>3, <4>4 DEF RegistryIsOneSubscription, IsWhole
    <3>5. CASE ~Fetched(body).ok
      <4>1. UNCHANGED <<registry, source>>
        BY <3>1, <3>5 DEF RefreshFetch
      <4> QED
        BY <2>2, <4>1
    <3> QED
      BY <3>4, <3>5
  <2> QED
    BY <2>1, <2>2, <2>3
<1> QED
  BY <1>1, <1>2, EnvsInit, EnvsStep, PTL DEF Spec

\* Whatever format a provider changes to, and whenever, a named proxy other than a
\* shadowsocks one keeps its key from one registry to the next (ReplaceNodesForSubscription
\* after ParseSubscription), for every list it may serve.
THEOREM KeysSurviveFormats == Spec => FormatChangeKeepsKeys
<1>1. NodesAreKeyed /\ NodesAreKeyed' => KeysAreKept
  <2> SUFFICES ASSUME NodesAreKeyed, NodesAreKeyed',
                      NEW j \in DOMAIN registry, NEW k \in DOMAIN registry',
                      registry[j].proxy = registry'[k].proxy, registry[j].proxy.name # "",
                      registry[j].proxy.type # "shadowsocks"
               PROVE  registry[j].key = registry'[k].key
    BY DEF KeysAreKept
  <2> DEFINE proxy == registry[j].proxy
  <2>1. registry[j] \in {LinkNode(proxy), ClashNode(proxy)}
    BY DEF NodesAreKeyed
  <2>2. registry'[k] \in {LinkNode(proxy), ClashNode(proxy)}
    BY DEF NodesAreKeyed
  <2>3. QED
    BY <2>1, <2>2, FormatsAgree
<1>2. QED
  BY <1>1, EnvsInit, EnvsStep, KeyedInit, KeyedStep, PTL DEF Spec, FormatChangeKeepsKeys

-----------------------------------------------------------------------------
(* Settings                                                                 *)

MaybeTorn == Modes \cup {Torn}

\* A settings request is under way.
Writing(j) == job[j].pc \in {"write", "resolve", "store"}

\* Port p has settings that are acknowledged and undisturbed.
Holds(p) == p \in DOMAIN asked /\ asked[p] # NoMode

\* What is stored, and what New has read from it.
RowsTyped ==
    /\ envs \in Seq(Environments) /\ envs # <<>>
    /\ Range(rows) \subseteq MaybeTorn /\ Range(asked) \subseteq Modes \cup {NoMode}
    /\ DOMAIN asked \subseteq DOMAIN rows /\ known \subseteq DOMAIN rows
    /\ refresh = [pc |-> refresh.pc, rows |-> refresh.rows]
    /\ refresh.pc \in {"idle", "fetch", "rows", "apply", "lanes"}
    /\ refresh.pc # "idle" => Range(refresh.rows) \subseteq MaybeTorn

ModesTyped ==
    phase # "down" =>
        /\ Keys \subseteq DOMAIN rows /\ DOMAIN asked = Keys
        /\ modes = [top |-> modes.top, ports |-> modes.ports]
        /\ DOMAIN modes.ports = Keys /\ Range(modes.ports) \subseteq MaybeTorn \cup {Inherit}
        /\ modes.top \in MaybeTorn

JobTyped(j) ==
    /\ job[j] = [pc |-> job[j].pc, port |-> job[j].port, mode |-> job[j].mode,
                 ports |-> job[j].ports, calm |-> job[j].calm]
    /\ job[j].pc \in {"idle", "write", "resolve", "store", "touch"} /\ job[j].calm \in BOOLEAN
    /\ job[j].pc # "idle" => phase = "up" /\ job[j].port \in Keys /\ job[j].mode \in MaybeTorn
    /\ Writing(j) => job[j].mode \in Modes
    /\ job[j].calm => Writing(j)
    /\ job[j].pc = "store" => /\ DOMAIN job[j].ports = Keys
                              /\ Range(job[j].ports) \subseteq MaybeTorn
                              /\ job[j].ports[job[j].port] = job[j].mode

JobsTyped == DOMAIN job = Jobs /\ \A j \in Jobs : JobTyped(j)

\* The row of a port and its mode in force are what was asked, and whatever is under
\* way has that too.
RowsHold == \A p \in DOMAIN asked : Holds(p) => rows[p] = asked[p]

InForce ==
    phase # "down" => \A p \in Keys : Holds(p) =>
        /\ ModeOf(p) = asked[p]
        /\ p = Default \/ modes.ports[p] # Inherit

RefreshHolds ==
    refresh.pc # "idle" => \A p \in DOMAIN refresh.rows : Holds(p) => refresh.rows[p] = asked[p]

JobsHold ==
    \A j \in Jobs, p \in DOMAIN asked : Holds(p) =>
        /\ job[j].port = p => ~Writing(j)
        /\ job[j].port = p /\ job[j].pc = "touch" => job[j].mode = asked[p]
        /\ job[j].pc = "store" => job[j].ports[p] = asked[p]

\* A settings request that nothing has overlapped yet.
CalmJobs ==
    \A j \in Jobs : job[j].calm =>
        /\ Alone(j, job[j].port)
        /\ job[j].pc \in {"resolve", "store"} => rows[job[j].port] = job[j].mode

SettingsInv ==
    /\ RowsTyped /\ ModesTyped /\ JobsTyped
    /\ RowsHold /\ InForce /\ RefreshHolds /\ JobsHold /\ CalmJobs

\* A request that is under way is one of a program that serves.
LEMMA NobodyBefore ==
    ASSUME JobsTyped, phase # "up", NEW j \in Jobs
    PROVE  job[j].pc = "idle" /\ ~job[j].calm /\ ~Writing(j)
BY DEF JobsTyped, JobTyped, Writing

LEMMA SettingsInit == Init => SettingsInv
<1> SUFFICES ASSUME Init PROVE SettingsInv
  OBVIOUS
<1>1. /\ phase = "down" /\ rows = <<>> /\ asked = [p \in {} |-> NoMode] /\ known = {}
      /\ refresh = IdleRefresh /\ job = [j \in Jobs |-> IdleJob]
  BY DEF Init
<1>2. DOMAIN rows = {} /\ DOMAIN asked = {}
  BY <1>1
<1>3. RowsTyped
  BY <1>1, <1>2, EnvsInit DEF EnvsTyped, RowsTyped, Range, IdleRefresh, Begun
<1>4. JobsTyped
  BY <1>1 DEF JobsTyped, JobTyped, IdleJob, Job, Writing
<1>5. QED
  BY <1>1, <1>2, <1>3, <1>4, NobodyBefore
  DEF SettingsInv, ModesTyped, RowsHold, InForce, RefreshHolds, JobsHold, CalmJobs, Holds, IdleRefresh, Begun

\* Steps that leave rows, settings and requests alone.
LEMMA ProgressKeeps ==
    ASSUME SettingsInv, UNCHANGED <<envs, rows, asked, modes, job>>,
           phase' = phase \/ phase \notin {"down", "up"},
           known' \subseteq DOMAIN rows,
           refresh'.pc = "idle" \/ (refresh.pc # "idle" /\ refresh'.rows = refresh.rows),
           refresh' = [pc |-> refresh'.pc, rows |-> refresh'.rows],
           refresh'.pc \in {"idle", "fetch", "rows", "apply", "lanes"}
    PROVE  SettingsInv'
<1> USE DEF SettingsInv
<1>1. RowsTyped'
  BY DEF RowsTyped, IdleRefresh, Begun
<1>2. ModesTyped'
  BY DEF ModesTyped, Keys, Config, Env
<1>3. JobsTyped'
  <2>1. CASE phase' = phase
    BY <2>1 DEF JobsTyped, JobTyped, Keys, Config, Env, Writing
  <2>2. CASE phase # "up"
    BY <2>2, NobodyBefore DEF JobsTyped, JobTyped, Keys, Config, Env, Writing
  <2>3. QED
    BY <2>1, <2>2
<1>4. RowsHold' /\ JobsHold'
  BY DEF RowsHold, JobsHold, Holds, Writing
<1>5. InForce'
  BY DEF InForce, Holds, ModeOf, Keys, Config, Env
<1>6. RefreshHolds'
  BY DEF RefreshHolds, Holds, IdleRefresh, Begun
<1>7. CalmJobs'
  BY DEF CalmJobs, Alone, IdleRefresh, Begun
<1>8. QED
  BY <1>1, <1>2, <1>3, <1>4, <1>5, <1>6, <1>7

LEMMA ProgressStep ==
    ASSUME ListenInv, SettingsInv,
           \/ StartRefused \/ (\E body : RefreshFetch(body)) \/ RefreshApply \/ RefreshLanes
           \/ HealthCheck \/ StoredApply \/ Listen \/ UNCHANGED vars
    PROVE  SettingsInv'
<1>1. known \subseteq DOMAIN rows /\ refresh = [pc |-> refresh.pc, rows |-> refresh.rows]
      /\ refresh.pc \in {"idle", "fetch", "rows", "apply", "lanes"}
  BY DEF SettingsInv, RowsTyped
<1>2. phase # "down" => Keys \subseteq DOMAIN rows
  BY DEF SettingsInv, ModesTyped
<1>3. CASE StartRefused \/ UNCHANGED vars \/ HealthCheck
  BY <1>1, <1>2, <1>3, ProgressKeeps DEF StartRefused, vars, HealthCheck, stored
<1>4. CASE (\E body : RefreshFetch(body)) \/ RefreshApply
  BY <1>1, <1>4, ProgressKeeps DEF RefreshFetch, RefreshApply, GiveUp, stored, IdleRefresh, Begun
<1>5. CASE RefreshLanes
  <2>1. phase \notin {"down", "stored", "listen"}
    BY <1>5 DEF ListenInv, RefreshLanes
  <2>2. QED
    BY <1>1, <1>2, <1>5, <2>1, ProgressKeeps DEF RefreshLanes, IdleRefresh, Begun
<1>6. CASE StoredApply \/ Listen
  BY <1>1, <1>6, ProgressKeeps DEF StoredApply, Listen, stored
<1>7. QED
  BY <1>3, <1>4, <1>5, <1>6

LEMMA EditStep ==
    ASSUME SettingsInv, Edit
    PROVE  SettingsInv'
<1>1. phase = "down" /\ phase' = "down"
      /\ UNCHANGED <<rows, asked, modes, job, known, refresh>>
  BY DEF Edit, stored
<1>2. EnvsTyped'
  BY EnvsStep DEF SettingsInv, RowsTyped, EnvsTyped, Next
<1>3. RowsTyped'
  BY <1>1, <1>2 DEF SettingsInv, RowsTyped, EnvsTyped
<1>4. JobsTyped'
  BY <1>1, NobodyBefore DEF SettingsInv, JobsTyped, JobTyped, Writing
<1>5. RowsHold' /\ JobsHold' /\ RefreshHolds'
  BY <1>1 DEF SettingsInv, RowsHold, JobsHold, RefreshHolds, Holds, Writing
<1>6. QED
  BY <1>1, <1>3, <1>4, <1>5 DEF SettingsInv, ModesTyped, InForce, CalmJobs, Alone

\* What the program holds in memory is gone; what was asked stays in the rows.
LEMMA CrashStep ==
    ASSUME SettingsInv, Crash
    PROVE  SettingsInv'
<1>1. phase' = "down" /\ refresh' = IdleRefresh /\ job' = [j \in Jobs |-> IdleJob]
      /\ UNCHANGED <<envs, rows, asked, known>>
  BY DEF Crash, stored
<1>2. RowsTyped'
  BY <1>1 DEF SettingsInv, RowsTyped, IdleRefresh, Begun
<1>3. JobsTyped' /\ JobsHold' /\ CalmJobs'
  BY <1>1 DEF JobsTyped, JobTyped, JobsHold, CalmJobs, IdleJob, Job, Writing
<1>4. RowsHold' /\ RefreshHolds'
  BY <1>1 DEF SettingsInv, RowsHold, RefreshHolds, Holds, IdleRefresh, Begun
<1>5. QED
  BY <1>1, <1>2, <1>3, <1>4 DEF SettingsInv, ModesTyped, InForce

\* What ResolvedPorts makes of a port keeps its key, and its mode if it has one.
LEMMA NormalPortKeeps ==
    ASSUME NEW c, NEW p, DOMAIN p = {"key", "http", "socks", "mode", "lanes"}
    PROVE  /\ NormalPort(c, p).key = p.key
           /\ NormalPort(c, p).mode = IF p.mode = Inherit THEN c.mode ELSE p.mode
BY DEF NormalPort

\* Every port of a configuration Validate accepts has a mode or leaves it to the top
\* level, and the default port is among them.
LEMMA GivenModesTyped ==
    ASSUME NEW c, Validate(c),
           \A p \in Range(c.ports) : DOMAIN p = {"key", "http", "socks", "mode", "lanes"}
    PROVE  /\ DOMAIN GivenModes(c) = PortKeys(c) /\ Default \in PortKeys(c)
           /\ \A p \in PortKeys(c) : GivenModes(c)[p] \in Modes \cup {Inherit}
<1>1. Default \in PortKeys(c)
  BY DEF Validate, PortKeys
<1>2. CASE c.ports = <<>>
  <2> DEFINE p == [key |-> Default, http |-> c.http, socks |-> c.socks, mode |-> Inherit, lanes |-> <<>>]
  <2>1. NormalPort(c, p).key = Default
    BY NormalPortKeeps
  <2>2. ResolvedPorts(c) = <<NormalPort(c, p)>>
    BY <1>2 DEF ResolvedPorts
  <2>3. Range(ResolvedPorts(c)) = {NormalPort(c, p)}
    BY <2>2 DEF Range
  <2>4. PortKeys(c) = {Default}
    BY <2>1, <2>3 DEF PortKeys
  <2>5. GivenModes(c) = [x \in {Default} |-> Inherit]
    BY <1>2 DEF GivenModes
  <2>6. QED
    BY <1>1, <2>4, <2>5
<1>3. CASE c.ports # <<>>
  <2>1. ResolvedPorts(c) = [k \in DOMAIN c.ports |-> NormalPort(c, c.ports[k])]
    BY <1>3 DEF ResolvedPorts
  <2>2. Range(ResolvedPorts(c)) = {NormalPort(c, p) : p \in Range(c.ports)}
    BY <2>1 DEF Range
  <2>3. PortKeys(c) = {p.key : p \in Range(c.ports)}
    BY <2>2, NormalPortKeeps DEF PortKeys
  <2>4. GivenModes(c) = [p \in {q.key : q \in Range(c.ports)} |->
                            (CHOOSE q \in Range(c.ports) : q.key = p).mode]
    BY <1>3 DEF GivenModes
  <2>5. ASSUME NEW p \in PortKeys(c)
        PROVE  GivenModes(c)[p] \in Modes \cup {Inherit}
    <3>1. PICK q \in Range(c.ports) : GivenModes(c)[p] = q.mode
      BY <2>3, <2>4
    <3>2. NormalPort(c, q).mode \in Modes
      BY <2>2 DEF Validate
    <3>3. QED
      BY <3>1, <3>2, NormalPortKeeps
  <2>6. QED
    BY <1>1, <2>3, <2>4, <2>5
<1>4. QED
  BY <1>2, <1>3

\* After a migration the default port has a row, and every row there was is kept.
LEMMA MigratedKeeps ==
    ASSUME RowsTyped
    PROVE  /\ DOMAIN Migrated = DOMAIN rows \cup {Default} /\ Range(Migrated) \subseteq MaybeTorn
           /\ \A p \in DOMAIN rows : Migrated[p] = rows[p]
BY DEF Migrated, RowsTyped, Range, MaybeTorn, Modes

LEMMA StartKeeps ==
    ASSUME SettingsInv, Start
    PROVE  SettingsInv'
<1>1. /\ phase = "down" /\ Validate(Config)
      /\ rows' = SyncedRows /\ modes' = ConfiguredModes(Config)
      /\ refresh' = IF Env.url THEN Begun("fetch", rows') ELSE IdleRefresh
      /\ asked' = [p \in Keys |-> IF p = Default /\ p \in DOMAIN asked
                                     /\ GivenModes(Config)[p] = Inherit
                                  THEN asked[p] ELSE NoMode]
      /\ UNCHANGED <<envs, known, job>>
  BY DEF Start
<1>2. RowsTyped /\ JobsTyped /\ RowsHold
  BY DEF SettingsInv
<1> DEFINE given == GivenModes(Config)
<1>3. DOMAIN given = Keys /\ Default \in Keys /\ \A p \in Keys : given[p] \in Modes \cup {Inherit}
  <2>1. Env \in Environments
    BY <1>2 DEF RowsTyped, Env
  <2>2. QED
    BY <1>1, <2>1, PlansAssumption, GivenModesTyped DEF Keys, Config
<1>4. \A p \in DOMAIN Migrated : Migrated[p] \in MaybeTorn
  BY <1>2, MigratedKeeps DEF Range
<1>5. DOMAIN rows' = DOMAIN rows \cup Keys /\ Range(rows') \subseteq MaybeTorn
      /\ \A p \in DOMAIN rows : rows'[p] = rows[p]
  <2>1. rows' = [p \in DOMAIN Migrated \cup Keys |->
                    IF p \in DOMAIN Migrated THEN Migrated[p]
                    ELSE IF given[p] = Inherit THEN Migrated[Default] ELSE given[p]]
    BY <1>1 DEF SyncedRows
  <2>2. DOMAIN Migrated = DOMAIN rows \cup {Default} /\ \A p \in DOMAIN rows : Migrated[p] = rows[p]
    BY <1>2, MigratedKeeps
  <2>3. DOMAIN rows' = DOMAIN rows \cup Keys /\ \A p \in DOMAIN rows : rows'[p] = rows[p]
    BY <1>3, <2>1, <2>2
  <2>4. \A p \in DOMAIN rows' : rows'[p] \in MaybeTorn
    BY <1>3, <1>4, <2>1, <2>2 DEF MaybeTorn
  <2>5. QED
    BY <2>3, <2>4 DEF Range
<1>6. UNCHANGED Keys
  BY <1>1 DEF Keys, Config, Env
<1>7. modes' = [top |-> Migrated[Default], ports |-> given]
  BY <1>1 DEF ConfiguredModes
<1>8. RowsTyped'
  <2>1. Range(asked') \subseteq Modes \cup {NoMode} /\ DOMAIN asked' \subseteq DOMAIN rows'
    BY <1>1, <1>2, <1>5 DEF RowsTyped, Range
  <2>2. QED
    BY <1>1, <1>2, <1>5, <2>1 DEF RowsTyped, Begun, IdleRefresh
<1>9. ModesTyped'
  <2>1. Range(given) \subseteq MaybeTorn \cup {Inherit}
    BY <1>3 DEF Range, MaybeTorn
  <2>2. Migrated[Default] \in MaybeTorn
    BY <1>2, <1>4, MigratedKeeps
  <2>3. QED
    BY <1>1, <1>3, <1>5, <1>6, <1>7, <2>1, <2>2 DEF ModesTyped
<1>10. JobsTyped'
  BY <1>1, <1>2, NobodyBefore DEF JobsTyped, JobTyped, Writing
<1>11. ASSUME NEW p \in Keys, Holds(p)'
       PROVE  p = Default /\ given[p] = Inherit /\ asked'[p] = asked[p] /\ rows[p] = asked[p]
              /\ p \in DOMAIN rows
  BY <1>1, <1>2, <1>11 DEF Holds, RowsHold, RowsTyped
<1>12. RowsHold' /\ RefreshHolds'
  BY <1>1, <1>5, <1>11 DEF RowsHold, RefreshHolds, Begun, IdleRefresh, Holds
<1>13. InForce'
  <2>1. SUFFICES ASSUME NEW p \in Keys, Holds(p)'
                 PROVE  ModeOf(p)' = asked'[p] /\ p = Default
    BY <1>6 DEF InForce
  <2>2. Migrated[Default] = asked'[p]
    BY <1>2, <1>11, <2>1, MigratedKeeps
  <2>3. QED
    BY <1>7, <1>11, <2>1, <2>2 DEF ModeOf
<1>14. JobsHold' /\ CalmJobs'
  BY <1>1, <1>2, NobodyBefore DEF JobsHold, CalmJobs, Writing
<1>15. QED
  BY <1>8, <1>9, <1>10, <1>12, <1>13, <1>14 DEF SettingsInv

\* A request that goes on as it was, but may be overlapped now.
Aside(j) ==
    /\ job'[j] = [pc |-> job[j].pc, port |-> job[j].port, mode |-> job[j].mode,
                  ports |-> job[j].ports, calm |-> job'[j].calm]
    /\ job'[j].calm \in BOOLEAN /\ (job'[j].calm => job[j].calm)

LEMMA SetCalm ==
    ASSUME NEW j \in Jobs, JobTyped(j), NEW b \in BOOLEAN, b => job[j].calm,
           job'[j] = [job[j] EXCEPT !.calm = b]
    PROVE  Aside(j) /\ job'[j].calm = b
<1>1. [[pc |-> job[j].pc, port |-> job[j].port, mode |-> job[j].mode,
        ports |-> job[j].ports, calm |-> job[j].calm] EXCEPT !.calm = b]
        = [pc |-> job[j].pc, port |-> job[j].port, mode |-> job[j].mode,
           ports |-> job[j].ports, calm |-> b]
  OBVIOUS
<1>2. job'[j] = [pc |-> job[j].pc, port |-> job[j].port, mode |-> job[j].mode,
                 ports |-> job[j].ports, calm |-> b]
  BY <1>1 DEF JobTyped
<1>3. QED
  BY <1>2 DEF Aside

LEMMA AsideSame ==
    ASSUME NEW j \in Jobs, Aside(j)
    PROVE  /\ job'[j].pc = job[j].pc /\ job'[j].port = job[j].port
           /\ job'[j].mode = job[j].mode /\ job'[j].ports = job[j].ports
BY DEF Aside

LEMMA AsideTyped ==
    ASSUME NEW j \in Jobs, JobTyped(j), Aside(j), UNCHANGED <<phase, Keys>>
    PROVE  JobTyped(j)'
<1>1. /\ job'[j].pc = job[j].pc /\ job'[j].port = job[j].port
      /\ job'[j].mode = job[j].mode /\ job'[j].ports = job[j].ports
  BY AsideSame
<1>2. job'[j] = [pc |-> job'[j].pc, port |-> job'[j].port, mode |-> job'[j].mode,
                 ports |-> job'[j].ports, calm |-> job'[j].calm]
  BY <1>1 DEF Aside
<1>3. Writing(j)' <=> Writing(j)
  BY <1>1 DEF Writing
<1>4. QED
  BY <1>1, <1>2, <1>3 DEF JobTyped, Aside

\* A refresh remembers the rows of which some hold what was asked.
LEMMA RefreshBeginKeeps ==
    ASSUME SettingsInv, RefreshBegin
    PROVE  SettingsInv'
<1>1. /\ refresh' = [pc |-> "fetch", rows |-> rows]
      /\ job' = [j \in Jobs |-> [job[j] EXCEPT !.calm = FALSE]]
      /\ UNCHANGED <<envs, phase, rows, known, modes, asked>>
  BY DEF RefreshBegin, Begun, stored
<1>2. RowsTyped /\ ModesTyped /\ JobsTyped /\ RowsHold /\ InForce /\ JobsHold
  BY DEF SettingsInv
<1>3. \A j \in Jobs : Aside(j) /\ ~job'[j].calm
  BY <1>1, <1>2, SetCalm DEF JobsTyped
<1>4. RowsTyped' /\ RefreshHolds' /\ RowsHold'
  BY <1>1, <1>2 DEF RowsTyped, RefreshHolds, RowsHold, Holds
<1>5. ModesTyped' /\ InForce'
  BY <1>1, <1>2 DEF ModesTyped, InForce, Holds, ModeOf, Keys, Config, Env
<1>6. JobsTyped'
  <2>1. UNCHANGED Keys /\ DOMAIN job' = Jobs
    BY <1>1 DEF Keys, Config, Env
  <2>2. QED
    BY <1>1, <1>2, <1>3, <2>1, AsideTyped DEF JobsTyped
<1>7. JobsHold'
  <2>1. \A j \in Jobs : /\ job'[j].pc = job[j].pc /\ job'[j].port = job[j].port
                        /\ job'[j].mode = job[j].mode /\ job'[j].ports = job[j].ports
    BY <1>3, AsideSame
  <2>2. QED
    BY <1>1, <1>2, <2>1 DEF JobsHold, Holds, Writing
<1>8. CalmJobs'
  BY <1>3 DEF CalmJobs
<1>9. QED
  BY <1>4, <1>5, <1>6, <1>7, <1>8 DEF SettingsInv

\* The rows are written as they were read: what was asked is still among them.
LEMMA RefreshRowsKeeps ==
    ASSUME SettingsInv, RefreshRows
    PROVE  SettingsInv'
<1>1. /\ refresh.pc = "rows" /\ refresh' = [refresh EXCEPT !.pc = "apply"]
      /\ rows' = [p \in DOMAIN rows \cup DOMAIN refresh.rows |->
                    IF p \in DOMAIN refresh.rows THEN refresh.rows[p] ELSE rows[p]]
      /\ UNCHANGED <<envs, phase, known, modes, asked, job>>
  BY DEF RefreshRows
<1>2. RowsTyped /\ ModesTyped /\ JobsTyped /\ RowsHold /\ InForce /\ RefreshHolds /\ JobsHold /\ CalmJobs
  BY DEF SettingsInv
<1>3. refresh' = [pc |-> "apply", rows |-> refresh.rows]
  BY <1>1, <1>2 DEF RowsTyped
<1>4. RowsTyped'
  <2>1. \A p \in DOMAIN rows' : rows'[p] \in MaybeTorn
    BY <1>1, <1>2 DEF RowsTyped, Range
  <2>2. DOMAIN rows \subseteq DOMAIN rows' /\ Range(rows') \subseteq MaybeTorn
    BY <1>1, <2>1 DEF Range
  <2>3. QED
    BY <1>1, <1>2, <1>3, <2>2 DEF RowsTyped
<1>5. ModesTyped' /\ InForce' /\ JobsTyped'
  BY <1>1, <1>2 DEF ModesTyped, InForce, JobsTyped, JobTyped, Holds, ModeOf, Keys, Config, Env, Writing
<1>6. RowsHold' /\ RefreshHolds' /\ JobsHold'
  BY <1>1, <1>2, <1>3 DEF RowsHold, RefreshHolds, JobsHold, Holds, RowsTyped, Writing
<1>7. CalmJobs'
  BY <1>1, <1>2 DEF CalmJobs, Alone
<1>8. QED
  BY <1>4, <1>5, <1>6, <1>7 DEF SettingsInv

-----------------------------------------------------------------------------
(* Requests                                                                 *)

\* What a request that begins does to the others.
LEMMA JobBegun ==
    ASSUME JobsTyped, NEW j \in Jobs, NEW q, NEW disturbed, JobBegin(j, q, disturbed)
    PROVE  /\ job[j].pc = "idle" /\ DOMAIN job' = Jobs /\ job'[j] = q
           /\ \A i \in Jobs \ {j} : Aside(i) /\ (job'[i].calm => i \notin disturbed)
           /\ UNCHANGED <<envs, phase, rows, known, modes, refresh>>
<1>1. /\ job[j].pc = "idle"
      /\ job' = [i \in Jobs |-> IF i = j THEN q
                               ELSE [job[i] EXCEPT !.calm = @ /\ i \notin disturbed]]
      /\ UNCHANGED <<envs, phase, rows, known, modes, refresh>>
  BY DEF JobBegin, stored
<1>2. ASSUME NEW i \in Jobs \ {j}
      PROVE  Aside(i) /\ (job'[i].calm => i \notin disturbed)
  <2> DEFINE b == job[i].calm /\ i \notin disturbed
  <2>1. job'[i] = [job[i] EXCEPT !.calm = b]
    BY <1>1
  <2>2. b \in BOOLEAN /\ (b => job[i].calm) /\ (b => i \notin disturbed) /\ JobTyped(i)
    BY DEF JobsTyped
  <2> HIDE DEF b
  <2>3. QED
    BY <2>1, <2>2, SetCalm
<1>3. QED
  BY <1>1, <1>2

\* A settings request is alone or not; its port no longer holds anything.
LEMMA SettingsBeginKeeps ==
    ASSUME SettingsInv, NEW j \in Jobs, NEW p \in Keys, NEW mode \in Modes, SettingsBegin(j, p, mode)
    PROVE  SettingsInv'
<1>1. RowsTyped /\ ModesTyped /\ JobsTyped /\ RowsHold /\ InForce /\ RefreshHolds /\ JobsHold /\ CalmJobs
  BY DEF SettingsInv
<1>2. phase = "up" /\ asked' = [asked EXCEPT ![p] = NoMode]
      /\ JobBegin(j, Job("write", p, mode, Alone(j, p)), Jobs)
  BY DEF SettingsBegin
<1>3. Alone(j, p) \in BOOLEAN
  BY DEF Alone
<1>4. /\ job[j].pc = "idle" /\ DOMAIN job' = Jobs
      /\ job'[j] = [pc |-> "write", port |-> p, mode |-> mode, ports |-> <<>>, calm |-> Alone(j, p)]
      /\ \A i \in Jobs \ {j} : Aside(i) /\ ~job'[i].calm
      /\ UNCHANGED <<envs, phase, rows, known, modes, refresh>>
  BY <1>1, <1>2, JobBegun DEF Job
<1>5. DOMAIN asked' = DOMAIN asked
      /\ \A x \in DOMAIN asked : Holds(x)' => x # p /\ Holds(x) /\ asked'[x] = asked[x]
  BY <1>2 DEF Holds
<1>6. UNCHANGED Keys
  BY <1>4 DEF Keys, Config, Env
<1>7. RowsTyped'
  BY <1>1, <1>2, <1>4 DEF RowsTyped, Range
<1>8. ModesTyped' /\ InForce'
  BY <1>1, <1>2, <1>4, <1>5, <1>6 DEF ModesTyped, InForce, ModeOf, Holds
<1>9. JobsTyped'
  <2>1. JobTyped(j)'
    BY <1>2, <1>3, <1>4, <1>6 DEF JobTyped, Writing, MaybeTorn
  <2>2. \A i \in Jobs \ {j} : JobTyped(i)'
    BY <1>1, <1>4, <1>6, AsideTyped DEF JobsTyped
  <2>3. QED
    BY <1>4, <2>1, <2>2 DEF JobsTyped
<1>10. RowsHold' /\ RefreshHolds'
  BY <1>1, <1>4, <1>5 DEF RowsHold, RefreshHolds, Holds
<1>11. JobsHold'
  BY <1>1, <1>4, <1>5 DEF JobsHold, Writing, Aside
<1>12. CalmJobs'
  <2>1. SUFFICES ASSUME Alone(j, p)
                 PROVE  Alone(j, p)'
    BY <1>4 DEF CalmJobs
  <2>2. QED
    BY <1>4, <2>1 DEF Alone, Aside
<1>13. QED
  BY <1>7, <1>8, <1>9, <1>10, <1>11, <1>12 DEF SettingsInv

\* A switch, an unlock or a failover of a port that holds its settings has read them.
LEMMA TouchBeginKeeps ==
    ASSUME SettingsInv, NEW j \in Jobs, NEW p \in Keys, TouchBegin(j, p)
    PROVE  SettingsInv'
<1>1. RowsTyped /\ ModesTyped /\ JobsTyped /\ RowsHold /\ InForce /\ RefreshHolds /\ JobsHold /\ CalmJobs
  BY DEF SettingsInv
<1> DEFINE disturbed == {i \in Jobs : job[i].port = p}
<1>2. PICK mode \in IF modes.ports[p] = Inherit THEN Raced(j, modes.top) ELSE {modes.ports[p]} :
         JobBegin(j, Job("touch", p, mode, FALSE), disturbed)
  BY DEF TouchBegin
<1>3. phase = "up" /\ UNCHANGED asked
  BY DEF TouchBegin
<1>5. /\ job[j].pc = "idle" /\ DOMAIN job' = Jobs
      /\ job'[j] = [pc |-> "touch", port |-> p, mode |-> mode, ports |-> <<>>, calm |-> FALSE]
      /\ \A i \in Jobs \ {j} : Aside(i) /\ (job'[i].calm => i \notin disturbed)
      /\ UNCHANGED <<envs, phase, rows, known, modes, refresh>>
  BY <1>1, <1>2, JobBegun DEF Job
<1>6. UNCHANGED Keys
  BY <1>5 DEF Keys, Config, Env
<1>7. mode \in MaybeTorn
  BY <1>1, <1>2, <1>3 DEF ModesTyped, Raced, Range, MaybeTorn
<1>8. Holds(p) => mode = asked[p]
  <2>1. SUFFICES ASSUME Holds(p)
                 PROVE  mode = asked[p]
    OBVIOUS
  <2>2. ModeOf(p) = asked[p] /\ (p = Default \/ modes.ports[p] # Inherit)
    BY <1>1, <1>3, <2>1 DEF InForce
  <2>3. CASE modes.ports[p] # Inherit
    BY <1>2, <2>2, <2>3 DEF ModeOf
  <2>4. CASE modes.ports[p] = Inherit
    <3>1. \A i \in Jobs : job[i].port = Default => ~Writing(i)
      BY <1>1, <2>1, <2>2, <2>4 DEF JobsHold, Holds
    <3>2. Raced(j, modes.top) = {modes.top}
      BY <3>1 DEF Raced, Writing
    <3>3. QED
      BY <1>2, <2>2, <2>4, <3>2 DEF ModeOf
  <2>5. QED
    BY <2>3, <2>4
<1>9. RowsTyped' /\ RowsHold' /\ RefreshHolds'
  BY <1>1, <1>3, <1>5 DEF RowsTyped, RowsHold, RefreshHolds, Holds
<1>10. ModesTyped' /\ InForce'
  BY <1>1, <1>3, <1>5, <1>6 DEF ModesTyped, InForce, ModeOf, Holds
<1>11. JobsTyped'
  <2>1. JobTyped(j)'
    BY <1>3, <1>5, <1>6, <1>7 DEF JobTyped, Writing
  <2>2. \A i \in Jobs \ {j} : JobTyped(i)'
    BY <1>1, <1>5, <1>6, AsideTyped DEF JobsTyped
  <2>3. QED
    BY <1>5, <2>1, <2>2 DEF JobsTyped
<1>12. JobsHold'
  BY <1>1, <1>3, <1>5, <1>8 DEF JobsHold, Writing, Holds, Aside
<1>13. CalmJobs'
  <2>1. SUFFICES ASSUME NEW i \in Jobs \ {j}, job'[i].calm
                 PROVE  /\ Alone(i, job[i].port)'
                        /\ job[i].pc \in {"resolve", "store"} => rows[job[i].port] = job[i].mode
    BY <1>5 DEF CalmJobs, Aside
  <2>2. /\ Alone(i, job[i].port) /\ job[i].port # p
        /\ job[i].pc \in {"resolve", "store"} => rows[job[i].port] = job[i].mode
    BY <1>1, <1>5, <2>1 DEF CalmJobs, Aside
  <2>3. QED
    BY <1>5, <2>1, <2>2 DEF Alone, Aside
<1>14. QED
  BY <1>9, <1>10, <1>11, <1>12, <1>13 DEF SettingsInv

\* What a step of a request does to the rest.
LEMMA JobStepped ==
    ASSUME JobsTyped, NEW j \in Jobs, NEW from, NEW q, JobStep(j, from, q)
    PROVE  /\ job[j].pc = from /\ DOMAIN job' = Jobs /\ job'[j] = q
           /\ \A i \in Jobs \ {j} : job'[i] = job[i]
           /\ UNCHANGED <<envs, phase, known, refresh>>
BY DEF JobStep, JobsTyped

\* The requests aside keep their types.
LEMMA OthersTyped ==
    ASSUME JobsTyped, NEW j \in Jobs, DOMAIN job' = Jobs, JobTyped(j)',
           \A i \in Jobs \ {j} : job'[i] = job[i],
           UNCHANGED <<envs, phase>>
    PROVE  JobsTyped'
<1>1. UNCHANGED Keys
  BY DEF Keys, Config, Env
<1>2. ASSUME NEW i \in Jobs \ {j}
      PROVE  JobTyped(i)'
  BY <1>1 DEF JobsTyped, JobTyped, Writing
<1>3. QED
  BY <1>2 DEF JobsTyped

\* The row of a port is written with what it is asked to hold, or it holds nothing.
LEMMA RowWritten ==
    ASSUME SettingsInv, NEW p \in Keys, NEW m \in MaybeTorn, phase # "down",
           Holds(p) => m = asked[p], rows' = [rows EXCEPT ![p] = m],
           UNCHANGED <<envs, known, refresh, modes, asked, phase>>
    PROVE  /\ RowsTyped' /\ ModesTyped' /\ RowsHold' /\ InForce' /\ RefreshHolds'
           /\ DOMAIN rows' = DOMAIN rows /\ rows'[p] = m
           /\ \A q \in DOMAIN rows \ {p} : rows'[q] = rows[q]
<1>1. RowsTyped /\ ModesTyped /\ RowsHold /\ InForce /\ RefreshHolds
  BY DEF SettingsInv
<1>2. UNCHANGED Keys /\ p \in DOMAIN rows
  BY <1>1 DEF Keys, Config, Env, ModesTyped
<1>3. DOMAIN rows' = DOMAIN rows /\ rows'[p] = m /\ \A q \in DOMAIN rows \ {p} : rows'[q] = rows[q]
  BY <1>2
<1>4. RowsTyped'
  <2>1. \A q \in DOMAIN rows : rows[q] \in MaybeTorn
    BY <1>1 DEF RowsTyped, Range
  <2>2. Range(rows') \subseteq MaybeTorn
    BY <1>3, <2>1 DEF Range
  <2>3. QED
    BY <1>1, <1>3, <2>2 DEF RowsTyped
<1>5. ModesTyped' /\ InForce'
  BY <1>1, <1>2, <1>3 DEF ModesTyped, InForce, Holds, ModeOf
<1>6. RowsHold' /\ RefreshHolds'
  BY <1>1, <1>3 DEF RowsHold, RefreshHolds, Holds, RowsTyped
<1>7. QED
  BY <1>3, <1>4, <1>5, <1>6

\* UpdatePortRuntimeSettings: only a port that holds nothing is written.
LEMMA SettingsWriteKeeps ==
    ASSUME SettingsInv, NEW j \in Jobs, SettingsWrite(j)
    PROVE  SettingsInv'
<1>1. JobsTyped /\ JobsHold /\ CalmJobs /\ JobTyped(j) /\ RowsTyped /\ ModesTyped
  BY DEF SettingsInv, JobsTyped
<1> DEFINE p == job[j].port
           m == job[j].mode
<1>2. /\ job[j].pc = "write" /\ DOMAIN job' = Jobs /\ job'[j] = [job[j] EXCEPT !.pc = "resolve"]
      /\ \A i \in Jobs \ {j} : job'[i] = job[i]
      /\ UNCHANGED <<envs, phase, known, refresh, modes, asked>>
      /\ rows' = [rows EXCEPT ![p] = m]
  BY <1>1, JobStepped DEF SettingsWrite
<1>3. Writing(j) /\ phase = "up" /\ p \in Keys /\ m \in MaybeTorn
  BY <1>1, <1>2 DEF JobTyped, Writing
<1>4. ~Holds(p)
  BY <1>1, <1>3 DEF JobsHold, Holds
<1>5. /\ RowsTyped' /\ ModesTyped' /\ RowsHold' /\ InForce' /\ RefreshHolds'
      /\ rows'[p] = m /\ \A q \in DOMAIN rows \ {p} : rows'[q] = rows[q]
  BY <1>2, <1>3, <1>4, RowWritten
<1>6. job'[j] = [pc |-> "resolve", port |-> p, mode |-> m, ports |-> job[j].ports,
                 calm |-> job[j].calm]
  BY <1>1, <1>2 DEF JobTyped
<1>7. JobsTyped'
  <2>1. UNCHANGED Keys
    BY <1>2 DEF Keys, Config, Env
  <2>2. JobTyped(j)'
    BY <1>1, <1>2, <1>3, <1>6, <2>1 DEF JobTyped, Writing
  <2>3. QED
    BY <1>1, <1>2, <2>2, OthersTyped
<1>8. JobsHold'
  BY <1>1, <1>2, <1>4, <1>6 DEF JobsHold, Holds, Writing
<1>9. CalmJobs'
  <2>1. ASSUME NEW i \in Jobs, job[i].calm, i # j
        PROVE  FALSE
    <3>1. job[j].pc = "idle" \/ job[j].pc = "touch"
      BY <1>1, <2>1 DEF CalmJobs, Alone
    <3>2. QED
      BY <1>2, <3>1
  <2>2. job[j].calm => Alone(j, p)'
    BY <1>1, <1>2 DEF CalmJobs, Alone
  <2>3. QED
    BY <1>2, <1>5, <1>6, <2>1, <2>2 DEF CalmJobs
<1>10. QED
  BY <1>5, <1>7, <1>8, <1>9 DEF SettingsInv

\* A switch, an unlock or a failover writes what its port holds, if it holds anything.
LEMMA TouchWriteKeeps ==
    ASSUME SettingsInv, NEW j \in Jobs, TouchWrite(j)
    PROVE  SettingsInv'
<1>1. JobsTyped /\ JobsHold /\ CalmJobs /\ JobTyped(j) /\ RowsTyped /\ ModesTyped
  BY DEF SettingsInv, JobsTyped
<1> DEFINE p == job[j].port
           m == job[j].mode
<1>2. /\ job[j].pc = "touch" /\ DOMAIN job' = Jobs /\ job'[j] = IdleJob
      /\ \A i \in Jobs \ {j} : job'[i] = job[i]
      /\ UNCHANGED <<envs, phase, known, refresh, modes, asked>>
      /\ rows' = [rows EXCEPT ![p] = m]
  BY <1>1, JobStepped DEF TouchWrite
<1>3. phase = "up" /\ p \in Keys /\ m \in MaybeTorn
  BY <1>1, <1>2 DEF JobTyped
<1>4. Holds(p) => m = asked[p]
  BY <1>1, <1>2 DEF JobsHold, Holds
<1>5. /\ RowsTyped' /\ ModesTyped' /\ RowsHold' /\ InForce' /\ RefreshHolds'
      /\ \A q \in DOMAIN rows \ {p} : rows'[q] = rows[q]
  BY <1>2, <1>3, <1>4, RowWritten
<1>6. JobsTyped'
  <2>1. JobTyped(j)'
    BY <1>2 DEF JobTyped, IdleJob, Job, Writing
  <2>2. QED
    BY <1>1, <1>2, <2>1, OthersTyped
<1>7. JobsHold'
  BY <1>1, <1>2 DEF JobsHold, Holds, Writing, IdleJob, Job
<1>8. CalmJobs'
  <2>1. SUFFICES ASSUME NEW i \in Jobs \ {j}, job[i].calm
                 PROVE  /\ Alone(i, job[i].port)'
                        /\ job[i].pc \in {"resolve", "store"} => rows'[job[i].port] = job[i].mode
    BY <1>2 DEF CalmJobs, IdleJob, Job
  <2>2. Alone(i, job[i].port) /\ job[i].port # p
    BY <1>1, <1>2, <2>1 DEF CalmJobs, Alone
  <2>3. job[i].port \in DOMAIN rows
    BY <1>1, <1>3, <2>1 DEF JobsTyped, JobTyped, Writing, ModesTyped
  <2>4. Alone(i, job[i].port)'
    BY <1>2, <2>2 DEF Alone, IdleJob, Job
  <2>5. QED
    BY <1>1, <1>5, <2>1, <2>2, <2>3, <2>4 DEF CalmJobs
<1>9. QED
  BY <1>5, <1>6, <1>7, <1>8 DEF SettingsInv

\* A settings request is never calm beside another one.
LEMMA OneIsCalm ==
    ASSUME CalmJobs, NEW j \in Jobs, Writing(j), NEW i \in Jobs \ {j}
    PROVE  ~job[i].calm
BY DEF CalmJobs, Alone, Writing

\* updateConfigPortSettings resolves the modes of the other ports: those that hold
\* something resolve to it.
LEMMA SettingsResolveKeeps ==
    ASSUME SettingsInv, NEW j \in Jobs, SettingsResolve(j)
    PROVE  SettingsInv'
<1>1. RowsTyped /\ ModesTyped /\ JobsTyped /\ RowsHold /\ InForce /\ RefreshHolds /\ JobsHold
      /\ CalmJobs /\ JobTyped(j)
  BY DEF SettingsInv, JobsTyped
<1> DEFINE p == job[j].port
           m == job[j].mode
<1>2. PICK top \in Raced(j, IF p = Default THEN m ELSE modes.top) :
         /\ JobStep(j, "resolve", [job[j] EXCEPT !.pc = "store",
               !.ports = [x \in Keys |-> IF x = p THEN m
                                         ELSE IF modes.ports[x] = Inherit THEN top ELSE modes.ports[x]]])
         /\ modes' = [modes EXCEPT !.top = IF p = Default THEN top ELSE @]
  BY DEF SettingsResolve
<1> DEFINE ports == [x \in Keys |-> IF x = p THEN m
                                    ELSE IF modes.ports[x] = Inherit THEN top ELSE modes.ports[x]]
<1>3. /\ job[j].pc = "resolve" /\ DOMAIN job' = Jobs
      /\ job'[j] = [job[j] EXCEPT !.pc = "store", !.ports = ports]
      /\ \A i \in Jobs \ {j} : job'[i] = job[i]
      /\ UNCHANGED <<envs, phase, known, refresh>>
  BY <1>1, <1>2, JobStepped
<1>4. UNCHANGED <<rows, asked>>
  BY DEF SettingsResolve
<1>5. Writing(j) /\ phase = "up" /\ p \in Keys /\ m \in Modes /\ UNCHANGED Keys
  BY <1>1, <1>3 DEF JobTyped, Writing, Keys, Config, Env
<1>6. job'[j] = [pc |-> "store", port |-> p, mode |-> m, ports |-> ports, calm |-> job[j].calm]
  <2>1. job[j] = [pc |-> job[j].pc, port |-> p, mode |-> m, ports |-> job[j].ports,
                  calm |-> job[j].calm]
    BY <1>1 DEF JobTyped
  <2> HIDE DEF ports
  <2>2. QED
    BY <1>3, <2>1
<1>7. modes' = [top |-> IF p = Default THEN top ELSE modes.top, ports |-> modes.ports]
  BY <1>1, <1>2, <1>5 DEF ModesTyped
<1>8. top \in MaybeTorn
  BY <1>1, <1>2, <1>5 DEF ModesTyped, Raced, MaybeTorn
<1>9. DOMAIN ports = Keys /\ Range(ports) \subseteq MaybeTorn /\ ports[p] = m
  <2>1. \A x \in Keys : modes.ports[x] \in MaybeTorn \cup {Inherit}
    BY <1>1, <1>5 DEF ModesTyped, Range
  <2>2. \A x \in Keys : ports[x] \in MaybeTorn
    BY <1>5, <1>8, <2>1 DEF MaybeTorn
  <2>3. QED
    BY <1>5, <2>2 DEF Range
<1>10. ASSUME NEW x \in Keys, Holds(x)
       PROVE  ports[x] = asked[x] /\ x # p
  <2>1. ModeOf(x) = asked[x] /\ (x = Default \/ modes.ports[x] # Inherit)
    BY <1>1, <1>5, <1>10 DEF InForce
  <2>2. \A i \in Jobs : job[i].port = x => ~Writing(i)
    BY <1>1, <1>10 DEF JobsHold, Holds
  <2>3. x # p
    BY <1>5, <2>2
  <2>4. CASE modes.ports[x] # Inherit
    BY <2>1, <2>3, <2>4 DEF ModeOf
  <2>5. CASE modes.ports[x] = Inherit
    <3>1. x = Default /\ asked[x] = modes.top
      BY <2>1, <2>5 DEF ModeOf
    <3>2. Raced(j, modes.top) = {modes.top}
      BY <2>2, <3>1 DEF Raced, Writing
    <3>3. top = modes.top
      BY <1>2, <2>3, <3>1, <3>2
    <3>4. QED
      BY <2>3, <2>5, <3>1, <3>3
  <2>6. QED
    BY <2>3, <2>4, <2>5
<1> HIDE DEF ports
<1>11. RowsTyped' /\ RowsHold' /\ RefreshHolds'
  BY <1>1, <1>3, <1>4 DEF RowsTyped, RowsHold, RefreshHolds, Holds
<1>12. ModesTyped'
  BY <1>1, <1>3, <1>4, <1>5, <1>7, <1>8 DEF ModesTyped
<1>13. InForce'
  <2>1. SUFFICES ASSUME NEW x \in Keys, Holds(x)
                 PROVE  ModeOf(x)' = asked[x] /\ (x = Default \/ modes.ports[x] # Inherit)
    BY <1>4, <1>5, <1>7 DEF InForce, Holds
  <2>2. ModeOf(x) = asked[x] /\ (x = Default \/ modes.ports[x] # Inherit) /\ x # p
    BY <1>1, <1>5, <1>10, <2>1 DEF InForce
  <2>3. QED
    BY <1>7, <2>2 DEF ModeOf
<1>14. JobsTyped'
  <2>1. JobTyped(j)'
    BY <1>1, <1>3, <1>5, <1>6, <1>9 DEF JobTyped, Writing, MaybeTorn
  <2>2. QED
    BY <1>1, <1>3, <2>1, OthersTyped
<1>15. JobsHold'
  <2>1. DOMAIN asked = Keys
    BY <1>1, <1>5 DEF ModesTyped
  <2>2. job'[j].pc = "store" /\ job'[j].port = p /\ job'[j].ports = ports
    BY <1>6
  <2>3. SUFFICES ASSUME NEW i \in Jobs, NEW x \in Keys, Holds(x)
                 PROVE  /\ job'[i].port = x => ~Writing(i)'
                        /\ job'[i].port = x /\ job'[i].pc = "touch" => job'[i].mode = asked[x]
                        /\ job'[i].pc = "store" => job'[i].ports[x] = asked[x]
    BY <1>4, <2>1 DEF JobsHold, Holds
  <2>4. CASE i = j
    BY <1>10, <2>2, <2>3, <2>4
  <2>5. CASE i # j
    BY <1>1, <1>3, <2>1, <2>3, <2>5 DEF JobsHold, Writing
  <2>6. QED
    BY <2>4, <2>5
<1>16. CalmJobs'
  <2>1. job[j].calm => Alone(j, p)' /\ rows[p] = m
    BY <1>1, <1>3 DEF CalmJobs, Alone
  <2>2. job'[j].calm = job[j].calm /\ job'[j].port = p /\ job'[j].mode = m
    BY <1>6
  <2>3. \A i \in Jobs \ {j} : ~job'[i].calm
    BY <1>1, <1>3, <1>5, OneIsCalm
  <2>4. QED
    BY <1>4, <2>1, <2>2, <2>3 DEF CalmJobs
<1>17. QED
  BY <1>11, <1>12, <1>13, <1>14, <1>15, <1>16 DEF SettingsInv

\* a.Config takes over what was resolved; a request nothing has overlapped makes its
\* port hold its mode.
LEMMA SettingsStoreKeeps ==
    ASSUME SettingsInv, NEW j \in Jobs, SettingsStore(j)
    PROVE  SettingsInv'
<1>1. RowsTyped /\ ModesTyped /\ JobsTyped /\ RowsHold /\ InForce /\ RefreshHolds /\ JobsHold
      /\ CalmJobs /\ JobTyped(j)
  BY DEF SettingsInv, JobsTyped
<1> DEFINE p == job[j].port
           m == job[j].mode
           ports == job[j].ports
<1>2. /\ job[j].pc = "store" /\ DOMAIN job' = Jobs /\ job'[j] = IdleJob
      /\ \A i \in Jobs \ {j} : job'[i] = job[i]
      /\ UNCHANGED <<envs, phase, known, refresh, rows>>
      /\ modes' = [modes EXCEPT !.ports = ports]
      /\ asked' = [asked EXCEPT ![p] = IF job[j].calm THEN m ELSE NoMode]
  BY <1>1, JobStepped DEF SettingsStore
<1>3. /\ Writing(j) /\ phase = "up" /\ p \in Keys /\ m \in Modes /\ UNCHANGED Keys
      /\ DOMAIN ports = Keys /\ Range(ports) \subseteq MaybeTorn /\ ports[p] = m
      /\ DOMAIN asked = Keys
  BY <1>1, <1>2 DEF JobTyped, ModesTyped, Writing, Keys, Config, Env
<1>4. modes' = [top |-> modes.top, ports |-> ports]
  BY <1>1, <1>2, <1>3 DEF ModesTyped
<1>5. job[j].calm => Alone(j, p) /\ rows[p] = m
  BY <1>1, <1>2 DEF CalmJobs
<1>6. DOMAIN asked' = Keys
      /\ \A x \in Keys : Holds(x)' => /\ x = p => job[j].calm /\ asked'[x] = m
                                      /\ x # p => Holds(x) /\ asked'[x] = asked[x]
  BY <1>2, <1>3 DEF Holds
<1>7. RowsTyped'
  <2>1. \A x \in Keys : asked'[x] \in Modes \cup {NoMode}
    BY <1>1, <1>2, <1>3 DEF RowsTyped, Range
  <2>2. Range(asked') \subseteq Modes \cup {NoMode}
    BY <1>6, <2>1 DEF Range
  <2>3. QED
    BY <1>1, <1>2, <1>3, <1>6, <2>2 DEF RowsTyped
<1>8. ModesTyped'
  BY <1>1, <1>2, <1>3, <1>4, <1>6 DEF ModesTyped
<1>9. RowsHold' /\ RefreshHolds'
  <2>1. ASSUME NEW x \in Keys, Holds(x)'
        PROVE  rows[x] = asked'[x]
    BY <1>1, <1>3, <1>5, <1>6, <2>1 DEF RowsHold
  <2>2. ASSUME NEW x \in Keys, Holds(x)', refresh.pc # "idle", x \in DOMAIN refresh.rows
        PROVE  refresh.rows[x] = asked'[x]
    BY <1>1, <1>3, <1>5, <1>6, <2>2 DEF RefreshHolds, Alone
  <2>3. \A x : Holds(x)' => x \in Keys
    BY <1>6 DEF Holds
  <2>4. QED
    BY <1>2, <1>6, <2>1, <2>2, <2>3 DEF RowsHold, RefreshHolds
<1>10. InForce'
  <2>1. SUFFICES ASSUME NEW x \in Keys, Holds(x)'
                 PROVE  ports[x] = asked'[x] /\ ports[x] # Inherit
    BY <1>3, <1>4, <1>6 DEF InForce, ModeOf
  <2>2. CASE x = p
    BY <1>3, <1>6, <2>1, <2>2 DEF Modes, Inherit
  <2>3. CASE x # p
    <3>1. Holds(x) /\ asked'[x] = asked[x] /\ ports[x] = asked[x]
      BY <1>1, <1>2, <1>3, <1>6, <2>1, <2>3 DEF JobsHold
    <3>2. asked[x] \in Modes
      BY <1>1, <1>3, <3>1 DEF RowsTyped, Range, Holds
    <3>3. QED
      BY <3>1, <3>2 DEF Modes, Inherit
  <2>4. QED
    BY <2>2, <2>3
<1>11. JobsTyped'
  <2>1. JobTyped(j)'
    BY <1>2 DEF JobTyped, IdleJob, Job, Writing
  <2>2. QED
    BY <1>1, <1>2, <2>1, OthersTyped
<1>12. JobsHold'
  <2>1. SUFFICES ASSUME NEW i \in Jobs \ {j}, NEW x \in Keys, Holds(x)'
                 PROVE  /\ job[i].port = x => ~Writing(i)
                        /\ job[i].port = x /\ job[i].pc = "touch" => job[i].mode = asked'[x]
                        /\ job[i].pc = "store" => job[i].ports[x] = asked'[x]
    BY <1>2, <1>6 DEF JobsHold, Writing, IdleJob, Job
  <2>2. CASE x = p
    BY <1>5, <1>6, <2>1, <2>2 DEF Alone, Writing
  <2>3. CASE x # p
    BY <1>1, <1>3, <1>6, <2>1, <2>3 DEF JobsHold
  <2>4. QED
    BY <2>2, <2>3
<1>13. CalmJobs'
  BY <1>1, <1>2, <1>3, OneIsCalm DEF CalmJobs, IdleJob, Job
<1>14. QED
  BY <1>7, <1>8, <1>9, <1>10, <1>11, <1>12, <1>13 DEF SettingsInv

-----------------------------------------------------------------------------
(* The theorems                                                             *)

LEMMA SettingsStep == ListenInv /\ SettingsInv /\ [Next]_vars => SettingsInv'
<1> SUFFICES ASSUME ListenInv, SettingsInv, [Next]_vars PROVE SettingsInv'
  OBVIOUS
<1>1. CASE Start
  BY <1>1, StartKeeps
<1>2. CASE RefreshBegin
  BY <1>2, RefreshBeginKeeps
<1>3. CASE RefreshRows
  BY <1>3, RefreshRowsKeeps
<1>4. CASE Crash
  BY <1>4, CrashStep
<1>5. CASE Edit
  BY <1>5, EditStep
<1>6. CASE \/ StartRefused \/ (\E body : RefreshFetch(body)) \/ RefreshApply \/ RefreshLanes
           \/ HealthCheck \/ StoredApply \/ Listen \/ UNCHANGED vars
  BY <1>6, ProgressStep
<1>7. ASSUME NEW j \in Jobs, NEW p \in Keys,
             TouchBegin(j, p) \/ \E mode \in Modes : SettingsBegin(j, p, mode)
      PROVE  SettingsInv'
  BY <1>7, TouchBeginKeeps, SettingsBeginKeeps
<1>8. ASSUME NEW j \in Jobs, JobEnds(j) PROVE SettingsInv'
  BY <1>8, SettingsWriteKeeps, SettingsResolveKeeps, SettingsStoreKeeps, TouchWriteKeeps DEF JobEnds
<1>9. QED
  BY <1>1, <1>2, <1>3, <1>4, <1>5, <1>6, <1>7, <1>8 DEF Next, StartStep, RefreshStep

\* What the program can say about where it is.
TagsTyped ==
    /\ phase \in {"down", "boot", "stored", "listen", "up"}
    /\ refused \in {"", "config", "fetch", "check", "bind"}
    /\ box \in {"off", "serving", "dead"}

LEMMA TagsInit == Init => TagsTyped
BY DEF Init, TagsTyped

LEMMA TagsStep == TagsTyped /\ [Next]_vars => TagsTyped'
<1> SUFFICES ASSUME TagsTyped, [Next]_vars PROVE TagsTyped'
  OBVIOUS
<1> USE DEF TagsTyped
<1>1. CASE StartRefused \/ Start \/ RefreshBegin \/ HealthCheck \/ Crash \/ Edit
  BY <1>1 DEF StartRefused, Start, RefreshBegin, HealthCheck, Crash, Edit
<1>2. CASE (\E body : RefreshFetch(body)) \/ RefreshRows \/ RefreshApply \/ RefreshLanes
  BY <1>2 DEF RefreshFetch, RefreshRows, RefreshApply, RefreshLanes, GiveUp, Launched
<1>3. CASE StoredApply \/ Listen
  BY <1>3 DEF StoredApply, Listen, Launched
<1>4. CASE \E j \in Jobs : JobEnds(j) \/ \E p \in Keys :
              TouchBegin(j, p) \/ \E mode \in Modes : SettingsBegin(j, p, mode)
  BY <1>4 DEF JobEnds, SettingsWrite, SettingsResolve, SettingsStore, TouchWrite, JobStep,
     TouchBegin, SettingsBegin, JobBegin
<1>5. CASE UNCHANGED vars
  BY <1>5 DEF vars
<1>6. QED
  BY <1>1, <1>2, <1>3, <1>4, <1>5 DEF Next, StartStep, RefreshStep

\* The inductive invariant holds: of what listens, and of the settings.
THEOREM Invariance == Spec => [](ListenInv /\ SettingsInv /\ TagsTyped)
BY ListenInit, ListenStep, SettingsInit, SettingsStep, TagsInit, TagsStep, PTL DEF Spec

\* The type invariant: tables, a.Config and the state of New, for any configurations.
THEOREM TypeCorrect == Spec => []TypeOK
<1>1. SettingsInv /\ TagsTyped => TypeOK
  BY DEF SettingsInv, TagsTyped, RowsTyped, ModesTyped, TypeOK, MaybeTorn
<1>2. QED
  BY <1>1, Invariance, PTL

\* Settings acknowledged undisturbed stay in the row of their port and in force
\* (UpdateRuntimeSettingsByPort), whatever switches, failovers, refreshes, other ports'
\* settings and restarts follow, for any number of ports and requests.
THEOREM SettingsStay == Spec => []SettingsInForce
<1>1. SettingsInv => SettingsInForce
  BY DEF SettingsInv, RowsHold, InForce, ModesTyped, SettingsInForce, Holds
<1>2. QED
  BY <1>1, Invariance, PTL
=============================================================================
