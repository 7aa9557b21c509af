---------------------------- MODULE ListenBindings ----------------------------
(***************************************************************************)
(* Where a configuration makes the program listen: what Config.Validate    *)
(* compares (internal/config/config.go) and what is opened in the end, the *)
(* inbounds of the generated sing-box configuration (buildRuntimePorts in  *)
(* internal/app/app.go, BuildConfig in internal/runtime/builder.go) and    *)
(* the listeners of the program itself.  The two are computed apart: the   *)
(* lanes Validate sees are those configured, the lanes sing-box gets are   *)
(* the rows of request_lane_state, whose keys are always the same two.     *)
(*                                                                         *)
(* A configuration is a record [mode, admin, health, http, socks,          *)
(* dispatcher, ports]; a binding is [addr, port].                          *)
(***************************************************************************)
EXTENDS Naturals, Sequences, Functions

Default == "default"
Modes == {"single_active", "pool"}  \* each with the algorithm that goes with it
Inherit == ""                       \* a mode or an address that is not given

Binding(addr, port) == [addr |-> addr, port |-> port]
Above(at, offset) == Binding(at.addr, at.port + offset)

Lane(key, protocol, at) == [key |-> key, protocol |-> protocol, at |-> at]

\* The lanes buildLaneStates keeps for every port, by key and protocol.
KeptLanes == {<<"lane-http-1", "http">>, <<"lane-socks-1", "socks">>}

Listener(owner, key, protocol, lane, at) ==
    [owner |-> owner, key |-> key, protocol |-> protocol, lane |-> lane, at |-> at]

-----------------------------------------------------------------------------
(* Config.ResolvedPorts                                                     *)

Base(p, protocol) == IF protocol = "socks" THEN p.socks ELSE p.http

\* normalizeLanes: the lanes that are configured, or one for each protocol.
NormalLanes(p) ==
    IF p.lanes = <<>>
    THEN <<Lane("lane-http-1", "http", Above(p.http, 1001)),
           Lane("lane-socks-1", "socks", Above(p.socks, 1001))>>
    ELSE [k \in DOMAIN p.lanes |->
            [p.lanes[k] EXCEPT
                !.at.addr = IF @ = Inherit THEN Base(p, p.lanes[k].protocol).addr ELSE @]]

\* normalizePort: what a port does not give comes from the top level.
NormalPort(c, p) ==
    LET given(at, top) == Binding(IF at.addr = Inherit THEN top.addr ELSE at.addr,
                                  IF at.port = 0 THEN top.port ELSE at.port)
        q == [p EXCEPT !.http = given(@, c.http), !.socks = given(@, c.socks),
                       !.mode = IF @ = Inherit THEN c.mode ELSE @]
    IN  [q EXCEPT !.lanes = NormalLanes(q)]

ResolvedPorts(c) ==
    IF c.ports = <<>>
    THEN <<NormalPort(c, [key |-> Default, http |-> c.http, socks |-> c.socks,
                          mode |-> Inherit, lanes |-> <<>>])>>
    ELSE [k \in DOMAIN c.ports |-> NormalPort(c, c.ports[k])]

PortKeys(c) == {p.key : p \in Range(ResolvedPorts(c))}

-----------------------------------------------------------------------------
(* Config.Validate                                                          *)

\* What the program itself listens on.
OwnListeners(c) ==
    {Listener("admin", "", "http", "", c.admin)} \cup
    IF c.dispatcher.on
    THEN {Listener("dispatcher", "", "http", "", c.dispatcher.http),
          Listener("dispatcher", "", "socks", "", c.dispatcher.socks)}
    ELSE {}

HealthListener(c) == Listener("health", "", "http", "", c.health)

PortListeners(p) ==
    {Listener("port", p.key, "http", "", p.http), Listener("port", p.key, "socks", "", p.socks)}

LaneListeners(p) ==
    {Listener("lane", p.key, lane.protocol, lane.key, lane.at) : lane \in Range(p.lanes)}

\* A plausible bug: the lanes are left out of the comparison.
CheckedWithoutLanes(c) ==
    OwnListeners(c) \cup {HealthListener(c)}
        \cup UNION {PortListeners(p) : p \in Range(ResolvedPorts(c))}

\* Everything that is handed to ensureUniqueBinding.
CheckedListeners(c) ==
    OwnListeners(c) \cup {HealthListener(c)}
        \cup UNION {PortListeners(p) \cup LaneListeners(p) : p \in Range(ResolvedPorts(c))}

\* ensureUniqueBinding compares addresses and ports as text.
UniqueBindings(listeners) == \A l, m \in listeners : l.at = m.at => l = m

Validate(c) ==
    LET ports == ResolvedPorts(c)
    IN  /\ c.mode \in Modes /\ \A p \in Range(ports) : p.mode \in Modes
        /\ c.http.port > 0 /\ c.socks.port > 0
        /\ \A l \in CheckedListeners(c) : l.at.port > 0
        /\ \A j, k \in DOMAIN ports : ports[j].key = ports[k].key => j = k
        /\ \A p \in Range(ports) : \A j, k \in DOMAIN p.lanes :
              /\ p.lanes[j].protocol \in {"http", "socks"}
              /\ p.lanes[j].key = p.lanes[k].key /\ p.lanes[j].protocol = p.lanes[k].protocol
                    => j = k
        /\ \E p \in Range(ports) : p.key = Default
        /\ UniqueBindings(CheckedListeners(c))

-----------------------------------------------------------------------------
(* What sing-box listens on                                                 *)

\* laneListenAddr and laneListenPort, for a lane whose key ends in "-1".
LaneAt(p, key, protocol) ==
    LET own == {lane \in Range(p.lanes) : lane.key = key /\ lane.protocol = protocol}
    IN  IF own # {} THEN (CHOOSE lane \in own : TRUE).at ELSE Above(Base(p, protocol), 1001)

ClashAPI == Listener("clash", "", "http", "", Binding("127.0.0.1", 9090))

\* The inbounds and the Clash API; ports in known have rows in request_lane_state.
Inbounds(c, known) ==
    {HealthListener(c), ClashAPI}
        \cup (UNION {PortListeners(p) : p \in Range(ResolvedPorts(c))})
        \cup {Listener("lane", p.key, lane[2], lane[1], LaneAt(p, lane[1], lane[2])) :
                p \in {q \in Range(ResolvedPorts(c)) : q.key \in known}, lane \in KeptLanes}

HasPort(l) == l.at.port \in 1..65535
SamePort(l, m) == l.at.port = m.at.port

\* The operating system gives a port to one listener at an address, and "0.0.0.0"
\* is every address.
Conflict(l, m) ==
    SamePort(l, m) /\ (l.at.addr = m.at.addr \/ "0.0.0.0" \in {l.at.addr, m.at.addr})

\* All of these can listen at once.
Openable(listeners) ==
    /\ \A l \in listeners : HasPort(l)
    /\ \A l, m \in listeners : Conflict(l, m) => l = m

\* Configurations without what Validate does not look at: ports are port numbers,
\* none of them the Clash API's, one number is at one address, and the lanes of a
\* port are the two that are kept.
Plain(c) ==
    LET checked == CheckedListeners(c)
    IN  /\ \A l \in checked : HasPort(l) /\ ~SamePort(l, ClashAPI)
        /\ \A l, m \in checked : SamePort(l, m) => l.at = m.at
        /\ \A p \in Range(ResolvedPorts(c)) :
              {<<lane.key, lane.protocol>> : lane \in Range(p.lanes)} = KeptLanes
=============================================================================
