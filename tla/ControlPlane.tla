----------------------------- MODULE ControlPlane -----------------------------
(***************************************************************************)
(* The registry and the three activities that read and write it without a  *)
(* lock of their own (internal/app/app.go, internal/storage/sqlite):       *)
(*   - RefreshSubscription, serialised by refreshMu, which replaces all    *)
(*     nodes and reloads sing-box;                                         *)
(*   - runHealthCheck, which probes, fails over and re-assigns lanes;      *)
(*   - the administrator's switch, unlock, disable and enable.             *)
(* A refresh asked for over the API overlaps a scheduled health check, and *)
(* the administrator's requests overlap both.  One call to the repository, *)
(* the Clash API or the sing-box process is one step; what a call returned *)
(* is kept in the caller's record until it is used.                        *)
(*                                                                         *)
(* The program may end at any point, between any two of these calls, and   *)
(* is started again: the tables are all that is left, and New either       *)
(* refreshes (SUBSCRIPTION_URL is set) or applies the stored nodes.  If    *)
(* that fails New fails, and the program has to be started once more.      *)
(*                                                                         *)
(* Ports are single_active here; which healthy node is chosen is the       *)
(* subject of PortFailover, and how sing-box is stopped and started that   *)
(* of SingBoxProcess.                                                      *)
(***************************************************************************)
EXTENDS NodeSelection, Sequences, SequencesExt

CONSTANTS
    Keys,        \* source keys a subscription may contain
    NoKey,       \* stands for "no such key"
    Ports,       \* configured ports
    Default,     \* the "default" port, mirrored in node_runtime_status
    Budgets      \* how many refreshes, health checks, administrator's requests and
                 \* restarts a behaviour may have: bounds, for TLC only

ASSUME KeysAssumption == Keys # {} /\ IsFiniteSet(Keys) /\ NoKey \notin Keys
ASSUME PortsAssumption == Default \in Ports
ASSUME BudgetsAssumption == Budgets \subseteq [refresh : Nat, health : Nat, admin : Nat, restart : Nat]

VARIABLES
    nodes,     \* table nodes: source_key by id
    nextId,    \* its AUTOINCREMENT
    status,    \* table node_runtime_status: [state, disabled] by node id
    portNode,  \* table port_node_state: manual_disabled by port and node id
    row,       \* table port_runtime_state: [active, mode] by port
    lanes,     \* table request_lane_state: assigned_node_id (or 0) by port and lane
    laned,     \* the ports that have rows in it
    running,   \* sing-box is up
    tags,      \* the nodes it has an outbound for
    sel,       \* the node each port's http selector points at, 0 when it is down
    laneSel,   \* the node each lane's selector points at, 0 without such an inbound
    r, h, a,   \* a refresh, a health check, an administrator's request
    asked,     \* not in the code: the keys the administrator has disabled per port
    given,     \* not in the code: every id ever given out, with the key it was given for
    left       \* not in the code: how many of each may still begin

db   == <<nodes, nextId, status, portNode, row, lanes, laned>>
box  == <<running, tags, sel, laneSel>>
vars == <<db, box, r, h, a, asked, given, left>>

\* What a subscription may serve: a list of nodes, no two with one key.
Lists == SetToAllKPermutations(Keys) \ {<<>>}
Lanes == {"lane-http-1", "lane-socks-1"}
NoNode == 0

KeysOf(ids) == {nodes[n] : n \in ids \cap DOMAIN nodes}
KeyOf(id) == IF id \in DOMAIN nodes THEN nodes[id] ELSE NoKey
IdOf(key) == IF \E n \in DOMAIN nodes : nodes[n] = key
             THEN CHOOSE n \in DOMAIN nodes : nodes[n] = key
             ELSE NoNode

\* ListNodeRuntimeStatusesByPort: the port's own flag or, for a node it has no row
\* for, the global one, which is what the default port has.
View(p) ==
    [n \in DOMAIN status |->
        [state |-> status[n].state,
         disabled |-> IF n \in DOMAIN portNode[p] THEN portNode[p][n]
                      ELSE status[n].disabled]]

DisabledIn(p) == {n \in DOMAIN nodes \cap DOMAIN status : View(p)[n].disabled}

\* ClashAPI.SwitchSelector is answered, and with success: sing-box is up and has an
\* outbound for the node.
SelectorTakes(n) == running /\ n \in tags

\* An upsert: the row of id n becomes value.
Upsert(table, n, value) == [m \in DOMAIN table \cup {n} |-> IF m = n THEN value ELSE table[m]]

\* UpdatePortRuntimeState writes the whole row of the port.
PutRow(p, value) == row' = [row EXCEPT ![p] = value]

\* UpsertRequestLaneState for each of the port's lanes.
PutLanes(p, assigned) ==
    /\ lanes' = [lanes EXCEPT ![p] = assigned]
    /\ laned' = laned \cup {p}

NoLanes == [l \in Lanes |-> NoNode]
NoRows == [n \in {} |-> FALSE]

IdleRefresh ==
    [pc |-> "idle", kind |-> "api", todo |-> {}, port |-> Default, calm |-> FALSE,
     want |-> [p \in Ports |-> [key |-> NoKey, mode |-> "auto", off |-> {},
                               laned |-> FALSE, lanes |-> [l \in Lanes |-> NoKey]]],
     plan |-> [p \in Ports |-> [sel |-> NoNode, lanes |-> NoLanes]],
     lanes |-> NoLanes]
IdleHealth ==
    [pc |-> "idle", todo |-> {}, port |-> Default, calm |-> FALSE, seen |-> <<>>,
     row |-> [active |-> NoNode, mode |-> "auto"], next |-> NoNode, lanes |-> NoLanes]
IdleAdmin ==
    [pc |-> "idle", op |-> "none", port |-> Default, node |-> NoNode, active |-> NoNode]

\* The tables as syncConfiguredPorts leaves them at a start when the ports in fresh
\* are new in PORTS_JSON, or stand for new ports in the place of old ones: each has
\* got a copy of the default port's row, and no row of any other table.
Relisted(table, fresh, value) == [p \in Ports |-> IF p \in fresh THEN value ELSE table[p]]

\* The state a start leaves behind: every key is a node, the first one is active,
\* every lane has one; sing-box has lane inbounds unless this is the first start.  If
\* it was a later one, over stored nodes, it may have found some ports newly listed.
Init ==
    /\ \E list \in SetToSeqs(Keys) : nodes = list
    /\ nextId = Cardinality(Keys) + 1
    /\ status = [n \in 1..Cardinality(Keys) |-> [state |-> "active", disabled |-> FALSE]]
    /\ row = [p \in Ports |-> [active |-> 1, mode |-> "auto"]]
    /\ \E fresh \in SUBSET (Ports \ {Default}) :
          /\ portNode = [p \in Ports |-> IF p \in fresh THEN NoRows
                                         ELSE [n \in 1..Cardinality(Keys) |-> FALSE]]
          /\ laned = Ports \ fresh
          /\ lanes = [p \in Ports |-> IF p \in fresh THEN NoLanes ELSE [l \in Lanes |->
                          IF l = "lane-http-1" \/ Cardinality(Keys) = 1 THEN 1 ELSE 2]]
          /\ \/ laneSel = lanes
             \/ fresh = {} /\ laneSel = [p \in Ports |-> NoLanes]
    /\ running = TRUE
    /\ tags = 1..Cardinality(Keys)
    /\ sel = [p \in Ports |-> 1]
    /\ r = IdleRefresh
    /\ h = IdleHealth
    /\ a = IdleAdmin
    /\ asked = [p \in Ports |-> {}]
    /\ given = {<<n, nodes[n]>> : n \in DOMAIN nodes}
    /\ left \in Budgets

-----------------------------------------------------------------------------
(* Lanes: buildLaneStates.  A lane keeps a healthy node; the others take,   *)
(* in turn, the first healthy node no lane uses, or the first healthy one.  *)

\* A plausible bug: a lane keeps its node whatever became of it.
AssignedKeepingDead(p) ==
    LET healthy == Eligible(View(p))
        pick(taken) == IF healthy \ taken # {} THEN Least(healthy \ taken)
                       ELSE IF healthy # {} THEN Least(healthy) ELSE NoNode
        http == IF lanes[p]["lane-http-1"] # NoNode THEN lanes[p]["lane-http-1"]
                ELSE pick({lanes[p]["lane-socks-1"]})
        socks == IF lanes[p]["lane-socks-1"] # NoNode THEN lanes[p]["lane-socks-1"]
                 ELSE pick({http})
    IN  [l \in Lanes |-> IF l = "lane-http-1" THEN http ELSE socks]

Assigned(p) ==
    LET healthy == Eligible(View(p))
        kept(l) == IF lanes[p][l] \in healthy THEN lanes[p][l] ELSE NoNode
        pick(taken) == IF healthy \ taken # {} THEN Least(healthy \ taken)
                       ELSE IF healthy # {} THEN Least(healthy) ELSE NoNode
        http == IF kept("lane-http-1") # NoNode THEN kept("lane-http-1")
                ELSE pick({kept("lane-socks-1")})
        socks == IF kept("lane-socks-1") # NoNode THEN kept("lane-socks-1")
                 ELSE pick({http})
    IN  [l \in Lanes |-> IF l = "lane-http-1" THEN http ELSE socks]

-----------------------------------------------------------------------------
(* RefreshSubscription                                                      *)

\* New has returned: requests are answered and the scheduler runs.  r.kind is
\* "boot" or "stored" while New refreshes or applies the stored nodes.
Serving == r.kind = "api"

\* A refresh or a stored start that fails: a request is over, New fails and the
\* program ends with it.
GivenUp == IF Serving THEN IdleRefresh ELSE [IdleRefresh EXCEPT !.pc = "down", !.kind = r.kind]

\* ListNodes and ListPortRuntimeStates, when the ports have these rows.
Begun(kind, rows) ==
    [IdleRefresh EXCEPT
        !.pc = "read", !.kind = kind, !.todo = Ports, !.calm = TRUE,
        !.want = [p \in Ports |-> [key |-> KeyOf(rows[p].active), mode |-> rows[p].mode,
                                  off |-> {}, laned |-> FALSE,
                                  lanes |-> [l \in Lanes |-> NoKey]]]]

RefreshBegin ==
    /\ r.pc = "idle"
    /\ left.refresh > 0
    /\ left' = [left EXCEPT !.refresh = @ - 1]
    /\ r' = Begun("api", row)
    /\ UNCHANGED <<db, box, asked, given>>

\* What the port has disabled, and the keys its lanes, if it has any yet, are
\* assigned to.
RefreshReadPort(p) ==
    /\ r.pc = "read" /\ p \in r.todo
    /\ r' = [r EXCEPT !.todo = @ \ {p},
                      !.want[p].off = KeysOf(DisabledIn(p)),
                      !.want[p].laned = p \in laned,
                      !.want[p].lanes = [l \in Lanes |-> KeyOf(lanes[p][l])]]
    /\ UNCHANGED <<db, box, asked, given, left>>

\* The download or the parsing fails, there are no nodes, or the transaction
\* that replaces the nodes is rolled back.
RefreshFetchFails ==
    /\ r.pc = "read" /\ r.todo = {}
    /\ r' = GivenUp
    /\ UNCHANGED <<db, box, asked, given, left>>

\* A plausible bug: without AUTOINCREMENT ids restart in the emptied table.
NewIdsRestarting(list) == 1..Len(list)

NewIds(list) == nextId..(nextId + Len(list) - 1)

\* ReplaceNodesForSubscription, one transaction: the rows of the current nodes
\* go (those of ids that are no longer nodes stay), the fetched list comes in,
\* and every port gets a row for each of its nodes.
RefreshReplaceNodes(list) ==
    LET new == NewIds(list)
    IN  /\ r.pc = "read" /\ r.todo = {}
        /\ nodes' = [n \in new |-> list[n - Least(new) + 1]]
        /\ nextId' = nextId + Len(list)
        /\ status' = [n \in (DOMAIN status \ DOMAIN nodes) \cup new |->
                        IF n \in new THEN [state |-> "active", disabled |-> FALSE]
                        ELSE status[n]]
        /\ portNode' = [p \in Ports |->
                          [n \in (DOMAIN portNode[p] \ DOMAIN nodes) \cup new |->
                              IF n \in new THEN FALSE ELSE portNode[p][n]]]
        /\ row' = [row EXCEPT ![Default] = [active |-> Least(new), mode |-> "auto"]]
        /\ r' = [r EXCEPT !.pc = "row", !.todo = Ports]
        /\ asked' = [p \in Ports |-> asked[p] \cap Range(list)]
        /\ given' = given \cup {<<n, nodes'[n]>> : n \in new}
        /\ UNCHANGED <<lanes, laned, box, left>>

\* A plausible bug: the lock is not carried over.
RefreshPortRowUnlocking(p) ==
    LET kept == IdOf(r.want[p].key)
    IN  /\ r.pc = "row" /\ p \in r.todo
        /\ PutRow(p, [active |-> IF kept # NoNode THEN kept ELSE Least(DOMAIN nodes),
                      mode |-> "auto"])
        /\ r' = [r EXCEPT !.pc = "disable", !.port = p]
        /\ UNCHANGED <<nodes, nextId, status, portNode, lanes, laned, box, asked, given, left>>

\* The port row as read, with the node its key has become; a port whose active
\* key is gone falls back to the first node and to "auto".
RefreshPortRow(p) ==
    LET kept == IdOf(r.want[p].key)
    IN  /\ r.pc = "row" /\ p \in r.todo
        /\ PutRow(p, IF kept # NoNode THEN [active |-> kept, mode |-> r.want[p].mode]
                     ELSE [active |-> Least(DOMAIN nodes), mode |-> "auto"])
        /\ r' = [r EXCEPT !.pc = "disable", !.port = p]
        /\ UNCHANGED <<nodes, nextId, status, portNode, lanes, laned, box, asked, given, left>>

\* SetPortNodeManualDisabled(TRUE) for each key that was disabled; it may fail
\* after some of them.
RefreshDisables ==
    LET p == r.port
        all == {IdOf(key) : key \in r.want[p].off} \ {NoNode}
    IN  /\ r.pc = "disable"
        /\ \E done \in SUBSET all :
              /\ portNode' = [portNode EXCEPT ![p] =
                    [n \in DOMAIN portNode[p] \cup done |-> n \in done \/ portNode[p][n]]]
              /\ status' = [n \in DOMAIN status |->
                    [status[n] EXCEPT !.disabled = @ \/ (p = Default /\ n \in done)]]
              /\ r' = IF done = all THEN [r EXCEPT !.pc = "lanes"] ELSE GivenUp
        /\ UNCHANGED <<nodes, nextId, row, lanes, laned, box, asked, given, left>>

\* A plausible bug: a lane whose node was unknown already is left as it is.
RefreshLanesSkipping ==
    LET p == r.port
        moved == {l \in Lanes : r.want[p].lanes[l] # NoKey}
    IN  /\ r.pc = "lanes"
        /\ lanes' = [lanes EXCEPT ![p] = [l \in Lanes |->
              IF l \in moved THEN IdOf(r.want[p].lanes[l]) ELSE lanes[p][l]]]
        /\ r' = [r EXCEPT !.pc = IF r.todo = {p} THEN "build" ELSE "row", !.todo = @ \ {p}]
        /\ UNCHANGED <<nodes, nextId, status, portNode, row, laned, box, asked, given, left>>

\* UpsertRequestLaneState for each lane that was read; it may fail in between.
RefreshLanes ==
    LET p == r.port
        read == IF r.want[p].laned THEN Lanes ELSE {}
    IN  /\ r.pc = "lanes"
        /\ \E done \in SUBSET read :
              /\ lanes' = [lanes EXCEPT ![p] = [l \in Lanes |->
                    IF l \in done THEN IdOf(r.want[p].lanes[l]) ELSE lanes[p][l]]]
              /\ r' = IF done # read THEN GivenUp
                      ELSE [r EXCEPT !.pc = IF r.todo = {p} THEN "build" ELSE "row",
                                     !.todo = @ \ {p}]
        /\ UNCHANGED <<nodes, nextId, status, portNode, row, laned, box, asked, given, left>>

\* A write of the refresh fails (the client is gone, the database is locked),
\* or a step of the reload before sing-box is stopped: it ends there.
RefreshFails ==
    /\ r.pc \in {"row", "build", "stop", "lanesRead", "lanesWrite"}
    /\ r' = GivenUp
    /\ UNCHANGED <<db, box, asked, given, left>>

-----------------------------------------------------------------------------
(* applyNodesToRuntime, called by the refresh and by a stored start         *)

\* A plausible bug: every port gets the fallback node, the first one.
PlanOfFirst == [p \in Ports |->
                   [sel |-> Least(DOMAIN nodes), lanes |-> [l \in Lanes |-> Least(DOMAIN nodes)]]]

\* The defaults the configuration gives the selectors; a lane without a node
\* gets its port's, and one without a row has no inbound.
Plan == [p \in Ports |->
            [sel |-> row[p].active,
             lanes |-> [l \in Lanes |-> IF p \notin laned THEN NoNode
                                        ELSE IF lanes[p][l] # NoNode THEN lanes[p][l]
                                        ELSE row[p].active]]]

PlannedNodes(plan) ==
    {plan[p].sel : p \in Ports} \cup {plan[p].lanes[l] : p \in laned, l \in Lanes}

\* A plausible bug: a configuration sing-box rejects is applied all the same.
ApplyUnchecked ==
    /\ r.pc = "build"
    /\ r' = [r EXCEPT !.pc = "stop", !.plan = Plan]
    /\ UNCHANGED <<db, box, asked, given, left>>

\* buildRuntimePorts, BuildConfig, WriteConfig and `sing-box check`, which
\* rejects a selector whose default is none of its outbounds.
ApplyCheck ==
    /\ r.pc = "build"
    /\ r' = IF PlannedNodes(Plan) \subseteq DOMAIN nodes
            THEN [r EXCEPT !.pc = "stop", !.plan = Plan]
            ELSE GivenUp
    /\ UNCHANGED <<db, box, asked, given, left>>

\* The old process, if it runs, is stopped.
ApplyStop ==
    /\ r.pc = "stop"
    /\ running' = FALSE
    /\ tags' = {}
    /\ sel' = [p \in Ports |-> NoNode]
    /\ laneSel' = [p \in Ports |-> NoLanes]
    /\ r' = [r EXCEPT !.pc = "start"]
    /\ UNCHANGED <<db, asked, given, left>>

ApplyStart ==
    /\ r.pc = "start"
    /\ running' = TRUE
    /\ tags' = DOMAIN nodes
    /\ sel' = [p \in Ports |-> r.plan[p].sel]
    /\ laneSel' = [p \in Ports |-> r.plan[p].lanes]
    /\ r' = IF r.kind = "stored" THEN IdleRefresh
            ELSE [r EXCEPT !.pc = "lanesRead", !.todo = Ports]
    /\ UNCHANGED <<db, asked, given, left>>

\* stop_error or start_error: nothing runs.
ApplyStartFails ==
    /\ r.pc = "start"
    /\ r' = GivenUp
    /\ UNCHANGED <<db, box, asked, given, left>>

\* reconcileLaneStates at the end of a refresh: read, then write.
RefreshLanesRead(p) ==
    /\ r.pc = "lanesRead" /\ p \in r.todo
    /\ r' = [r EXCEPT !.pc = "lanesWrite", !.port = p, !.lanes = Assigned(p)]
    /\ UNCHANGED <<db, box, asked, given, left>>

RefreshLanesWrite ==
    /\ r.pc = "lanesWrite"
    /\ PutLanes(r.port, r.lanes)
    /\ r' = [r EXCEPT !.pc = IF r.todo = {r.port} THEN "done" ELSE "lanesRead",
                      !.todo = @ \ {r.port}]
    /\ UNCHANGED <<nodes, nextId, status, portNode, row, box, asked, given, left>>

\* The request is answered, or New goes on and returns.
RefreshReturn ==
    /\ r.pc = "done"
    /\ r' = IdleRefresh
    /\ UNCHANGED <<db, box, asked, given, left>>

-----------------------------------------------------------------------------
(* runHealthCheck                                                           *)

HealthBegin ==
    /\ h.pc = "idle" /\ running /\ Serving
    /\ left.health > 0
    /\ left' = [left EXCEPT !.health = @ - 1]
    /\ h' = [IdleHealth EXCEPT !.pc = "probe", !.todo = DOMAIN status,
                               !.seen = View(Default), !.calm = TRUE]
    /\ UNCHANGED <<db, box, asked, given>>

\* The next node is probed, through sing-box, and its row is written as it was
\* read, `disabled` included: UpsertNodeRuntimeStatus sets the global row and the
\* default port's.  A status that did not change is not written; one that stays
\* active often does (latency), one that fails always does (failure counter).
\* A write that fails is ignored.
HealthProbe(up) ==
    LET n == Least(h.todo)
        st == [h.seen[n] EXCEPT !.state = IF up THEN "active" ELSE "cooldown"]
        written == /\ status' = Upsert(status, n, st)
                   /\ portNode' = [portNode EXCEPT
                                     ![Default] = Upsert(@, n, st.disabled)]
        same == up /\ h.seen[n].state = "active"
    IN  /\ h.pc = "probe"
        /\ up => SelectorTakes(n)
        /\ written \/ UNCHANGED <<status, portNode>>
        /\ h' = [h EXCEPT !.todo = IF @ = {n} THEN Ports ELSE @ \ {n},
                          !.calm = @ /\ (written \/ same),
                          !.pc = IF h.todo = {n} THEN "ports" ELSE "probe"]
        /\ UNCHANGED <<nodes, nextId, row, lanes, laned, box, asked, given, left>>

\* The rest of the ports; after the last one, the lanes.
PortDone(p) ==
    [h EXCEPT !.pc = IF h.todo = {p} THEN "lanesRead" ELSE "ports",
              !.todo = IF @ = {p} THEN Ports ELSE @ \ {p}]

\* reconcilePortRuntime up to the choice: the row and the statuses are read; a
\* port on a dead or disabled node moves to another healthy one, if there is one.
HealthReadPort(p) ==
    LET view == View(p)
        current == row[p].active
        others == Eligible(view) \ {current}
    IN  /\ h.pc = "ports" /\ p \in h.todo
        /\ IF current \in Eligible(view) \/ others = {}
           THEN h' = PortDone(p)
           ELSE \E n \in others :
                  h' = [h EXCEPT !.pc = "switch", !.port = p, !.next = n, !.row = row[p]]
        /\ UNCHANGED <<db, box, asked, given, left>>

\* The Clash API refuses a node sing-box does not have, and is gone with it.
HealthSwitch ==
    /\ h.pc = "switch"
    /\ IF SelectorTakes(h.next)
       THEN /\ sel' = [sel EXCEPT ![h.port] = h.next]
            /\ h' = [h EXCEPT !.pc = "write"]
       ELSE /\ h' = PortDone(h.port)
            /\ UNCHANGED sel
    /\ UNCHANGED <<db, running, tags, laneSel, asked, given, left>>

\* A plausible bug: a failover takes the lock off.
HealthWriteRowUnlocking ==
    /\ h.pc = "write"
    /\ PutRow(h.port, [active |-> h.next, mode |-> "auto"])
    /\ h' = PortDone(h.port)
    /\ UNCHANGED <<nodes, nextId, status, portNode, lanes, laned, box, asked, given, left>>

\* The row goes back as it was read, but for the active node; outside
\* "manual_locked" the mode becomes "auto".
HealthWriteRow ==
    /\ h.pc = "write"
    /\ PutRow(h.port, [active |-> h.next,
                       mode |-> IF h.row.mode = "manual_locked" THEN "manual_locked" ELSE "auto"])
    /\ h' = PortDone(h.port)
    /\ UNCHANGED <<nodes, nextId, status, portNode, lanes, laned, box, asked, given, left>>

\* The port is left as it is, its selector switched.
HealthWriteFails ==
    /\ h.pc = "write"
    /\ h' = [PortDone(h.port) EXCEPT !.calm = FALSE]
    /\ UNCHANGED <<db, box, asked, given, left>>

HealthLanesRead(p) ==
    /\ h.pc = "lanesRead" /\ p \in h.todo
    /\ h' = [h EXCEPT !.pc = "lanesWrite", !.port = p, !.lanes = Assigned(p)]
    /\ UNCHANGED <<db, box, asked, given, left>>

HealthLanesWrite ==
    /\ h.pc = "lanesWrite"
    /\ PutLanes(h.port, h.lanes)
    /\ h' = [h EXCEPT !.pc = IF h.todo = {h.port} THEN "done" ELSE "lanesRead",
                      !.todo = @ \ {h.port}]
    /\ UNCHANGED <<nodes, nextId, status, portNode, row, box, asked, given, left>>

\* The upsert of a lane fails: the remaining ports are left alone.
HealthLanesFail ==
    /\ h.pc = "lanesWrite"
    /\ h' = IdleHealth
    /\ UNCHANGED <<db, box, asked, given, left>>

HealthReturn ==
    /\ h.pc = "done"
    /\ h' = IdleHealth
    /\ UNCHANGED <<db, box, asked, given, left>>

-----------------------------------------------------------------------------
(* The administrator                                                        *)

Request(pc, op, p, n) ==
    /\ a.pc = "idle" /\ Serving
    /\ left.admin > 0
    /\ left' = [left EXCEPT !.admin = @ - 1]
    /\ a' = [IdleAdmin EXCEPT !.pc = pc, !.op = op, !.port = p, !.node = n]
    /\ UNCHANGED <<db, box, asked, given>>

\* SwitchNodeByPort: the checks, the selectors, then the row is read and written.
SwitchCheck(p, n) ==
    /\ running /\ n \in DOMAIN nodes /\ n \in Eligible(View(p))
    /\ Request("selector", "switch", p, n)

SwitchSelector ==
    /\ a.pc = "selector"
    /\ IF SelectorTakes(a.node)
       THEN /\ sel' = [sel EXCEPT ![a.port] = a.node]
            /\ a' \in {[a EXCEPT !.pc = "read"], IdleAdmin}  \* the socks group may fail
       ELSE /\ a' = IdleAdmin
            /\ UNCHANGED sel
    /\ UNCHANGED <<db, running, tags, laneSel, asked, given, left>>

UnlockCheck(p) == Request("read", "unlock", p, NoNode)

AdminReadRow ==
    /\ a.pc = "read"
    /\ a' = [a EXCEPT !.pc = "write", !.active = row[a.port].active]
    /\ UNCHANGED <<db, box, asked, given, left>>

\* A plausible bug: the reason of the switch is written into the mode.
AdminWriteRowSwapped ==
    /\ a.pc = "write"
    /\ PutRow(a.port, IF a.op = "switch" THEN [active |-> a.node, mode |-> "manual_switch"]
                      ELSE [active |-> a.active, mode |-> "manual_unlock"])
    /\ a' = IdleAdmin
    /\ UNCHANGED <<nodes, nextId, status, portNode, lanes, laned, box, asked, given, left>>

AdminWriteRow ==
    /\ a.pc = "write"
    /\ PutRow(a.port, IF a.op = "switch" THEN [active |-> a.node, mode |-> "manual_locked"]
                      ELSE [active |-> a.active, mode |-> "auto"])
    /\ a' = IdleAdmin
    /\ UNCHANGED <<nodes, nextId, status, portNode, lanes, laned, box, asked, given, left>>

\* SetNodeManualDisabledByPort: the node is looked up, then the transaction runs.
DisableCheck(p, n, op) ==
    /\ n \in DOMAIN nodes
    /\ Request("commit", op, p, n)

\* A plausible bug: the global flag follows every port.
DisableCommitEverywhere ==
    LET p == a.port
        n == a.node
        off == a.op = "disable"
        found == n \in DOMAIN nodes /\ n \in DOMAIN status
    IN  /\ a.pc = "commit"
        /\ a' = IdleAdmin
        /\ portNode' = IF found THEN [q \in Ports |-> Upsert(portNode[q], n, off)] ELSE portNode
        /\ UNCHANGED <<nodes, nextId, status, row, lanes, laned, box, asked, given, left>>

\* Rolled back if the port has no row for the node and none can be inserted, or,
\* on the default port, if the node has no status.
DisableCommit ==
    LET p == a.port
        n == a.node
        off == a.op = "disable"
        found == /\ n \in DOMAIN nodes \cup DOMAIN portNode[p]
                 /\ p = Default => n \in DOMAIN status
        keep == IF n \in DOMAIN nodes THEN {nodes[n]} ELSE {}
    IN  /\ a.pc = "commit"
        /\ a' = IdleAdmin
        /\ IF found
           THEN /\ portNode' = [portNode EXCEPT ![p] = Upsert(@, n, off)]
                /\ status' = IF p = Default THEN [status EXCEPT ![n].disabled = off] ELSE status
                /\ asked' = [asked EXCEPT ![p] = IF off THEN @ \cup keep ELSE @ \ keep]
           ELSE UNCHANGED <<portNode, status, asked>>
        /\ UNCHANGED <<nodes, nextId, row, lanes, laned, box, given, left>>

\* A request ends on an error of the database.
AdminFails ==
    /\ a.pc \in {"read", "write", "commit"}
    /\ a' = IdleAdmin
    /\ UNCHANGED <<db, box, asked, given, left>>

-----------------------------------------------------------------------------
\* sing-box exits by itself.
SingBoxExits ==
    /\ running
    /\ running' = FALSE
    /\ tags' = {}
    /\ sel' = [p \in Ports |-> NoNode]
    /\ laneSel' = [p \in Ports |-> NoLanes]
    /\ UNCHANGED <<db, asked, given, left>>

\* The program ends, with whatever it was doing and with its sing-box, and is
\* started again, with other ports perhaps; New finds SUBSCRIPTION_URL set, or it does
\* not.  (Migrate gives the default port the rows of port_node_state it lacks: none.)
Restart ==
    /\ left.restart > 0
    /\ left' = [left EXCEPT !.restart = @ - 1]
    /\ running' = FALSE
    /\ tags' = {}
    /\ sel' = [p \in Ports |-> NoNode]
    /\ laneSel' = [p \in Ports |-> NoLanes]
    /\ \E fresh \in SUBSET (Ports \ {Default}) :
          /\ row' = Relisted(row, fresh, row[Default])
          /\ r' \in {Begun("boot", Relisted(row, fresh, row[Default])),
                    [IdleRefresh EXCEPT !.pc = "build", !.kind = "stored"]}
          /\ portNode' = Relisted(portNode, fresh, NoRows)
          /\ lanes' = Relisted(lanes, fresh, NoLanes)
          /\ laned' = laned \ fresh
          /\ asked' = Relisted(asked, fresh, {})
    /\ h' = IdleHealth
    /\ a' = IdleAdmin
    /\ UNCHANGED <<nodes, nextId, status, given>>

RefreshStep ==
    \/ RefreshBegin
    \/ \E p \in Ports : RefreshReadPort(p) \/ RefreshPortRow(p) \/ RefreshLanesRead(p)
    \/ RefreshFetchFails
    \/ \E list \in Lists : RefreshReplaceNodes(list)
    \/ RefreshDisables \/ RefreshLanes \/ RefreshFails
    \/ ApplyCheck \/ ApplyStop \/ ApplyStart \/ ApplyStartFails
    \/ RefreshLanesWrite \/ RefreshReturn

HealthStep ==
    \/ HealthBegin
    \/ \E up \in BOOLEAN : HealthProbe(up)
    \/ \E p \in Ports : HealthReadPort(p) \/ HealthLanesRead(p)
    \/ HealthSwitch \/ HealthWriteRow \/ HealthWriteFails
    \/ HealthLanesWrite \/ HealthLanesFail \/ HealthReturn

AdminStep ==
    \/ \E p \in Ports, n \in DOMAIN nodes :
          \/ SwitchCheck(p, n)
          \/ \E op \in {"disable", "enable"} : DisableCheck(p, n, op)
    \/ \E p \in Ports : UnlockCheck(p)
    \/ SwitchSelector \/ AdminReadRow \/ AdminWriteRow \/ DisableCommit \/ AdminFails

\* x is calm as long as nobody else changes the registry or sing-box.
Noticed(x) == [x EXCEPT !.calm = @ /\ UNCHANGED <<db, box>>]

Next ==
    \/ RefreshStep /\ a' = a /\ h' = Noticed(h)
    \/ HealthStep /\ a' = a /\ r' = Noticed(r)
    \/ AdminStep /\ r' = Noticed(r) /\ h' = Noticed(h)
    \/ SingBoxExits /\ a' = a /\ r' = Noticed(r) /\ h' = Noticed(h)
    \/ Restart

Spec == Init /\ [][Next]_vars

-----------------------------------------------------------------------------
(* Properties                                                               *)

Ids == Nat \ {0}
NodeRow == [state : States, disabled : BOOLEAN]
Row == [active : Nat, mode : {"auto", "manual_locked"}]
IsTable(table, rows) == DOMAIN table \subseteq Ids /\ table \in [DOMAIN table -> rows]

\* Type invariant of the registry and of sing-box.
TypeOK ==
    /\ IsTable(nodes, Keys)
    /\ nextId \in Ids
    /\ IsTable(status, NodeRow)
    /\ portNode = [p \in Ports |-> portNode[p]]
    /\ \A p \in Ports : IsTable(portNode[p], BOOLEAN)
    /\ row \in [Ports -> Row]
    /\ lanes \in [Ports -> [Lanes -> Nat]]
    /\ laned \subseteq Ports
    /\ running \in BOOLEAN
    /\ tags \subseteq Ids
    /\ sel \in [Ports -> Nat]
    /\ laneSel \in [Ports -> [Lanes -> Nat]]
    /\ asked \in [Ports -> SUBSET Keys]
    /\ given \subseteq Ids \X Keys

\* An id stands for one source key for ever, through any number of refreshes: a
\* request, a probe or a row that outlives one or more of them may name a node that
\* is gone, never a different one.
IdsNameOneKey ==
    /\ \A x, y \in given : x[1] = y[1] => x[2] = y[2]
    /\ \A n \in DOMAIN nodes : <<n, nodes[n]>> \in given

\* Whatever overlaps, sing-box points no port and no lane at a node it lacks.
SelectorsAreRegistered ==
    /\ running => \A p \in Ports : sel[p] \in tags
    /\ \A p \in Ports, l \in Lanes : laneSel[p][l] \in tags \cup {NoNode}

\* The nodes port p has no row for: what the default port has disabled of them is
\* disabled for p.
Follows(p) == DOMAIN nodes \ DOMAIN portNode[p]
Following == [p \in Ports |-> KeysOf(Follows(p))]

Flipped(p) ==
    {n \in DOMAIN nodes \cap DOMAIN nodes' : (n \in DisabledIn(p)) # (n \in DisabledIn(p)')}

DisabledByItsPort ==
    \A p \in Ports : \A n \in Flipped(p) :
        \/ a.pc = "commit" /\ a.port = p /\ a.node = n
        \/ r.pc = "disable" /\ r.port = p
        \/ h.pc = "probe" /\ p = Default
        \/ n \in Follows(p) /\ n \in Flipped(Default)
        \/ p # Default /\ Follows(p)' = DOMAIN nodes' /\ left'.restart < left.restart

\* Disabling is per port as far as a port has rows: a node that stays changes for a
\* port only by a request for that port, by a refresh at that port or, on the default
\* port, by a health check.  The exceptions are the ports a start has found newly listed,
\* which begin with what the default port has disabled: until they have a row of their
\* own for a node, by a request for it or by the next refresh, they follow the default
\* port's flag of it, and nothing else.
DisablingIsPerPort == [][DisabledByItsPort]_vars

\* A refresh nobody interferes with keeps, by source key, each port's active node
\* and lock, what it has disabled, and its lanes' nodes unless they are disabled;
\* a port whose active node is gone gets the first node, unlocked.
CalmRefreshPreserves ==
    r.pc = "done" /\ r.calm => \A p \in Ports :
        LET want == r.want[p]
            now == Range(nodes)
        IN  /\ IF want.key \in now
               THEN KeyOf(row[p].active) = want.key /\ row[p].mode = want.mode
               ELSE row[p] = [active |-> Least(DOMAIN nodes), mode |-> "auto"]
            /\ KeysOf(DisabledIn(p)) = want.off \cap now
            /\ \A l \in Lanes : want.lanes[l] \in now \ want.off
                                  => KeyOf(lanes[p][l]) = want.lanes[l]

\* Such a refresh leaves sing-box and the registry in agreement: it runs with
\* the nodes of the registry, each port points at the active one, and each lane
\* has one of them, unless an earlier overlap left the status of a vanished node.
CalmRefreshAgrees ==
    r.pc = "done" /\ r.calm =>
        /\ running /\ tags = DOMAIN nodes
        /\ \A p \in Ports : sel[p] = row[p].active
        /\ DOMAIN status = DOMAIN nodes =>
              \A p \in Ports, l \in Lanes : lanes[p][l] \in tags \cup {NoNode}

\* Nothing that was interrupted before it, a crash in the middle of a refresh
\* included, makes sing-box reject the configuration of a refresh nobody
\* interferes with: with SUBSCRIPTION_URL set the tables cannot keep the program
\* from starting.
CalmRefreshIsAccepted ==
    r.pc = "build" /\ r.kind # "stored" /\ r.calm => PlannedNodes(Plan) \subseteq DOMAIN nodes

\* A health check nobody interferes with leaves no port and no lane on a node
\* that is dead, disabled for the port or unknown to sing-box while there is a
\* healthy one, whatever earlier overlaps left in the tables.
CalmHealthCheckHeals ==
    h.pc = "done" /\ h.calm => \A p \in Ports :
        LET healthy == Eligible(View(p))
        IN  /\ healthy \subseteq tags
            /\ healthy # {} => row[p].active \in healthy
            /\ \A l \in Lanes : lanes[p][l] \in IF healthy # {} THEN healthy ELSE {NoNode}

\* What is stored of a port's choices, by source key, and what the refresh that carries
\* them over is going to store.
Stored(p) == [key |-> KeyOf(row[p].active), mode |-> row[p].mode, off |-> KeysOf(DisabledIn(p))]
Awaited(p) ==
    LET want == r.want[p]
        now == Range(nodes)
    IN  [key |-> IF want.key \in now THEN want.key ELSE nodes[Least(DOMAIN nodes)],
         mode |-> IF want.key \in now THEN want.mode ELSE "auto",
         off |-> want.off \cap now]

CarriesOver == r.calm /\ r.pc \in {"row", "disable", "lanes"}
Chosen == [p \in Ports |-> IF CarriesOver /\ p \in r.todo THEN Awaited(p) ELSE Stored(p)]

RefreshPhase ==
    IF r.pc \in {"read", "row", "disable", "lanes"}
    THEN IF CarriesOver THEN "carrying" ELSE IF r.calm THEN "reading" ELSE "disturbed"
    ELSE IF r.calm THEN "settled" ELSE "idle"

CheckPhase ==
    IF h.pc \in {"probe", "ports", "switch", "write"}
    THEN IF h.calm THEN "calm" ELSE "disturbed"
    ELSE "idle"

Requested ==
    IF a.pc = "idle" THEN [op |-> "none", port |-> Default, key |-> NoKey]
    ELSE [op |-> a.op, port |-> a.port,
          key |-> KeyOf(IF a.op = "unlock" THEN a.active ELSE a.node)]

\* By source key, and as far as nothing overlaps it, a refresh with all its calls is one
\* step that keeps what was chosen, and is never half done; see PortChoices for what
\* overlaps and crashes may change, and what they may not.
Registry == INSTANCE PortChoices WITH
    served <- Range(nodes), choice <- Chosen, following <- Following,
    refresh <- RefreshPhase, check <- CheckPhase, request <- Requested
ImplementsChoices == Registry!Spec

Idle == r.pc = "idle" /\ h.pc = "idle" /\ a.pc = "idle"

\* What the tests of the disable request expect (app_test.go): a node that is
\* disabled for a port and still in the subscription stays disabled.
DisableSurvives ==
    Idle => \A p \in Ports : asked[p] \subseteq KeysOf(DisabledIn(p))

\* What the README calls lane-level allocation in the data plane: after a health
\* check nobody interfered with, a lane's traffic goes to the lane's node.
LanesReachDataPlane ==
    h.pc = "done" /\ h.calm => \A p \in Ports, l \in Lanes :
        lanes[p][l] # NoNode => laneSel[p][l] = lanes[p][l]

=============================================================================
