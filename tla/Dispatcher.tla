------------------------------ MODULE Dispatcher ------------------------------
(***************************************************************************)
(* The dispatcher (dispatcherRelay in internal/app/app.go): requests choose *)
(* a lane from a snapshot shared under snapshotMu, forward to it, and fall  *)
(* back to another lane when that fails, recording each outcome first in   *)
(* the registry and then in the snapshot.  Meanwhile a health check and an  *)
(* administrator's request change the registry and rebuild the snapshot,   *)
(* which reads port after port and then replaces it.                       *)
(*                                                                         *)
(* Lanes are numbered in the order of the snapshot, which is also that of   *)
(* their keys.  What a lane is assigned to is reduced to whether that node  *)
(* is healthy: how lanes get their nodes is in ControlPlane.               *)
(***************************************************************************)
EXTENDS Integers, FiniteSets, Sequences, Functions

CONSTANTS
    Requests,    \* each is served once
    Lanes,       \* positive integers
    Ports,       \* the ports, in the order of their keys
    PortOf,      \* the port of each lane
    Protocol,    \* its protocol, "http" or "socks"
    Loads        \* what a behaviour may have: the configured algorithm, the routes of HTTP
                 \* requests (the lane of the rule that matches, the hash of the sticky key),
                 \* how many requests, clients that leave and changes to the health of nodes

NoLane == 0
NoHash == 0 - 1

ASSUME LanesAssumption == Lanes \subseteq Nat \ {0} /\ Lanes # {} /\ IsFiniteSet(Lanes)
ASSUME LaneAssumption == PortOf \in [Lanes -> Range(Ports)] /\ Protocol \in [Lanes -> {"http", "socks"}]

LoadType ==
    [algorithm : {"sequential", "random"},
     routes : SUBSET ((Lanes \cup {NoLane}) \X (Nat \cup {NoHash})),
     requests : Nat, leaves : Nat, changes : Nat]
ASSUME LoadsAssumption == Loads \subseteq LoadType

VARIABLES
    snapshot,    \* the lanes that are healthy in the snapshot
    laneState,   \* request_lane_state.state by lane
    nodeUp,      \* the lane's node is active and not disabled
    portUp,      \* the port has such a node
    request,     \* the requests, by name
    rebuild,     \* the rebuilds under way: the health check's and the administrator's
    load         \* the algorithm, "random" standing for "balance" as well, the routes,
                 \* and, not in the code, how many of each there may still be

registry == <<laneState, nodeUp, portUp>>
vars == <<snapshot, registry, request, rebuild, load>>

\* A rebuild: the place of the port it reads next, 0 when there is none under way.
Quiet == [next |-> 0, seen |-> {}]
Begun == [next |-> 1, seen |-> {}]

NewRequest ==
    [pc |-> "idle", kind |-> "http", target |-> NoLane, sticky |-> NoHash, lane |-> NoLane,
     attempted |-> {}, gone |-> FALSE, result |-> "none"]

Init ==
    /\ snapshot = Lanes
    /\ laneState = [l \in Lanes |-> "ready"]
    /\ nodeUp = [l \in Lanes |-> TRUE]
    /\ portUp = [p \in Range(Ports) |-> TRUE]
    /\ request = [i \in Requests |-> NewRequest]
    /\ rebuild = [b \in {"health", "admin"} |-> Quiet]
    /\ load \in Loads

-----------------------------------------------------------------------------
(* Choosing a lane (internal/pool/dispatcher_selector.go): the sets of the   *)
(* lanes that may be returned; empty when there is none.                     *)

First(S) == CHOOSE l \in S : \A m \in S : l <= m
Nth(S, k) == CHOOSE l \in S : Cardinality({m \in S : m < l}) = k

\* A lane that is no longer eligible has lost its place: the first one is next.
SelectSequentialDispatcherLane(current) ==
    LET later == {l \in snapshot : l > current}
    IN  IF snapshot = {} THEN {}
        ELSE IF current \in snapshot /\ later # {} THEN {First(later)}
        ELSE {First(snapshot)}

\* By weight and chance, or by the order of balance: another lane if there is one.
SelectRandomDispatcherLane(current) ==
    IF snapshot \ {current} # {} THEN snapshot \ {current} ELSE snapshot

SelectStickyDispatcherLane(hash) ==
    IF snapshot = {} THEN {} ELSE {Nth(snapshot, hash % Cardinality(snapshot))}

SelectTargetDispatcherLane(target, current) ==
    {l \in snapshot : l = target /\ Protocol[l] = "http" /\ l # current}

\* selectCandidate: the lane the request has just failed on is currentLaneKey,
\* which a sticky key does not look at.  Sticky, then the rule's lane, then the algorithm.
SelectCandidate(q) ==
    LET sticky == IF q.sticky = NoHash THEN {} ELSE SelectStickyDispatcherLane(q.sticky)
        target == SelectTargetDispatcherLane(q.target, q.lane)
    IN  CASE sticky # {} -> sticky
          [] sticky = {} /\ target # {} -> target
          [] sticky = {} /\ target = {} /\ load.algorithm = "sequential" ->
                SelectSequentialDispatcherLane(q.lane)
          [] sticky = {} /\ target = {} /\ load.algorithm = "random" ->
                SelectRandomDispatcherLane(q.lane)

-----------------------------------------------------------------------------
(* serveHTTP and serveSOCKS                                                  *)

\* How it ended is kept, what it needed to go on is not.
Ended(result) == [NewRequest EXCEPT !.pc = "done", !.result = result]

Step(i, from, q) ==
    /\ request[i].pc = from
    /\ request' = [request EXCEPT ![i] = q]

\* A plausible bug: the sticky key is taken along next to a rule's lane.
RoutingWithBoth(target, sticky) == [target |-> target, sticky |-> sticky]

\* A rule with a target lane makes the sticky key void.
Routing(target, sticky) ==
    [target |-> target, sticky |-> IF target # NoLane THEN NoHash ELSE sticky]

Accept(i, q) ==
    /\ load.requests > 0
    /\ load' = [load EXCEPT !.requests = @ - 1]
    /\ Step(i, "idle", q)
    /\ UNCHANGED <<snapshot, registry, rebuild>>

AcceptHTTP(i, target, sticky) ==
    LET routing == Routing(target, sticky)
    IN  Accept(i, [request[i] EXCEPT !.pc = "select", !.target = routing.target,
                                     !.sticky = routing.sticky])

AcceptSOCKS(i) == Accept(i, [request[i] EXCEPT !.pc = "select", !.kind = "socks"])

\* A plausible bug: a lane that was tried is tried again.
AfterSelectRetrying(q, l) ==
    [q EXCEPT !.pc = "forward", !.lane = l, !.attempted = @ \cup {l}]

\* A plausible bug: a lane that was tried is passed over and another asked for.
AfterSelectSkipping(q, l) ==
    IF l \in q.attempted
    THEN q
    ELSE [q EXCEPT !.pc = "forward", !.lane = l, !.attempted = @ \cup {l}]

\* A lane that was tried already ends the request.
AfterSelect(q, l) ==
    IF l \in q.attempted
    THEN Ended("failed")
    ELSE [q EXCEPT !.pc = "forward", !.lane = l, !.attempted = @ \cup {l}]

Select(i) ==
    /\ \E l \in SelectCandidate(request[i]) : Step(i, "select", AfterSelect(request[i], l))
    /\ UNCHANGED <<snapshot, registry, rebuild, load>>

\* 502 with the last error, 503 if nothing was tried; over SOCKS both are 0x04.
Outcome(q) == IF q.attempted = {} THEN "unavailable" ELSE "failed"

SelectNone(i) ==
    /\ SelectCandidate(request[i]) = {}
    /\ Step(i, "select", Ended(Outcome(request[i])))
    /\ UNCHANGED <<snapshot, registry, rebuild, load>>

\* The lane refuses or times out, an HTTP upstream answers 502 or more, or the
\* client of an HTTP request is gone and its context with it.
ForwardFails(i) ==
    /\ Step(i, "forward", [request[i] EXCEPT !.pc = "failing"])
    /\ UNCHANGED <<snapshot, registry, rebuild, load>>

ForwardWorks(i) ==
    /\ ~request[i].gone
    /\ Step(i, "forward", [request[i] EXCEPT !.pc = "working"])
    /\ UNCHANGED <<snapshot, registry, rebuild, load>>

ClientLeaves(i) ==
    /\ request[i].kind = "http" /\ ~request[i].gone
    /\ \E pc \in {"forward", "failing", "working"} :
          Step(i, pc, [request[i] EXCEPT !.gone = TRUE])
    /\ load.leaves > 0
    /\ load' = [load EXCEPT !.leaves = @ - 1]
    /\ UNCHANGED <<snapshot, registry, rebuild>>

\* A plausible bug: the state and the time change places.
RecordFailureSwapped(i) ==
    LET q == request[i]
    IN  /\ Step(i, "failing", [q EXCEPT !.pc = "dropping"])
        /\ laneState' = IF q.gone THEN laneState ELSE [laneState EXCEPT ![q.lane] = "12:00"]
        /\ UNCHANGED <<snapshot, nodeUp, portUp, rebuild, load>>

\* UpdateRequestLaneError, on the request's context.
RecordFailure(i) ==
    LET q == request[i]
    IN  /\ Step(i, "failing", [q EXCEPT !.pc = "dropping"])
        /\ laneState' = IF q.gone THEN laneState ELSE [laneState EXCEPT ![q.lane] = "error"]
        /\ UNCHANGED <<snapshot, nodeUp, portUp, rebuild, load>>

\* updateSnapshotCandidate, then the next round.
DropLane(i) ==
    LET q == request[i]
    IN  /\ Step(i, "dropping", [q EXCEPT !.pc = "select"])
        /\ snapshot' = snapshot \ {q.lane}
        /\ UNCHANGED <<registry, rebuild, load>>

\* UpdateRequestLaneUsage, on that context too, then updateSnapshotCandidate; the
\* answer follows.
RecordUse(i) ==
    LET q == request[i]
    IN  /\ Step(i, "working", [q EXCEPT !.pc = "keeping"])
        /\ laneState' = IF q.gone THEN laneState ELSE [laneState EXCEPT ![q.lane] = "ready"]
        /\ UNCHANGED <<snapshot, nodeUp, portUp, rebuild, load>>

KeepLane(i) ==
    LET q == request[i]
    IN  /\ Step(i, "keeping", Ended("answered"))
        /\ snapshot' = snapshot \cup {q.lane}
        /\ UNCHANGED <<registry, rebuild, load>>

-----------------------------------------------------------------------------
(* The rest of the application, as the dispatcher sees it                    *)

\* A plausible bug: a lane that failed stays in "error" while its node is healthy.
ReconciledKeepingErrors(up) ==
    [l \in Lanes |-> IF ~up[PortOf[l]] THEN "idle"
                     ELSE IF laneState[l] = "error" THEN "error" ELSE "ready"]

\* buildLaneStates: a lane of a port with a healthy node is "ready" on one.
Reconciled(up) == [l \in Lanes |-> IF up[PortOf[l]] THEN "ready" ELSE "idle"]

\* runHealthCheck: nodes die and come back, the lanes are reconciled, then the
\* snapshot is rebuilt.
HealthCheck ==
    /\ rebuild["health"] = Quiet
    /\ \/ /\ load.changes > 0
          /\ portUp' \in [Range(Ports) -> BOOLEAN]
          /\ load' = [load EXCEPT !.changes = @ - 1]
       \/ UNCHANGED <<portUp, load>>
    /\ nodeUp' = [l \in Lanes |-> portUp'[PortOf[l]]]
    /\ laneState' = Reconciled(portUp')
    /\ rebuild' = [rebuild EXCEPT !["health"] = Begun]
    /\ UNCHANGED <<snapshot, request>>

\* SetNodeManualDisabledByPort: the nodes of some lanes of a port go or come
\* back; the lanes are not reconciled before the snapshot is rebuilt.
ToggleNode(p) ==
    /\ rebuild["admin"] = Quiet
    /\ load.changes > 0
    /\ load' = [load EXCEPT !.changes = @ - 1]
    /\ nodeUp' \in [Lanes -> BOOLEAN]
    /\ portUp' \in [Range(Ports) -> BOOLEAN]
    /\ \A q \in Range(Ports) \ {p} : portUp'[q] = portUp[q]
    /\ \A l \in Lanes : IF PortOf[l] = p THEN nodeUp'[l] => portUp'[p] ELSE nodeUp'[l] = nodeUp[l]
    /\ rebuild' = [rebuild EXCEPT !["admin"] = Begun]
    /\ UNCHANGED <<snapshot, laneState, request>>

\* The lanes that are healthy according to the registry.
Registered == {l \in Lanes : nodeUp[l] /\ laneState[l] = "ready"}

\* rebuildSnapshot reads the ports one after the other, then replaces the snapshot.
RebuildRead(b) ==
    /\ rebuild[b].next \in DOMAIN Ports
    /\ rebuild' = [rebuild EXCEPT
          ![b].next = @ + 1,
          ![b].seen = @ \cup {l \in Registered : PortOf[l] = Ports[rebuild[b].next]}]
    /\ UNCHANGED <<snapshot, registry, request, load>>

RebuildStore(b) ==
    /\ rebuild[b].next = Len(Ports) + 1
    /\ snapshot' = rebuild[b].seen
    /\ rebuild' = [rebuild EXCEPT ![b] = Quiet]
    /\ UNCHANGED <<registry, request, load>>

Serve(i) ==
    \/ Select(i) \/ SelectNone(i)
    \/ ForwardFails(i) \/ ForwardWorks(i)
    \/ RecordFailure(i) \/ DropLane(i)
    \/ RecordUse(i) \/ KeepLane(i)

Rebuild(b) == RebuildRead(b) \/ RebuildStore(b)

Next ==
    \/ \E i \in Requests, route \in load.routes : AcceptHTTP(i, route[1], route[2])
    \/ \E i \in Requests : AcceptSOCKS(i) \/ ClientLeaves(i) \/ Serve(i)
    \/ HealthCheck
    \/ \E p \in Range(Ports) : ToggleNode(p)
    \/ \E b \in {"health", "admin"} : Rebuild(b)

Spec == Init /\ [][Next]_vars

\* A request that was accepted is served, the ticker of the health check never
\* stops, and a rebuild that has begun goes on.
FairSpec ==
    /\ Spec
    /\ \A i \in Requests : WF_vars(Serve(i))
    /\ WF_vars(HealthCheck)
    /\ \A b \in {"health", "admin"} : WF_vars(Rebuild(b))

-----------------------------------------------------------------------------
(* Properties                                                                *)

RequestType ==
    [pc : {"idle", "select", "forward", "failing", "dropping", "working", "keeping", "done"},
     kind : {"http", "socks"}, target : Lanes \cup {NoLane}, sticky : Nat \cup {NoHash},
     lane : Lanes \cup {NoLane}, attempted : SUBSET Lanes, gone : BOOLEAN,
     result : {"none", "answered", "failed", "unavailable"}]

\* Type invariant.
TypeOK ==
    /\ snapshot \subseteq Lanes
    /\ laneState \in [Lanes -> {"ready", "error", "idle"}]
    /\ nodeUp \in [Lanes -> BOOLEAN]
    /\ portUp \in [Range(Ports) -> BOOLEAN]
    /\ request \in [Requests -> RequestType]
    /\ rebuild \in [{"health", "admin"} -> [next : Nat, seen : SUBSET Lanes]]
    /\ load \in LoadType

\* What a request is doing, to LaneService.
Phase(pc) ==
    CASE pc = "idle" -> "new"
      [] pc = "select" -> "waiting"
      [] pc = "done" -> "done"
      [] OTHER -> "trying"

\* The mechanism keeps the promise of LaneService: whatever other requests, health
\* checks and rebuilds do to the snapshot between its steps, a request tries no lane
\* twice, 503 ("no healthy lane") is told only to one that tried none, and the
\* outcome of every try reaches the snapshot.
Service == INSTANCE LaneService WITH
    healthy <- snapshot,
    phase <- [i \in Requests |-> Phase(request[i].pc)],
    lane <- [i \in Requests |-> request[i].lane],
    tried <- [i \in Requests |-> request[i].attempted],
    outcome <- [i \in Requests |-> request[i].result]
ImplementsLaneService == Service!Spec

RuleIsTaken ==
    \A i \in Requests :
        LET q == request[i]
        IN  q.pc = "select" /\ q.attempted = {} /\ request'[i].pc = "forward"
            /\ q.target \in snapshot /\ Protocol[q.target] = "http"
              => request'[i].lane = q.target

\* A rule wins over the sticky key: the first lane tried is the rule's if it is
\* an http lane the snapshot has as healthy.
RuleBeatsSticky == [][RuleIsTaken]_vars

\* Every request that was accepted ends.
RequestEnds == \A i \in Requests : request[i].pc = "select" ~> request[i].pc = "done"

\* When requests and nodes come to rest the snapshot comes to agree with the
\* registry and stays so: no failure mark, stale rebuild or departed client keeps
\* a lane with a healthy node out for ever.
SnapshotConverges ==
    <>[](snapshot = Registered /\ \A l \in Lanes : portUp[PortOf[l]] => l \in snapshot)
=============================================================================
