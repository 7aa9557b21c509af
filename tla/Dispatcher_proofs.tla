--------------------------- MODULE Dispatcher_proofs ---------------------------
(***************************************************************************)
(* Proofs about the dispatcher, for any lanes, ports, requests and load:   *)
(* its type invariant, that a rule wins over a sticky key, and that it     *)
(* implements LaneService.  IInv below is the inductive invariant.         *)
(***************************************************************************)
EXTENDS Dispatcher, OrderLemmas, TLAPS

Trying == {"forward", "failing", "dropping", "working", "keeping"}

\* The lane a request is at is one it has counted as tried; a request that has
\* tried none is at none; and one with a rule's lane has no sticky key.
Bookkeeping(q) ==
    /\ q.pc \in Trying => q.lane \in q.attempted
    /\ q.attempted = {} => q.lane = NoLane
    /\ q.target # NoLane => q.sticky = NoHash
    /\ q.pc = "idle" => q = NewRequest

IInv ==
    /\ TypeOK
    /\ \A i \in Requests : Bookkeeping(request[i])

-----------------------------------------------------------------------------
(* The selectors return lanes of the snapshot, and none only if it is empty. *)

LEMMA FirstIsMember ==
    ASSUME NEW S \in SUBSET Lanes, S # {}
    PROVE  First(S) \in S
<1>1. S \in SUBSET Nat
  BY LanesAssumption
<1> QED
  BY <1>1, LeastExists DEF First

LEMMA NthIsMember ==
    ASSUME NEW S \in SUBSET Lanes, S # {}, NEW hash \in Nat
    PROVE  Nth(S, hash % Cardinality(S)) \in S
<1>1. S \in SUBSET Nat /\ IsFiniteSet(S)
  BY LanesAssumption, FS_Subset
<1>2. Cardinality(S) \in Nat \ {0}
  BY <1>1, FS_CardinalityType, FS_EmptySet
<1> DEFINE k == hash % Cardinality(S)
<1>3. k \in Nat /\ k < Cardinality(S)
  BY <1>2
<1> HIDE DEF k
<1>4. \E l \in S : Cardinality({m \in S : m < l}) = k
  BY <1>1, <1>3, NthExists
<1>5. Nth(S, k) \in S
  BY <1>4 DEF Nth
<1> QED
  BY <1>5 DEF k

LEMMA CandidatesAreHealthy ==
    ASSUME TypeOK, NEW q \in RequestType
    PROVE  /\ SelectCandidate(q) \subseteq snapshot
           /\ snapshot # {} => SelectCandidate(q) # {}
<1> DEFINE sticky == IF q.sticky = NoHash THEN {} ELSE SelectStickyDispatcherLane(q.sticky)
           target == SelectTargetDispatcherLane(q.target, q.lane)
<1>1. snapshot \in SUBSET Lanes /\ load.algorithm \in {"sequential", "random"}
  BY DEF TypeOK, LoadType
<1>2. sticky \subseteq snapshot
  BY <1>1, NthIsMember DEF RequestType, SelectStickyDispatcherLane
<1>3. target \subseteq snapshot
  BY DEF SelectTargetDispatcherLane
<1>4. /\ SelectSequentialDispatcherLane(q.lane) \subseteq snapshot
      /\ snapshot # {} => SelectSequentialDispatcherLane(q.lane) # {}
  <2> DEFINE later == {l \in snapshot : l > q.lane}
  <2>1. later \in SUBSET Lanes /\ later \subseteq snapshot
    BY <1>1
  <2>2. later # {} => First(later) \in snapshot
    BY <2>1, FirstIsMember
  <2>3. snapshot # {} => First(snapshot) \in snapshot
    BY <1>1, FirstIsMember
  <2> QED
    BY <2>2, <2>3 DEF SelectSequentialDispatcherLane
<1>5. /\ SelectRandomDispatcherLane(q.lane) \subseteq snapshot
      /\ snapshot # {} => SelectRandomDispatcherLane(q.lane) # {}
  BY DEF SelectRandomDispatcherLane
<1> QED
  BY <1>1, <1>2, <1>3, <1>4, <1>5 DEF SelectCandidate

-----------------------------------------------------------------------------
(* The invariant                                                            *)

LEMMA InitInv == Init => IInv
<1> SUFFICES ASSUME Init PROVE IInv
  OBVIOUS
<1>1. NewRequest \in RequestType /\ Bookkeeping(NewRequest)
  BY DEF NewRequest, RequestType, Bookkeeping, Trying, NoLane, NoHash
<1>2. \A i \in Requests : request[i] = NewRequest
  BY DEF Init
<1>3. TypeOK
  BY <1>1, LoadsAssumption DEF Init, TypeOK, Quiet
<1> QED
  BY <1>1, <1>2, <1>3 DEF IInv

\* What a step of one request needs to leave all of them well kept.
Kept == request' \in [Requests -> RequestType] /\ \A i \in Requests : Bookkeeping(request'[i])

LEMMA StepKeeps ==
    ASSUME IInv, NEW i \in Requests, NEW from, NEW q \in RequestType, Bookkeeping(q),
           Step(i, from, q)
    PROVE  Kept
BY DEF Kept, IInv, TypeOK, Step

LEMMA EndedIsKept ==
    ASSUME NEW result \in {"none", "answered", "failed", "unavailable"}
    PROVE  Ended(result) \in RequestType /\ Bookkeeping(Ended(result))
BY DEF Ended, NewRequest, RequestType, Bookkeeping, Trying, NoLane, NoHash

\* A request's next record, when a lane is selected, is one that can be.
LEMMA SelectedIsKept ==
    ASSUME NEW q \in RequestType, Bookkeeping(q), q.pc = "select", NEW l \in Lanes
    PROVE  AfterSelect(q, l) \in RequestType /\ Bookkeeping(AfterSelect(q, l))
<1>1. CASE l \in q.attempted
  BY <1>1, EndedIsKept DEF AfterSelect
<1>2. CASE l \notin q.attempted
  <2> DEFINE next == [q EXCEPT !.pc = "forward", !.lane = l, !.attempted = @ \cup {l}]
  <2>1. next \in RequestType
    BY DEF RequestType
  <2>2. /\ next.pc = "forward" /\ next.lane = l /\ next.attempted = q.attempted \cup {l}
        /\ next.target = q.target /\ next.sticky = q.sticky
    BY DEF RequestType
  <2>3. Bookkeeping(next)
    BY <2>2 DEF Bookkeeping, Trying
  <2> QED
    BY <1>2, <2>1, <2>3 DEF AfterSelect
<1> QED
  BY <1>1, <1>2

\* The steps that only move a request on, or mark its client as gone.
LEMMA MovedOnIsKept ==
    ASSUME NEW q \in RequestType, Bookkeeping(q), q.pc \in Trying
    PROVE  /\ \A pc \in {"select", "failing", "dropping", "working", "keeping"} :
                LET next == [q EXCEPT !.pc = pc]
                IN  next \in RequestType /\ Bookkeeping(next)
           /\ LET next == [q EXCEPT !.gone = TRUE]
              IN  next \in RequestType /\ Bookkeeping(next)
BY DEF RequestType, Bookkeeping, Trying, NoLane

LEMMA AcceptedIsKept ==
    ASSUME NEW q \in RequestType, Bookkeeping(q), q.pc = "idle",
           NEW target \in Lanes \cup {NoLane}, NEW sticky \in Nat \cup {NoHash}
    PROVE  LET routing == Routing(target, sticky)
               http == [q EXCEPT !.pc = "select", !.target = routing.target,
                                 !.sticky = routing.sticky]
               socks == [q EXCEPT !.pc = "select", !.kind = "socks"]
           IN  /\ http \in RequestType /\ Bookkeeping(http)
               /\ socks \in RequestType /\ Bookkeeping(socks)
<1> DEFINE routing == Routing(target, sticky)
           http == [q EXCEPT !.pc = "select", !.target = routing.target, !.sticky = routing.sticky]
           socks == [q EXCEPT !.pc = "select", !.kind = "socks"]
<1>1. /\ routing.target \in Lanes \cup {NoLane} /\ routing.sticky \in Nat \cup {NoHash}
      /\ routing.target # NoLane => routing.sticky = NoHash
  BY DEF Routing
<1> HIDE DEF routing
<1>2. q.lane = NoLane /\ q.attempted = {} /\ q.target = NoLane
  BY DEF Bookkeeping, NewRequest
<1>3. http \in RequestType /\ socks \in RequestType
  BY <1>1 DEF RequestType
<1>4. /\ http.pc = "select" /\ http.lane = NoLane
      /\ http.target = routing.target /\ http.sticky = routing.sticky
      /\ socks.pc = "select" /\ socks.lane = NoLane /\ socks.target = NoLane
  BY <1>2 DEF RequestType
<1>5. Bookkeeping(http) /\ Bookkeeping(socks)
  BY <1>1, <1>4 DEF Bookkeeping, Trying
<1> QED
  BY <1>3, <1>5 DEF routing

LEMMA InvStep == IInv /\ [Next]_vars => IInv'
<1> SUFFICES ASSUME IInv, [Next]_vars PROVE IInv'
  OBVIOUS
<1> USE DEF registry
<1>t. /\ TypeOK /\ \A i \in Requests : request[i] \in RequestType /\ Bookkeeping(request[i])
  BY DEF IInv, TypeOK
<1>k. ASSUME Kept, snapshot' \subseteq Lanes,
             laneState' \in [Lanes -> {"ready", "error", "idle"}], load' \in LoadType,
             UNCHANGED <<nodeUp, portUp, rebuild>>
      PROVE  IInv'
  BY <1>t, <1>k DEF IInv, TypeOK, Kept
<1>1. ASSUME NEW i \in Requests, NEW route \in load.routes, AcceptHTTP(i, route[1], route[2])
      PROVE  IInv'
  <2>1. route[1] \in Lanes \cup {NoLane} /\ route[2] \in Nat \cup {NoHash}
    BY <1>t DEF TypeOK, LoadType
  <2>2. request[i].pc = "idle"
    BY <1>1 DEF AcceptHTTP, Accept, Step
  <2>3. Kept
    BY <1>1, <1>t, <2>1, <2>2, AcceptedIsKept, StepKeeps DEF AcceptHTTP, Accept
  <2>4. load' \in LoadType
    BY <1>1, <1>t DEF AcceptHTTP, Accept, TypeOK, LoadType
  <2> QED
    BY <1>1, <1>t, <1>k, <2>3, <2>4 DEF AcceptHTTP, Accept, TypeOK
<1>2. ASSUME NEW i \in Requests, AcceptSOCKS(i) PROVE IInv'
  <2>1. request[i].pc = "idle"
    BY <1>2 DEF AcceptSOCKS, Accept, Step
  <2>2. Kept
    BY <1>2, <1>t, <2>1, AcceptedIsKept, StepKeeps DEF AcceptSOCKS, Accept, NoLane, NoHash
  <2>3. load' \in LoadType
    BY <1>2, <1>t DEF AcceptSOCKS, Accept, TypeOK, LoadType
  <2> QED
    BY <1>2, <1>t, <1>k, <2>2, <2>3 DEF AcceptSOCKS, Accept, TypeOK
<1>3. ASSUME NEW i \in Requests, ClientLeaves(i) PROVE IInv'
  <2>1. PICK pc \in {"forward", "failing", "working"} :
              Step(i, pc, [request[i] EXCEPT !.gone = TRUE])
    BY <1>3 DEF ClientLeaves
  <2>2. request[i].pc \in Trying
    BY <2>1 DEF Step, Trying
  <2>3. Kept
    BY <1>t, <2>1, <2>2, MovedOnIsKept, StepKeeps
  <2>4. load' \in LoadType
    BY <1>3, <1>t DEF ClientLeaves, TypeOK, LoadType
  <2> QED
    BY <1>3, <1>t, <1>k, <2>3, <2>4 DEF ClientLeaves, TypeOK
<1>4. ASSUME NEW i \in Requests, Select(i) PROVE IInv'
  <2>1. PICK l \in SelectCandidate(request[i]) : Step(i, "select", AfterSelect(request[i], l))
    BY <1>4 DEF Select
  <2>2. l \in Lanes
    BY <1>t, CandidatesAreHealthy DEF TypeOK
  <2>3. request[i].pc = "select"
    BY <2>1 DEF Step
  <2>4. Kept
    BY <1>t, <2>1, <2>2, <2>3, SelectedIsKept, StepKeeps
  <2> QED
    BY <1>4, <1>t, <1>k, <2>4 DEF Select, TypeOK
<1>5. ASSUME NEW i \in Requests, SelectNone(i) PROVE IInv'
  <2>1. Outcome(request[i]) \in {"none", "answered", "failed", "unavailable"}
    BY DEF Outcome
  <2>2. Kept
    BY <1>5, <2>1, EndedIsKept, StepKeeps DEF SelectNone
  <2> QED
    BY <1>5, <1>t, <1>k, <2>2 DEF SelectNone, TypeOK
<1>6. ASSUME NEW i \in Requests, ForwardFails(i) \/ ForwardWorks(i) PROVE IInv'
  <2>1. request[i].pc \in Trying
    BY <1>6 DEF ForwardFails, ForwardWorks, Step, Trying
  <2>2. Kept
    BY <1>6, <1>t, <2>1, MovedOnIsKept, StepKeeps DEF ForwardFails, ForwardWorks
  <2> QED
    BY <1>6, <1>t, <1>k, <2>2 DEF ForwardFails, ForwardWorks, TypeOK
<1>7. ASSUME NEW i \in Requests, RecordFailure(i) \/ RecordUse(i) PROVE IInv'
  <2>1. request[i].pc \in Trying
    BY <1>7 DEF RecordFailure, RecordUse, Step, Trying
  <2>2. Kept
    BY <1>7, <1>t, <2>1, MovedOnIsKept, StepKeeps DEF RecordFailure, RecordUse
  <2>3. laneState' \in [Lanes -> {"ready", "error", "idle"}]
    BY <1>7, <1>t DEF RecordFailure, RecordUse, TypeOK
  <2> QED
    BY <1>7, <1>t, <1>k, <2>2, <2>3 DEF RecordFailure, RecordUse, TypeOK
<1>8. ASSUME NEW i \in Requests, DropLane(i) PROVE IInv'
  <2>1. request[i].pc \in Trying
    BY <1>8 DEF DropLane, Step, Trying
  <2>2. Kept
    BY <1>8, <1>t, <2>1, MovedOnIsKept, StepKeeps DEF DropLane
  <2> QED
    BY <1>8, <1>t, <1>k, <2>2 DEF DropLane, TypeOK
<1>9. ASSUME NEW i \in Requests, KeepLane(i) PROVE IInv'
  <2>1. Kept
    BY <1>9, EndedIsKept, StepKeeps DEF KeepLane
  <2>2. request[i].lane \in Lanes
    BY <1>9, <1>t DEF KeepLane, Step, Bookkeeping, Trying, RequestType
  <2> QED
    BY <1>9, <1>t, <1>k, <2>1, <2>2 DEF KeepLane, TypeOK
<1>10. CASE HealthCheck
  <2>1. /\ portUp' \in [Range(Ports) -> BOOLEAN] /\ load' \in LoadType
    BY <1>10, <1>t DEF HealthCheck, TypeOK, LoadType
  <2>2. \A l \in Lanes : portUp'[PortOf[l]] \in BOOLEAN
    BY <2>1, LaneAssumption
  <2>3. /\ nodeUp' \in [Lanes -> BOOLEAN]
        /\ laneState' \in [Lanes -> {"ready", "error", "idle"}]
    BY <1>10, <2>2 DEF HealthCheck, Reconciled
  <2>4. rebuild' \in [{"health", "admin"} -> [next : Nat, seen : SUBSET Lanes]]
    BY <1>10, <1>t DEF HealthCheck, TypeOK, Begun
  <2> QED
    BY <1>10, <1>t, <2>1, <2>3, <2>4 DEF HealthCheck, TypeOK, IInv
<1>11. ASSUME NEW p \in Range(Ports), ToggleNode(p) PROVE IInv'
  <2>1. load' \in LoadType
    BY <1>11, <1>t DEF ToggleNode, TypeOK, LoadType
  <2>2. rebuild' \in [{"health", "admin"} -> [next : Nat, seen : SUBSET Lanes]]
    BY <1>11, <1>t DEF ToggleNode, TypeOK, Begun
  <2> QED
    BY <1>11, <1>t, <2>1, <2>2 DEF ToggleNode, TypeOK, IInv
<1>12. ASSUME NEW b \in {"health", "admin"}, RebuildRead(b) PROVE IInv'
  <2>1. {l \in Registered : PortOf[l] = Ports[rebuild[b].next]} \subseteq Lanes
    BY DEF Registered
  <2>2. rebuild' \in [{"health", "admin"} -> [next : Nat, seen : SUBSET Lanes]]
    BY <1>12, <1>t, <2>1 DEF RebuildRead, TypeOK
  <2> QED
    BY <1>12, <1>t, <2>2 DEF RebuildRead, TypeOK, IInv
<1>13. ASSUME NEW b \in {"health", "admin"}, RebuildStore(b) PROVE IInv'
  BY <1>13, <1>t DEF RebuildStore, TypeOK, IInv, Quiet
<1>14. CASE UNCHANGED vars
  BY <1>14, <1>t DEF vars, TypeOK, IInv
<1> QED
  BY <1>1, <1>2, <1>3, <1>4, <1>5, <1>6, <1>7, <1>8, <1>9, <1>10, <1>11, <1>12, <1>13, <1>14
     DEF Next, Serve, Rebuild

\* The invariant holds in every reachable state.
THEOREM Invariance == Spec => []IInv
BY InitInv, InvStep, PTL DEF Spec

\* Snapshot, registry, requests and rebuilds only ever hold values of their types.
THEOREM TypeCorrect == Spec => []TypeOK
<1>1. IInv => TypeOK
  BY DEF IInv
<1> QED
  BY <1>1, Invariance, PTL

-----------------------------------------------------------------------------
(* A rule wins over the sticky key                                          *)

\* A request changes only in steps of its own.
LEMMA OthersKeep ==
    ASSUME TypeOK, NEW i \in Requests, NEW j \in Requests, NEW from, NEW q, Step(j, from, q)
    PROVE  /\ request[j].pc = from /\ request'[j] = q
           /\ j # i => request'[i] = request[i]
BY DEF TypeOK, Step

\* From "select" to "forward" leads Select only.
LEMMA OnlySelectForwards ==
    ASSUME IInv, Next, NEW i \in Requests,
           request[i].pc = "select", request'[i].pc = "forward"
    PROVE  Select(i)
<1> USE DEF registry
<1>t. TypeOK /\ \A j \in Requests : request[j] \in RequestType
  BY DEF IInv, TypeOK
<1>1. ASSUME NEW j \in Requests, NEW from, NEW q, Step(j, from, q), j # i \/ from # "select"
      PROVE  FALSE
  BY <1>1, <1>t, OthersKeep
<1>2. ASSUME UNCHANGED request PROVE FALSE
  BY <1>2
<1>3. ASSUME NEW j \in Requests, NEW route \in load.routes, AcceptHTTP(j, route[1], route[2])
      PROVE  FALSE
  BY <1>1, <1>3 DEF AcceptHTTP, Accept
<1>4. ASSUME NEW j \in Requests, AcceptSOCKS(j) PROVE FALSE
  BY <1>1, <1>4 DEF AcceptSOCKS, Accept
<1>5. ASSUME NEW j \in Requests, ClientLeaves(j) PROVE FALSE
  BY <1>1, <1>5 DEF ClientLeaves
<1>6. ASSUME NEW j \in Requests, Select(j), j # i PROVE FALSE
  BY <1>1, <1>6 DEF Select
<1>7. ASSUME NEW j \in Requests, SelectNone(j) PROVE FALSE
  <2>1. Step(j, "select", Ended(Outcome(request[j])))
    BY <1>7 DEF SelectNone
  <2>2. Ended(Outcome(request[j])).pc = "done"
    BY DEF Ended, NewRequest
  <2> QED
    BY <2>1, <2>2, <1>t, OthersKeep
<1>8. ASSUME NEW j \in Requests, ForwardFails(j) \/ ForwardWorks(j) PROVE FALSE
  BY <1>1, <1>8 DEF ForwardFails, ForwardWorks
<1>9. ASSUME NEW j \in Requests, RecordFailure(j) \/ DropLane(j) PROVE FALSE
  BY <1>1, <1>9 DEF RecordFailure, DropLane
<1>10. ASSUME NEW j \in Requests, RecordUse(j) \/ KeepLane(j) PROVE FALSE
  BY <1>1, <1>10 DEF RecordUse, KeepLane
<1>11. ~ HealthCheck /\ \A p \in Range(Ports) : ~ ToggleNode(p)
  BY <1>2 DEF HealthCheck, ToggleNode
<1>12. \A b \in {"health", "admin"} : ~ Rebuild(b)
  BY <1>2 DEF Rebuild, RebuildRead, RebuildStore
<1> QED
  BY <1>3, <1>4, <1>5, <1>6, <1>7, <1>8, <1>9, <1>10, <1>11, <1>12 DEF Next, Serve

\* If the rule's lane is an http lane in the snapshot, the first choice is that lane.
LEMMA RuleDecides ==
    ASSUME NEW q \in RequestType, Bookkeeping(q), q.attempted = {},
           q.target \in snapshot, q.target # NoLane, Protocol[q.target] = "http"
    PROVE  SelectCandidate(q) = {q.target}
<1>1. q.sticky = NoHash /\ q.lane = NoLane
  BY DEF Bookkeeping
<1>2. SelectTargetDispatcherLane(q.target, q.lane) = {q.target}
  BY <1>1 DEF SelectTargetDispatcherLane
<1> QED
  BY <1>1, <1>2 DEF SelectCandidate

LEMMA RuleStep == IInv /\ [Next]_vars => [RuleIsTaken]_vars
<1> SUFFICES ASSUME IInv, Next PROVE RuleIsTaken
  OBVIOUS
<1> SUFFICES ASSUME NEW i \in Requests, request[i].pc = "select", request[i].attempted = {},
                    request'[i].pc = "forward", request[i].target \in snapshot,
                    Protocol[request[i].target] = "http"
             PROVE  request'[i].lane = request[i].target
  BY DEF RuleIsTaken
<1>1. TypeOK /\ request[i] \in RequestType /\ Bookkeeping(request[i])
  BY DEF IInv, TypeOK
<1>2. request[i].target # NoLane
  BY <1>1, LanesAssumption DEF TypeOK, NoLane
<1>3. SelectCandidate(request[i]) = {request[i].target}
  BY <1>1, <1>2, RuleDecides
<1>4. PICK l \in SelectCandidate(request[i]) : Step(i, "select", AfterSelect(request[i], l))
  BY OnlySelectForwards DEF Select
<1>5. request'[i] = [request[i] EXCEPT !.pc = "forward", !.lane = l, !.attempted = @ \cup {l}]
  BY <1>1, <1>4, OthersKeep DEF AfterSelect
<1> QED
  BY <1>1, <1>3, <1>4, <1>5 DEF RequestType

\* selectCandidate gives a request with a matching rule the rule's lane first.
THEOREM RuleWins == Spec => RuleBeatsSticky
<1>1. Spec => [][RuleIsTaken]_vars
  BY Invariance, RuleStep, PTL DEF Spec
<1> QED
  BY <1>1 DEF RuleBeatsSticky

-----------------------------------------------------------------------------
(* The refinement of LaneService                                            *)

LEMMA ServiceInit == Init => Service!Init
BY DEF Init, Service!Init, NewRequest, Phase

phases == [i \in Requests |-> Phase(request[i].pc)]
lanes == [i \in Requests |-> request[i].lane]
tries == [i \in Requests |-> request[i].attempted]
outcomes == [i \in Requests |-> request[i].result]

LEMMA Phases ==
    /\ Phase("idle") = "new" /\ Phase("select") = "waiting" /\ Phase("done") = "done"
    /\ \A pc \in Trying : Phase(pc) = "trying"
BY DEF Phase, Trying

\* How a step of one request is seen by the abstract specification.
LEMMA StepSeen ==
    ASSUME TypeOK, NEW i \in Requests, NEW from, NEW q, Step(i, from, q)
    PROVE  /\ phases[i] = Phase(from) /\ phases' = [phases EXCEPT ![i] = Phase(q.pc)]
           /\ lanes' = [lanes EXCEPT ![i] = q.lane]
           /\ tries' = [tries EXCEPT ![i] = q.attempted]
           /\ outcomes' = [outcomes EXCEPT ![i] = q.result]
BY DEF TypeOK, Step, phases, lanes, tries, outcomes

\* What it leaves as it was is seen unchanged.
LEMMA SameSeen ==
    ASSUME NEW i \in Requests
    PROVE  /\ lanes = [lanes EXCEPT ![i] = request[i].lane]
           /\ tries = [tries EXCEPT ![i] = request[i].attempted]
           /\ outcomes = [outcomes EXCEPT ![i] = request[i].result]
           /\ phases = [phases EXCEPT ![i] = Phase(request[i].pc)]
BY DEF lanes, tries, outcomes, phases

\* One that only moves the request on is seen at most in its phase.
LEMMA MoveSeen ==
    ASSUME TypeOK, NEW i \in Requests, NEW from, NEW pc,
           Step(i, from, [request[i] EXCEPT !.pc = pc])
    PROVE  /\ phases[i] = Phase(from) /\ phases' = [phases EXCEPT ![i] = Phase(pc)]
           /\ UNCHANGED <<lanes, tries, outcomes>>
<1> DEFINE q == [request[i] EXCEPT !.pc = pc]
<1>1. q.pc = pc /\ q.lane = request[i].lane /\ q.attempted = request[i].attempted
      /\ q.result = request[i].result
  BY DEF TypeOK, RequestType
<1>2. Step(i, from, q)
  OBVIOUS
<1> HIDE DEF q
<1>3. /\ phases[i] = Phase(from) /\ phases' = [phases EXCEPT ![i] = Phase(q.pc)]
      /\ lanes' = [lanes EXCEPT ![i] = q.lane]
      /\ tries' = [tries EXCEPT ![i] = q.attempted]
      /\ outcomes' = [outcomes EXCEPT ![i] = q.result]
  BY <1>2, StepSeen
<1> QED
  BY <1>1, <1>3, SameSeen

\* One that ends the request is its End.
LEMMA EndSeen ==
    ASSUME TypeOK, NEW i \in Requests, NEW from, NEW result, Step(i, from, Ended(result))
    PROVE  Service!End(i, result) /\ phases[i] = Phase(from)
<1> DEFINE q == Ended(result)
<1>1. q.pc = "done" /\ q.lane = NoLane /\ q.attempted = {} /\ q.result = result
  BY DEF Ended, NewRequest
<1>2. Step(i, from, q)
  OBVIOUS
<1> HIDE DEF q
<1>3. /\ phases[i] = Phase(from) /\ phases' = [phases EXCEPT ![i] = Phase(q.pc)]
      /\ lanes' = [lanes EXCEPT ![i] = q.lane]
      /\ tries' = [tries EXCEPT ![i] = q.attempted]
      /\ outcomes' = [outcomes EXCEPT ![i] = q.result]
  BY <1>2, StepSeen
<1>4. /\ phases' = [phases EXCEPT ![i] = "done"] /\ lanes' = [lanes EXCEPT ![i] = NoLane]
      /\ tries' = [tries EXCEPT ![i] = {}] /\ outcomes' = [outcomes EXCEPT ![i] = result]
  BY <1>1, <1>3, Phases
<1> QED
  BY <1>3, <1>4 DEF Service!End, phases, lanes, tries, outcomes

LEMMA ServiceStep == IInv /\ [Next]_vars => [Service!Next]_Service!vars
<1> SUFFICES ASSUME IInv, [Next]_vars PROVE [Service!Next]_Service!vars
  OBVIOUS
<1> USE DEF registry
<1>t. /\ TypeOK /\ \A i \in Requests : request[i] \in RequestType /\ Bookkeeping(request[i])
  BY DEF IInv, TypeOK
<1>u. ASSUME UNCHANGED <<snapshot, phases, lanes, tries, outcomes>>
      PROVE  UNCHANGED Service!vars
  BY <1>u DEF Service!vars, phases, lanes, tries, outcomes
<1>c. ASSUME UNCHANGED request, snapshot' \subseteq Lanes PROVE Service!Next
  BY <1>c DEF Service!Next, Service!Change
<1>1. ASSUME NEW i \in Requests, NEW q \in RequestType, Accept(i, q), q.pc = "select",
             q.lane = request[i].lane, q.attempted = request[i].attempted,
             q.result = request[i].result
      PROVE  Service!Next
  <2>1. /\ phases[i] = "new" /\ phases' = [phases EXCEPT ![i] = "waiting"]
        /\ lanes' = lanes /\ tries' = tries /\ outcomes' = outcomes
    BY <1>1, <1>t, StepSeen, SameSeen, Phases DEF Accept
  <2>2. Service!Accept(i)
    BY <1>1, <2>1 DEF Accept, Service!Accept, phases, lanes, tries, outcomes
  <2> QED
    BY <2>2 DEF Service!Next
<1>2. ASSUME NEW i \in Requests, NEW route \in load.routes, AcceptHTTP(i, route[1], route[2])
      PROVE  Service!Next
  <2> DEFINE routing == Routing(route[1], route[2])
             q == [request[i] EXCEPT !.pc = "select", !.target = routing.target,
                                     !.sticky = routing.sticky]
  <2>1. route[1] \in Lanes \cup {NoLane} /\ route[2] \in Nat \cup {NoHash}
    BY <1>t DEF TypeOK, LoadType
  <2>2. request[i].pc = "idle" /\ Accept(i, q)
    BY <1>2 DEF AcceptHTTP, Accept, Step
  <2>3. q \in RequestType
    BY <1>t, <2>1, <2>2, AcceptedIsKept
  <2>4. /\ q.pc = "select" /\ q.lane = request[i].lane
        /\ q.attempted = request[i].attempted /\ q.result = request[i].result
    BY <1>t DEF RequestType
  <2> HIDE DEF q
  <2> QED
    BY <1>1, <2>2, <2>3, <2>4
<1>3. ASSUME NEW i \in Requests, AcceptSOCKS(i) PROVE Service!Next
  <2> DEFINE q == [request[i] EXCEPT !.pc = "select", !.kind = "socks"]
  <2>1. Accept(i, q) /\ q \in RequestType
    BY <1>3, <1>t DEF AcceptSOCKS, RequestType
  <2>2. /\ q.pc = "select" /\ q.lane = request[i].lane
        /\ q.attempted = request[i].attempted /\ q.result = request[i].result
    BY <1>t DEF RequestType
  <2> HIDE DEF q
  <2> QED
    BY <1>1, <2>1, <2>2
<1>4. ASSUME NEW i \in Requests, ClientLeaves(i) PROVE UNCHANGED Service!vars
  <2> DEFINE q == [request[i] EXCEPT !.gone = TRUE]
  <2>1. PICK pc \in {"forward", "failing", "working"} : Step(i, pc, q)
    BY <1>4 DEF ClientLeaves
  <2>2. /\ q.pc = request[i].pc /\ q.lane = request[i].lane
        /\ q.attempted = request[i].attempted /\ q.result = request[i].result
    BY <1>t DEF RequestType
  <2> HIDE DEF q
  <2>3. UNCHANGED <<phases, lanes, tries, outcomes>>
    BY <1>t, <2>1, <2>2, StepSeen, SameSeen
  <2> QED
    BY <1>4, <1>u, <2>3 DEF ClientLeaves
<1>5. ASSUME NEW i \in Requests, Select(i) PROVE Service!Next
  <2>1. PICK l \in SelectCandidate(request[i]) : Step(i, "select", AfterSelect(request[i], l))
    BY <1>5 DEF Select
  <2>2. l \in snapshot /\ l \in Lanes
    BY <1>t, CandidatesAreHealthy DEF TypeOK
  <2>3. CASE l \in request[i].attempted
    <3>1. Service!End(i, "failed") /\ phases[i] = "waiting"
      BY <1>t, <2>1, <2>3, EndSeen DEF AfterSelect, Phase
    <3>2. Service!GiveUp(i)
      BY <1>5, <2>3, <3>1 DEF Select, Service!GiveUp, phases
    <3> QED
      BY <3>2 DEF Service!Next
  <2>4. CASE l \notin request[i].attempted
    <3> DEFINE q == [request[i] EXCEPT !.pc = "forward", !.lane = l,
                                       !.attempted = @ \cup {l}]
    <3>1. Step(i, "select", q)
      BY <2>1, <2>4 DEF AfterSelect
    <3>2. /\ q.pc = "forward" /\ q.lane = l /\ q.attempted = request[i].attempted \cup {l}
          /\ q.result = request[i].result
      BY <1>t DEF RequestType
    <3> HIDE DEF q
    <3>3. /\ phases[i] = "waiting" /\ phases' = [phases EXCEPT ![i] = "trying"]
          /\ lanes' = [lanes EXCEPT ![i] = l]
          /\ tries' = [tries EXCEPT ![i] = request[i].attempted \cup {l}]
          /\ outcomes' = outcomes
      BY <1>t, <3>1, <3>2, StepSeen, SameSeen, Phases DEF Trying
    <3>4. Service!Try(i, l)
      BY <1>5, <2>2, <2>4, <3>3 DEF Select, Service!Try, phases, lanes, tries, outcomes
    <3> QED
      BY <2>2, <3>4 DEF Service!Next
  <2> QED
    BY <2>3, <2>4
<1>6. ASSUME NEW i \in Requests, SelectNone(i) PROVE Service!Next
  <2>1. snapshot = {} /\ snapshot' = snapshot /\ tries[i] = request[i].attempted
    BY <1>6, <1>t, CandidatesAreHealthy DEF SelectNone, tries
  <2>2. CASE request[i].attempted = {}
    <3>1. Step(i, "select", Ended("unavailable"))
      BY <1>6, <2>2 DEF SelectNone, Outcome
    <3>2. Service!End(i, "unavailable") /\ phases[i] = "waiting"
      BY <1>t, <3>1, EndSeen, Phases
    <3>3. Service!Refuse(i)
      BY <2>1, <2>2, <3>2 DEF Service!Refuse, phases, tries
    <3> QED
      BY <3>3 DEF Service!Next
  <2>3. CASE request[i].attempted # {}
    <3>1. Step(i, "select", Ended("failed"))
      BY <1>6, <2>3 DEF SelectNone, Outcome
    <3>2. Service!End(i, "failed") /\ phases[i] = "waiting"
      BY <1>t, <3>1, EndSeen, Phases
    <3>3. Service!GiveUp(i)
      BY <2>1, <2>3, <3>2 DEF Service!GiveUp, phases, tries
    <3> QED
      BY <3>3 DEF Service!Next
  <2> QED
    BY <2>2, <2>3
<1>7. ASSUME NEW i \in Requests,
             ForwardFails(i) \/ ForwardWorks(i) \/ RecordFailure(i) \/ RecordUse(i)
      PROVE  UNCHANGED Service!vars
  <2>1. PICK from \in {"forward", "failing", "working"}, pc \in {"failing", "working", "dropping", "keeping"} :
              Step(i, from, [request[i] EXCEPT !.pc = pc])
    BY <1>7 DEF ForwardFails, ForwardWorks, RecordFailure, RecordUse
  <2>2. /\ phases[i] = "trying" /\ phases' = [phases EXCEPT ![i] = "trying"]
        /\ UNCHANGED <<lanes, tries, outcomes>>
    BY <1>t, <2>1, MoveSeen DEF Phase
  <2>3. phases' = phases
    BY <2>2 DEF phases
  <2> QED
    BY <1>7, <1>u, <2>2, <2>3 DEF ForwardFails, ForwardWorks, RecordFailure, RecordUse
<1>8. ASSUME NEW i \in Requests, DropLane(i) PROVE Service!Next
  <2>1. /\ phases[i] = "trying" /\ phases' = [phases EXCEPT ![i] = "waiting"]
        /\ UNCHANGED <<lanes, tries, outcomes>>
    BY <1>8, <1>t, MoveSeen, Phases DEF DropLane, Trying
  <2>2. Service!Fail(i)
    BY <1>8, <2>1 DEF DropLane, Service!Fail, phases, lanes, tries, outcomes
  <2> QED
    BY <2>2 DEF Service!Next
<1>9. ASSUME NEW i \in Requests, KeepLane(i) PROVE Service!Next
  <2>1. Service!End(i, "answered") /\ phases[i] = "trying"
    BY <1>9, <1>t, EndSeen DEF KeepLane, Phase
  <2>2. Service!Answer(i)
    BY <1>9, <2>1 DEF KeepLane, Service!Answer, phases, lanes
  <2> QED
    BY <2>2 DEF Service!Next
<1>10. CASE HealthCheck
  BY <1>10, <1>c, <1>t DEF HealthCheck, TypeOK
<1>11. ASSUME NEW p \in Range(Ports), ToggleNode(p) PROVE Service!Next
  BY <1>11, <1>c, <1>t DEF ToggleNode, TypeOK
<1>12. ASSUME NEW b \in {"health", "admin"}, Rebuild(b) PROVE Service!Next
  BY <1>12, <1>c, <1>t DEF Rebuild, RebuildRead, RebuildStore, TypeOK
<1>13. CASE UNCHANGED vars
  <2>1. UNCHANGED <<snapshot, phases, lanes, tries, outcomes>>
    BY <1>13 DEF vars, phases, lanes, tries, outcomes
  <2> QED
    BY <1>u, <2>1
<1> QED
  BY <1>2, <1>3, <1>4, <1>5, <1>6, <1>7, <1>8, <1>9, <1>10, <1>11, <1>12, <1>13
     DEF Next, Serve

\* serveHTTP and serveSOCKS keep what LaneService promises, however the requests,
\* the health check and the rebuilds of the snapshot interleave.
THEOREM ServiceRefined == Spec => ImplementsLaneService
<1>1. Spec => Service!Spec
  BY ServiceInit, ServiceStep, Invariance, PTL DEF Spec, Service!Spec
<1> QED
  BY <1>1 DEF ImplementsLaneService
=============================================================================
