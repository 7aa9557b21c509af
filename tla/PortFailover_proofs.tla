-------------------------- MODULE PortFailover_proofs --------------------------
(***************************************************************************)
(* Proofs about the port of PortFailover, for any nodes, latencies and port *)
(* modes.  The type invariant is inductive, and all that is needed of the  *)
(* states; what the selectors return is in NodeSelection_proofs.           *)
(***************************************************************************)
EXTENDS PortFailover, NodeSelection_proofs

\* Statuses of this model may be given to the selectors.
LEMMA StatusesAreListed ==
    ASSUME NEW sts \in [Nodes -> Status]
    PROVE  Listed(sts) /\ Eligible(sts) \subseteq Nodes
BY NodesAssumption DEF Listed, Status, Eligible

\* The port moves only to eligible nodes.
LEMMA CandidatesAreEligible ==
    ASSUME TypeOK, NEW sts \in [Nodes -> Status]
    PROVE  Candidates(sts) \subseteq Eligible(sts)
<1>1. Listed(sts) /\ active \in Nat
  BY StatusesAreListed, NodesAssumption DEF TypeOK
<1>2. SelectSequentialNext(active, sts) \subseteq Eligible(sts)
  BY <1>1, SequentialIs
<1>3. SelectNext(active, sts) \subseteq Eligible(sts)
  BY <1>1, SelectNextIs
<1>4. SelectRandomNext(active, sts) \subseteq Eligible(sts)
  BY DEF SelectRandomNext
<1>5. /\ mode \in {"auto", "manual_locked"}
      /\ portMode \in {"single_active", "sequential", "random", "balance"}
  BY PortModesAssumption DEF TypeOK
<1> QED
  BY <1>2, <1>3, <1>4, <1>5 DEF Candidates, SelectBalanceNext

\* Probing and scoring a node's row yields such a row.
LEMMA ScoredIsStatus ==
    ASSUME NEW st \in Status, NEW latency \in Latencies \cup {0}
    PROVE  Score(Probed(st, latency, MaxFails)) \in Status
<1> DEFINE probed == Probed(st, latency, MaxFails)
<1>1. probed \in Status
  <2>1. CASE latency > 0
    <3>1. latency \in Nat
      BY LatenciesAssumption
    <3>2. [st EXCEPT !.latency = latency, !.rate = 1, !.fails = 0, !.state = "active"] \in Status
      BY <3>1 DEF Status, States
    <3> QED
      BY <2>1, <3>2 DEF Probed
  <2>2. CASE ~ (latency > 0)
    <3> DEFINE fails == IF st.fails < MaxFails THEN st.fails + 1 ELSE st.fails
    <3>1. fails \in Nat
      BY DEF Status
    <3> HIDE DEF fails
    <3>2. [st EXCEPT !.fails = fails, !.state = "cooldown"] \in Status
      BY <3>1 DEF Status, States
    <3>3. probed = [st EXCEPT !.fails = fails, !.state = "cooldown"]
      BY <2>2 DEF Probed, fails
    <3> QED
      BY <3>2, <3>3
  <2> QED
    BY <2>1, <2>2
<1> HIDE DEF probed
<1> DEFINE score == ScoreOf(probed.latency, probed.rate, probed.fails)
<1>2. score \in Int
  BY <1>1 DEF Status, ScoreOf
<1>3. TierOf(score) \in Tiers
  BY <1>2 DEF TierOf, Tiers
<1> HIDE DEF score
<1>4. [probed EXCEPT !.score = score, !.tier = TierOf(score),
                     !.state = IF probed.fails >= 3 THEN "cooldown" ELSE @] \in Status
  BY <1>1, <1>2, <1>3 DEF Status, States
<1> QED
  BY <1>4 DEF Score, probed, score

LEMMA InitTyped == Init => TypeOK
<1>1. Nodes \in SUBSET Nat
  BY NodesAssumption
<1>2. Least(Nodes) \in Nodes
  BY <1>1, LeastIs, NodesAssumption
<1>3. FreshStatus \in Status
  BY DEF FreshStatus, Status, States, Tiers
<1> QED
  BY <1>2, <1>3 DEF Init, TypeOK

\* What both outcomes of a health check do to the rows.
LEMMA ChecksTyped ==
    ASSUME TypeOK, HealthCheck \/ HealthCheckSwitchFails
    PROVE  status' \in [Nodes -> Status]
<1>1. PICK outcome \in [Nodes -> Latencies \cup {0}] :
            status' = [n \in Nodes |-> Score(Probed(status[n], outcome[n], MaxFails))]
  BY DEF HealthCheck, HealthCheckSwitchFails
<1>2. \A n \in Nodes : Score(Probed(status[n], outcome[n], MaxFails)) \in Status
  BY ScoredIsStatus DEF TypeOK
<1> QED
  BY <1>1, <1>2

LEMMA TypeStep == TypeOK /\ [Next]_vars => TypeOK'
<1> SUFFICES ASSUME TypeOK, [Next]_vars PROVE TypeOK'
  OBVIOUS
<1>1. CASE HealthCheck
  <2>1. status' \in [Nodes -> Status]
    BY <1>1, ChecksTyped
  <2>2. Candidates(status') \subseteq Nodes
    BY <2>1, CandidatesAreEligible, StatusesAreListed
  <2> QED
    BY <1>1, <2>1, <2>2 DEF HealthCheck, Reconcile, TypeOK
<1>2. CASE HealthCheckSwitchFails
  BY <1>2, ChecksTyped DEF HealthCheckSwitchFails, TypeOK
<1>3. ASSUME NEW n \in Nodes, SwitchNode(n) PROVE TypeOK'
  BY <1>3 DEF SwitchNode, TypeOK
<1>4. CASE UnlockSelection
  BY <1>4 DEF UnlockSelection, TypeOK
<1>5. ASSUME NEW n \in Nodes, NEW disabled \in BOOLEAN, SetNodeManualDisabled(n, disabled)
      PROVE  TypeOK'
  <2>1. [status[n] EXCEPT !.disabled = disabled] \in Status
    BY DEF TypeOK, Status
  <2> QED
    BY <1>5, <2>1 DEF SetNodeManualDisabled, TypeOK
<1>6. ASSUME NEW m \in PortModes, UpdateRuntimeSettings(m) PROVE TypeOK'
  BY <1>6 DEF UpdateRuntimeSettings, TypeOK
<1>7. CASE UNCHANGED vars
  BY <1>7 DEF vars, TypeOK
<1> QED
  BY <1>1, <1>2, <1>3, <1>4, <1>5, <1>6, <1>7 DEF Next

\* Rows, active node and modes only ever hold values of their types.
THEOREM TypeCorrect == Spec => []TypeOK
BY InitTyped, TypeStep, PTL DEF Spec

-----------------------------------------------------------------------------
(* The selectors on the rows a port can have                                 *)

\* selectNext finds a best other node of its tier whenever there is any.
THEOREM NextIsBest == Spec => []SelectNextIsBest
<1>1. TypeOK => SelectNextIsBest
  <2> SUFFICES ASSUME TypeOK, NEW current \in Nodes
               PROVE  LET chosen == SelectNext(current, status)
                          others == HealthyNodes \ {current}
                          tiers == {status[n].tier : n \in chosen}
                          better(n) == {m \in others : status[m].tier = status[n].tier
                                                       /\ status[m].score > status[n].score}
                      IN  /\ (chosen = {}) = (others = {})
                          /\ chosen \subseteq others
                          /\ Cardinality(tiers) <= 1
                          /\ \A n \in chosen : better(n) = {}
    BY DEF SelectNextIsBest
  <2> DEFINE chosen == SelectNext(current, status)
             others == HealthyNodes \ {current}
             tiers == {status[n].tier : n \in chosen}
  <2>1. Listed(status)
    BY StatusesAreListed DEF TypeOK
  <2>2. /\ chosen \subseteq others
        /\ others # {} => chosen # {}
        /\ \E t \in Tiers : \A n \in chosen : status[n].tier = t
        /\ \A n \in chosen, m \in others :
             status[m].tier = status[n].tier => status[m].score <= status[n].score
    BY <2>1, SelectNextIs DEF HealthyNodes
  <2>3. Cardinality(tiers) <= 1
    <3>1. PICK t \in Tiers : tiers \subseteq {t}
      BY <2>2
    <3>2. IsFiniteSet({t}) /\ Cardinality({t}) = 1
      BY FS_Singleton
    <3> HIDE DEF tiers
    <3> QED
      BY <3>1, <3>2, FS_Subset
  <2>4. \A n \in others : status[n].score \in Int
    BY DEF HealthyNodes, Eligible, TypeOK, Status
  <2> HIDE DEF chosen
  <2>5. ASSUME NEW n \in chosen
        PROVE  {m \in others : status[m].tier = status[n].tier
                               /\ status[m].score > status[n].score} = {}
    BY <2>2, <2>4
  <2> QED
    BY <2>2, <2>3, <2>5 DEF chosen
<1> QED
  BY <1>1, TypeCorrect, PTL

\* Repeating the rotation reaches every eligible node.
THEOREM RotationVisitsAll == Spec => []RotationCoversAll
<1>1. TypeOK => RotationCoversAll
  <2> SUFFICES ASSUME TypeOK PROVE RotationCoversAll
    OBVIOUS
  <2>1. Listed(status)
    BY StatusesAreListed DEF TypeOK
  <2> QED
    BY <2>1, SequentialCovers DEF RotationCoversAll, HealthyNodes
<1> QED
  BY <1>1, TypeCorrect, PTL

-----------------------------------------------------------------------------
(* What a health check does to the active node                               *)

\* Outside the rotation, a port stays where it is only on an eligible node, or if
\* there is none.
LEMMA StaysOnHealthy ==
    ASSUME TypeOK, NEW sts \in [Nodes -> Status], Candidates(sts) = {},
           portMode # "sequential" \/ mode = "manual_locked"
    PROVE  Eligible(sts) = {} \/ active \in Eligible(sts)
<1>1. SelectNext(active, sts) = {} => Eligible(sts) \ {active} = {}
  BY StatusesAreListed, SelectNextIs
<1>2. Healthy(sts[active]) => active \in Eligible(sts)
  BY DEF Eligible, TypeOK
<1>3. /\ mode \in {"auto", "manual_locked"}
      /\ portMode \in {"single_active", "sequential", "random", "balance"}
  BY PortModesAssumption DEF TypeOK
<1>4. Healthy(sts[active]) \/ Eligible(sts) \ {active} = {}
  BY <1>1, <1>2, <1>3 DEF Candidates, SelectBalanceNext, SelectRandomNext
<1> QED
  BY <1>2, <1>4

LEMMA FailoverStep == TypeOK /\ [Next]_vars => [FindsHealthy]_vars
<1> SUFFICES ASSUME TypeOK, Next, checked', portMode # "sequential" \/ mode = "manual_locked"
             PROVE  HealthyNodes' = {} \/ active' \in HealthyNodes'
  BY DEF FindsHealthy
<1>1. HealthCheck
  BY DEF Next, HealthCheckSwitchFails, SwitchNode, UnlockSelection, SetNodeManualDisabled,
         UpdateRuntimeSettings
<1>2. status' \in [Nodes -> Status]
  BY <1>1, ChecksTyped
<1>3. CASE Candidates(status') = {} /\ active' = active
  BY <1>2, <1>3, StaysOnHealthy DEF HealthyNodes
<1>4. CASE active' \in Candidates(status')
  BY <1>2, <1>4, CandidatesAreEligible DEF HealthyNodes
<1> QED
  BY <1>1, <1>3, <1>4 DEF HealthCheck, Reconcile

\* reconcilePortRuntime leaves no port on a dead or disabled node while a healthy
\* one is left, but for the rotation.
THEOREM FailoverFinds == Spec => FailoverFindsHealthy
<1>1. Spec => [][FindsHealthy]_vars
  BY TypeCorrect, FailoverStep, PTL DEF Spec
<1> QED
  BY <1>1 DEF FailoverFindsHealthy

LEMMA LockStep == TypeOK /\ [Next]_vars => [KeepsLock]_vars
<1> SUFFICES ASSUME TypeOK, Next, checked', mode = "manual_locked"
             PROVE  /\ mode' = "manual_locked"
                    /\ active \in HealthyNodes' => active' = active
  BY DEF KeepsLock
<1>1. HealthCheck
  BY DEF Next, HealthCheckSwitchFails, SwitchNode, UnlockSelection, SetNodeManualDisabled,
         UpdateRuntimeSettings
<1>2. mode' = mode
  BY <1>1 DEF HealthCheck, Reconcile
<1>3. ASSUME active \in HealthyNodes' PROVE active' = active
  <2>1. Healthy(status'[active])
    BY <1>3 DEF HealthyNodes, Eligible
  <2>2. Candidates(status') = {}
    BY <2>1 DEF Candidates
  <2> QED
    BY <1>1, <2>2 DEF HealthCheck, Reconcile
<1> QED
  BY <1>2, <1>3

\* A health check respects a manual lock whose node is still healthy.
THEOREM LockIsKept == Spec => LockHolds
<1>1. Spec => [][KeepsLock]_vars
  BY TypeCorrect, LockStep, PTL DEF Spec
<1> QED
  BY <1>1 DEF LockHolds
=============================================================================
