----------------------------- MODULE PortFailover -----------------------------
(***************************************************************************)
(* One port seen by one health check after another: probe and score every  *)
(* node, then keep or move the active node (runHealthCheck and             *)
(* reconcilePortRuntime in internal/app/app.go), with the administrator's  *)
(* switch, unlock, disable and enable in between.  Each of these is one    *)
(* step here: what they do to each other when they overlap is the subject  *)
(* of ControlPlane.  Here the statuses carry real latencies and scores.    *)
(***************************************************************************)
EXTENDS NodeSelection

CONSTANTS
    Nodes,       \* node ids, a set of positive integers
    Latencies,   \* latencies a probe may measure, in ms
    PortModes,   \* the settings the administrator gives the port
    MaxFails     \* cap of the consecutive failures counter, for TLC only

ASSUME NodesAssumption == Nodes \subseteq Nat \ {0} /\ Nodes # {} /\ IsFiniteSet(Nodes)
ASSUME LatenciesAssumption == Latencies \subseteq Nat \ {0}
ASSUME PortModesAssumption ==
    PortModes \subseteq {"single_active", "sequential", "random", "balance"}
ASSUME MaxFailsAssumption == MaxFails \in Nat \ {0}

VARIABLES
    status,   \* the node_runtime_status rows, by node id
    active,   \* port_runtime_state.current_active_node_id
    mode,     \* port_runtime_state.selection_mode
    portMode, \* "single_active", or the algorithm of a "pool" port
    checked   \* not in the code: the last step was a health check that
              \* switched the selector wherever it wanted to

vars == <<status, active, mode, portMode, checked>>

Init ==
    /\ status = [n \in Nodes |-> FreshStatus]
    /\ active = Least(Nodes)
    /\ mode = "auto"
    /\ portMode \in PortModes
    /\ checked = FALSE

-----------------------------------------------------------------------------
(* reconcilePortRuntime                                                     *)

\* A plausible bug: manual_locked is not looked at before the pool algorithm.
CandidatesIgnoringLock(sts) ==
    CASE portMode = "sequential" -> SelectSequentialNext(active, sts)
      [] portMode = "random" -> SelectRandomNext(active, sts)
      [] portMode = "balance" -> SelectBalanceNext(active, sts)
      [] OTHER -> IF Healthy(sts[active]) THEN {} ELSE SelectNext(active, sts)

\* A plausible bug: a locked port whose rotation finds no node is not given a
\* second attempt.
CandidatesOneAttempt(sts) ==
    CASE mode = "manual_locked" /\ Healthy(sts[active]) -> {}
      [] (mode = "manual_locked" /\ ~Healthy(sts[active]))
            \/ (mode = "auto" /\ portMode = "sequential") -> SelectSequentialNext(active, sts)
      [] mode = "auto" /\ portMode = "random" -> SelectRandomNext(active, sts)
      [] mode = "auto" /\ portMode = "balance" -> SelectBalanceNext(active, sts)
      [] mode = "auto" /\ portMode = "single_active" ->
            IF Healthy(sts[active]) THEN {} ELSE SelectNext(active, sts)

\* The nodes the port may move to; none means it stays.
Candidates(sts) ==
    CASE mode = "manual_locked" /\ Healthy(sts[active]) -> {}
      [] mode = "manual_locked" /\ ~Healthy(sts[active]) ->
            IF SelectSequentialNext(active, sts) # {}
            THEN SelectSequentialNext(active, sts)
            ELSE SelectNext(active, sts)
      [] mode = "auto" /\ portMode = "sequential" -> SelectSequentialNext(active, sts)
      [] mode = "auto" /\ portMode = "random" -> SelectRandomNext(active, sts)
      [] mode = "auto" /\ portMode = "balance" -> SelectBalanceNext(active, sts)
      [] mode = "auto" /\ portMode = "single_active" ->
            IF Healthy(sts[active]) THEN {} ELSE SelectNext(active, sts)

\* A port that fails over outside manual_locked and the pool algorithms goes
\* back to "auto"; the others keep their selection mode.
Reconcile(sts) ==
    \/ /\ Candidates(sts) = {}
       /\ UNCHANGED <<active, mode>>
    \/ /\ active' \in Candidates(sts)
       /\ mode' = mode

\* Every probe ends in some latency or in a failure; 0 stands for the failure.
HealthCheck ==
    /\ \E outcome \in [Nodes -> Latencies \cup {0}] :
          status' = [n \in Nodes |-> Score(Probed(status[n], outcome[n], MaxFails))]
    /\ Reconcile(status')
    /\ checked' = TRUE
    /\ UNCHANGED portMode

\* The selector could not be switched over the Clash API: the port stays.
HealthCheckSwitchFails ==
    /\ \E outcome \in [Nodes -> Latencies \cup {0}] :
          status' = [n \in Nodes |-> Score(Probed(status[n], outcome[n], MaxFails))]
    /\ Candidates(status') # {}
    /\ checked' = FALSE
    /\ UNCHANGED <<active, mode, portMode>>

-----------------------------------------------------------------------------
(* The administrator                                                        *)

\* A plausible bug: the reason of the switch is written into the mode.
SwitchNodeSwapped(n) ==
    /\ Healthy(status[n])
    /\ active' = n
    /\ mode' = "manual_switch"
    /\ checked' = FALSE
    /\ UNCHANGED <<status, portMode>>

SwitchNode(n) ==
    /\ Healthy(status[n])
    /\ active' = n
    /\ mode' = "manual_locked"
    /\ checked' = FALSE
    /\ UNCHANGED <<status, portMode>>

UnlockSelection ==
    /\ mode' = "auto"
    /\ checked' = FALSE
    /\ UNCHANGED <<status, active, portMode>>

SetNodeManualDisabled(n, disabled) ==
    /\ status' = [status EXCEPT ![n].disabled = disabled]
    /\ checked' = FALSE
    /\ UNCHANGED <<active, mode, portMode>>

\* The new settings take effect at the next health check; a lock stays.
UpdateRuntimeSettings(m) ==
    /\ portMode' = m
    /\ checked' = FALSE
    /\ UNCHANGED <<status, active, mode>>

Next ==
    \/ HealthCheck
    \/ HealthCheckSwitchFails
    \/ \E n \in Nodes : SwitchNode(n)
    \/ UnlockSelection
    \/ \E n \in Nodes, disabled \in BOOLEAN : SetNodeManualDisabled(n, disabled)
    \/ \E m \in PortModes : UpdateRuntimeSettings(m)

Spec == Init /\ [][Next]_vars

-----------------------------------------------------------------------------
(* Properties                                                               *)

Status == [state : States, tier : Tiers, score : Int, latency : Nat,
           rate : {0, 1}, fails : Nat, disabled : BOOLEAN]

\* Type invariant.
TypeOK ==
    /\ status \in [Nodes -> Status]
    /\ active \in Nodes
    /\ mode \in {"auto", "manual_locked"}
    /\ portMode \in PortModes
    /\ checked \in BOOLEAN

HealthyNodes == Eligible(status)

\* After a health check whose switch worked, no port sits on a dead or disabled
\* node while a healthy one exists, unless it is left to the sequential rotation.
FindsHealthy ==
    checked' /\ (portMode # "sequential" \/ mode = "manual_locked")
        => HealthyNodes' = {} \/ active' \in HealthyNodes'
FailoverFindsHealthy == [][FindsHealthy]_vars

\* A locked port leaves the node the administrator chose only when that node
\* died or was disabled, whatever the pool algorithm, and it stays locked.
KeepsLock ==
    checked' /\ mode = "manual_locked" =>
        /\ mode' = "manual_locked"
        /\ active \in HealthyNodes' => active' = active
LockHolds == [][KeepsLock]_vars

\* Failover reference: SelectNext misses no healthy node, never returns the
\* current one, and of the tier it settles for returns a best one.
SelectNextIsBest ==
    \A current \in Nodes :
        LET chosen == SelectNext(current, status)
            others == HealthyNodes \ {current}
            tiers == {status[n].tier : n \in chosen}
            better(n) == {m \in others : status[m].tier = status[n].tier
                                         /\ status[m].score > status[n].score}
        IN  /\ (chosen = {}) = (others = {})
            /\ chosen \subseteq others
            /\ Cardinality(tiers) <= 1
            /\ \A n \in chosen : better(n) = {}

\* Sequential rotation leaves no eligible node out: with two or more of them, no
\* proper subset of the eligible nodes is closed under "next", so that repeating
\* it from any of them visits them all.
RotationCoversAll ==
    Cardinality(HealthyNodes) > 1 =>
        \A S \in SUBSET HealthyNodes :
            S # {} /\ S # HealthyNodes
                => \E n \in S : SelectSequentialNext(n, status) \cap (HealthyNodes \ S) # {}

\* What the design document asks of a failover (8.4), for the rotation as well:
\* the active node is replaced as long as a healthy node is left.
RotationFindsHealthy ==
    [][ checked' /\ portMode = "sequential"
            => HealthyNodes' = {} \/ active' \in HealthyNodes' ]_vars
=============================================================================
