------------------------------ MODULE PortChoices ------------------------------
(***************************************************************************)
(* What the registry promises the administrator of what is chosen for each *)
(* port, by source key: the active node, whether it is locked, the nodes   *)
(* that are disabled.  A refresh is one step, which keeps every choice of  *)
(* a key that is still served; a health check changes nothing but the      *)
(* active node, to one that is not disabled; a request changes its port as *)
(* it says.  This is so unless they overlap: what another activity, or a   *)
(* sing-box that exits, interferes with is disturbed from then on, and a   *)
(* refresh that is disturbed or cut short before it is settled may forget  *)
(* choices, though never add to what is disabled.                          *)
(*                                                                         *)
(* A port that a start has found newly listed begins with the choices of   *)
(* the default port.  From then on they are its own, but for the nodes     *)
(* that are disabled: of each of them it follows the default port until it *)
(* is asked to disable or enable it, or a refresh replaces them all.       *)
(***************************************************************************)
CONSTANTS Keys, NoKey, Ports, Default

VARIABLES
    served,   \* the keys of the subscription
    choice,   \* what is chosen, by port
    following,\* the keys a port heeds the default port in
    refresh,  \* "idle", "reading", then "carrying" the choices over until it is
              \* "settled"; or "disturbed"
    check,    \* the health check: "idle", "calm" or "disturbed"
    request   \* the administrator's request

vars == <<served, choice, following, refresh, check, request>>

Choice == [key : Keys \cup {NoKey}, mode : {"auto", "manual_locked"}, off : SUBSET Keys]

NoRequest == [op |-> "none", port |-> Default, key |-> NoKey]

Init ==
    /\ served = Keys
    /\ \E key \in Keys : choice = [p \in Ports |-> [key |-> key, mode |-> "auto", off |-> {}]]
    /\ \E fresh \in SUBSET (Ports \ {Default}) :
          following = [p \in Ports |-> IF p \in fresh THEN Keys ELSE {}]
    /\ refresh = "idle" /\ check = "idle" /\ request = NoRequest

\* What may be left of choice c: it may have forgotten what was disabled and which
\* node was active, but it locks no node that was not.
Forgotten(c) ==
    {d \in Choice :
        /\ d.off \subseteq c.off
        /\ \/ d.key = NoKey \/ d.mode = "auto"
           \/ d.key = c.key /\ d.mode = c.mode}

\* What others find of the choices: until it is settled, a refresh may have written
\* only some of them.
Found ==
    IF refresh = "carrying"
    THEN {found \in [Ports -> Choice] : \A p \in Ports : found[p] \in Forgotten(choice[p])}
    ELSE {choice}

\* The choices found, once port q has key disabled or enabled: on the default port, for
\* the ports that follow it as well.
Heeding(q, key) == {q} \cup {p \in Ports : q = Default /\ key \in following[p]}
Flagged(found, q, key, off) ==
    [p \in Ports |->
        IF p \notin Heeding(q, key) THEN found[p]
        ELSE [found[p] EXCEPT !.off = IF off THEN @ \cup ({key} \ {NoKey}) ELSE @ \ {key}]]

Disturbed(x) == IF x \in {"idle", "settled"} THEN "idle" ELSE "disturbed"

\* Whether it takes notice or not.
Overlapped(x) == {x, Disturbed(x)}

-----------------------------------------------------------------------------
(* Refreshes                                                                *)

BeginRefresh ==
    /\ refresh = "idle"
    /\ refresh' = "reading"
    /\ UNCHANGED <<served, choice, following, check, request>>

\* A request that was under way names a node that is gone.
Replace(keys) ==
    /\ served' = keys
    /\ following' = [p \in Ports |-> {}]
    /\ check' = Disturbed(check)
    /\ request' = [request EXCEPT !.key = NoKey]

Carry(keys, first) ==
    /\ refresh = "reading"
    /\ refresh' = "carrying"
    /\ Replace(keys)
    /\ choice' = [p \in Ports |->
          IF choice[p].key \in keys THEN [choice[p] EXCEPT !.off = @ \cap keys]
          ELSE [key |-> first, mode |-> "auto", off |-> choice[p].off \cap keys]]

\* All choices are kept.
Settle ==
    /\ refresh = "carrying"
    /\ refresh' = "settled"
    /\ check' \in Overlapped(check)
    /\ UNCHANGED <<served, choice, following, request>>

Lapse ==
    /\ refresh = "carrying"
    /\ refresh' \in {"disturbed", "idle"}
    /\ choice' \in Found
    /\ check' \in Overlapped(check) \cup {"idle"}
    /\ request' \in {request, NoRequest}
    /\ UNCHANGED <<served, following>>

DisturbedReplace(keys) ==
    /\ refresh = "disturbed"
    /\ UNCHANGED refresh
    /\ Replace(keys)
    /\ choice' \in [Ports -> {c \in Choice : c.off = {} /\ (c.key = NoKey \/ c.mode = "auto")}]

\* It writes back what it has read of a port, and enables nothing.
DisturbedWrite(p) ==
    /\ refresh = "disturbed"
    /\ refresh' \in {"disturbed", "idle"}
    /\ \E c \in Choice : choice[p].off \subseteq c.off /\ choice' = [choice EXCEPT ![p] = c]
    /\ check' \in Overlapped(check)
    /\ UNCHANGED <<served, following, request>>

-----------------------------------------------------------------------------
(* Health checks                                                            *)

BeginCheck ==
    /\ check = "idle"
    /\ check' = "calm"
    /\ UNCHANGED <<served, choice, following, refresh, request>>

Checked ==
    /\ check' \in {check, "idle"}
    /\ refresh' = Disturbed(refresh)
    /\ UNCHANGED <<served, following, request>>

\* The node may be one that is gone, if an earlier check has brought its status back.
Failover(p, key) ==
    /\ check = "calm"
    /\ Checked
    /\ \E found \in Found :
          /\ key \in (served \ found[p].off) \cup {NoKey}
          /\ choice' = [found EXCEPT ![p].key = key]

DisturbedFailover(p, key, mode) ==
    /\ check = "disturbed"
    /\ Checked
    /\ \E found \in Found : choice' = [found EXCEPT ![p].key = key, ![p].mode = mode]

\* What was disabled when the check began.
DisturbedProbe(key) ==
    /\ check = "disturbed"
    /\ Checked
    /\ \E found \in Found, off \in BOOLEAN : choice' = Flagged(found, Default, key, off)

-----------------------------------------------------------------------------
(* Requests                                                                 *)

Ask(op, p, key) ==
    /\ request = NoRequest
    /\ request' = [op |-> op, port |-> p, key |-> key]
    /\ UNCHANGED <<served, choice, following, refresh, check>>

\* An unlock reads the active node, and later writes it back.
Look ==
    /\ request.op = "unlock"
    /\ \E found \in Found : request' = [request EXCEPT !.key = found[request.port].key]
    /\ UNCHANGED <<served, choice, following, refresh, check>>

Answered ==
    /\ request' = NoRequest
    /\ refresh' = Disturbed(refresh)
    /\ check' = Disturbed(check)
    /\ UNCHANGED served

Switch ==
    /\ request.op = "switch"
    /\ Answered /\ UNCHANGED following
    /\ \E found \in Found :
          choice' = [found EXCEPT ![request.port].key = request.key,
                                  ![request.port].mode = "manual_locked"]

Unlock ==
    /\ request.op = "unlock"
    /\ Answered /\ UNCHANGED following
    /\ \E found \in Found :
          choice' = [found EXCEPT ![request.port].key = request.key,
                                  ![request.port].mode = "auto"]

\* From then on the port has its own say about that node.
Disable(off) ==
    /\ request.op = IF off THEN "disable" ELSE "enable"
    /\ Answered
    /\ following' = [following EXCEPT ![request.port] = @ \ {request.key}]
    /\ \E found \in Found : choice' = Flagged(found, request.port, request.key, off)

-----------------------------------------------------------------------------
\* An activity ends, fails or is disturbed by what is not looked at here.
Pass ==
    /\ refresh' \in Overlapped(refresh) \cup {"idle"}
    /\ check' \in Overlapped(check) \cup {"idle"}
    /\ request' \in {request, NoRequest}
    /\ UNCHANGED <<served, choice, following>>

\* The program is started again, with some ports newly listed perhaps, and may begin
\* with a refresh.
Crash ==
    /\ refresh' \in {"idle", "reading"}
    /\ check' = "idle"
    /\ request' = NoRequest
    /\ \E fresh \in SUBSET (Ports \ {Default}), found \in Found :
          /\ choice' = [p \in Ports |-> found[IF p \in fresh THEN Default ELSE p]]
          /\ following' = [p \in Ports |-> IF p \in fresh THEN served ELSE following[p]]
    /\ UNCHANGED served

Next ==
    \/ Pass
    \/ BeginRefresh \/ Settle \/ Lapse
    \/ \E keys \in (SUBSET Keys) \ {{}} :
          DisturbedReplace(keys) \/ \E first \in keys : Carry(keys, first)
    \/ \E p \in Ports :
          \/ DisturbedWrite(p)
          \/ \E key \in Keys \cup {NoKey} :
                \/ Failover(p, key)
                \/ \E mode \in {"auto", "manual_locked"} : DisturbedFailover(p, key, mode)
          \/ Ask("unlock", p, NoKey)
          \/ \E op \in {"switch", "disable", "enable"}, key \in served : Ask(op, p, key)
    \/ BeginCheck \/ \E key \in Keys : DisturbedProbe(key)
    \/ Look \/ Switch \/ Unlock \/ \E off \in BOOLEAN : Disable(off)
    \/ Crash

Spec == Init /\ [][Next]_vars
=============================================================================
