----------------------------- MODULE MCDispatcher -----------------------------
(***************************************************************************)
(* Dispatcher for TLC: two ports, the first with an http and a socks lane,  *)
(* the second with an http lane.                                            *)
(***************************************************************************)
EXTENDS Dispatcher, TLC

Load(algorithm, routes, requests, leaves, changes) ==
    [algorithm |-> algorithm, routes |-> routes,
     requests |-> requests, leaves |-> leaves, changes |-> changes]

Plain == <<NoLane, NoHash>>
ByRule(l) == <<l, NoHash>>
Sticky(hash) == <<NoLane, hash>>
Both(l, hash) == <<l, hash>>

\* Two requests that disturb each other, or one, of any kind, while nodes go and
\* come back.
SafetyLoads ==
    {Load("sequential", {Plain, ByRule(3)}, 2, 0, 0), Load("random", {}, 2, 0, 0),
     Load("sequential", {Plain, ByRule(1), Sticky(1), Both(3, 0)}, 1, 1, 1),
     Load("random", {Plain}, 1, 1, 1)}
LivenessLoads == {Load("sequential", {Plain}, 1, 1, 1)}

MCPorts == <<"default", "extra">>
MCPortOf == (1 :> "default") @@ (2 :> "default") @@ (3 :> "extra")
MCProtocol == (1 :> "http") @@ (2 :> "socks") @@ (3 :> "http")
Symmetry == Permutations(Requests)
=============================================================================
