------------------------------ MODULE LaneService ------------------------------
(***************************************************************************)
(* What the dispatcher promises a request, however many others are served  *)
(* and however the health of the lanes changes meanwhile: it tries one     *)
(* lane after another, each one healthy when it is chosen and none of them *)
(* twice; a lane that fails is put out of use and one that answers back    *)
(* into it; the request ends with an answer, with the failure of the lanes *)
(* it tried, or, if it tried none, because no lane was healthy.            *)
(***************************************************************************)
CONSTANTS Requests, Lanes, NoLane

VARIABLES
    healthy,  \* the lanes in use
    phase,    \* "new", "waiting", "trying" or "done", by request
    lane,     \* the lane it tries or tried last, until it is done
    tried,    \* the lanes it has tried, until it is done
    outcome   \* "answered", "failed" or "unavailable" when it is done

vars == <<healthy, phase, lane, tried, outcome>>

Init ==
    /\ healthy = Lanes
    /\ phase = [i \in Requests |-> "new"]
    /\ lane = [i \in Requests |-> NoLane]
    /\ tried = [i \in Requests |-> {}]
    /\ outcome = [i \in Requests |-> "none"]

Accept(i) ==
    /\ phase[i] = "new"
    /\ phase' = [phase EXCEPT ![i] = "waiting"]
    /\ UNCHANGED <<healthy, lane, tried, outcome>>

Try(i, l) ==
    /\ phase[i] = "waiting"
    /\ l \in healthy \ tried[i]
    /\ phase' = [phase EXCEPT ![i] = "trying"]
    /\ lane' = [lane EXCEPT ![i] = l]
    /\ tried' = [tried EXCEPT ![i] = @ \cup {l}]
    /\ UNCHANGED <<healthy, outcome>>

Fail(i) ==
    /\ phase[i] = "trying"
    /\ phase' = [phase EXCEPT ![i] = "waiting"]
    /\ healthy' = healthy \ {lane[i]}
    /\ UNCHANGED <<lane, tried, outcome>>

End(i, result) ==
    /\ phase' = [phase EXCEPT ![i] = "done"]
    /\ lane' = [lane EXCEPT ![i] = NoLane]
    /\ tried' = [tried EXCEPT ![i] = {}]
    /\ outcome' = [outcome EXCEPT ![i] = result]

Answer(i) ==
    /\ phase[i] = "trying"
    /\ End(i, "answered")
    /\ healthy' = healthy \cup {lane[i]}

GiveUp(i) ==
    /\ phase[i] = "waiting" /\ tried[i] # {}
    /\ End(i, "failed")
    /\ UNCHANGED healthy

Refuse(i) ==
    /\ phase[i] = "waiting" /\ tried[i] = {} /\ healthy = {}
    /\ End(i, "unavailable")
    /\ UNCHANGED healthy

\* The rest of the application finds lanes healthy or not.
Change ==
    /\ healthy' \in SUBSET Lanes
    /\ UNCHANGED <<phase, lane, tried, outcome>>

Next ==
    \/ \E i \in Requests :
          \/ Accept(i) \/ Fail(i) \/ Answer(i) \/ GiveUp(i) \/ Refuse(i)
          \/ \E l \in Lanes : Try(i, l)
    \/ Change

Spec == Init /\ [][Next]_vars
=============================================================================
