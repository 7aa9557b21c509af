----------------------------- MODULE ConfigRollout -----------------------------
(***************************************************************************)
(* What the supervisor of sing-box promises of configurations, whatever    *)
(* happens in between: they are rolled out one at a time and in order; a   *)
(* rollout either fails, and the newest sing-box is still the one there    *)
(* was, or launches a sing-box with its own configuration, exactly once;   *)
(* and what is reported is the outcome of the last rollout.                *)
(***************************************************************************)
EXTENDS Naturals

VARIABLES
    current,  \* the configuration being rolled out, or the last one that was
    busy,     \* a rollout is in progress
    newest,   \* the configuration of the newest sing-box, 0 before there is any
    reported  \* the outcome of the last rollout

vars == <<current, busy, newest, reported>>

Init ==
    /\ current = 0
    /\ busy = FALSE
    /\ newest = 0
    /\ reported = "none"

Begin ==
    /\ ~busy
    /\ current' = current + 1
    /\ busy' = TRUE
    /\ UNCHANGED <<newest, reported>>

\* It fails before anything is written.
Reject ==
    /\ ~busy
    /\ current' = current + 1
    /\ reported' = "failed"
    /\ UNCHANGED <<busy, newest>>

Fail ==
    /\ busy
    /\ busy' = FALSE
    /\ reported' = "failed"
    /\ UNCHANGED <<current, newest>>

Launch ==
    /\ busy
    /\ busy' = FALSE
    /\ newest' = current
    /\ reported' = "applied"
    /\ UNCHANGED current

Next == Begin \/ Reject \/ Fail \/ Launch

Spec == Init /\ [][Next]_vars
=============================================================================
