----------------------------- MODULE NodeSelection -----------------------------
(***************************************************************************)
(* Probing, scoring and choosing nodes (internal/pool: checker.go,         *)
(* scorer.go, selector.go).  A list of statuses is a function from node    *)
(* ids to statuses: the code always reads it ORDER BY node_id, so the      *)
(* order of the list is the order of the ids.                              *)
(*                                                                         *)
(* A selector yields the SET of nodes it may return: empty for `false`,    *)
(* several where the code draws a random number or where sort.Slice, which *)
(* is not stable, leaves the order of equal scores open.                   *)
(***************************************************************************)
EXTENDS Integers, FiniteSets

States == {"active", "cooldown"}
Tiers  == {"L1", "L2", "L3"}

Healthy(st)   == st.state = "active" /\ ~st.disabled
Eligible(sts) == {n \in DOMAIN sts : Healthy(sts[n])}

Least(S) == CHOOSE n \in S : \A m \in S : n <= m

-----------------------------------------------------------------------------
(* scorer.go.  The score is kept times 20, which makes it an integer:       *)
(* 100 - latency/20 + 20*rate - 15*fails.                                   *)

ScoreOf(latency, rate, fails) == 2000 - latency + 400 * rate - 300 * fails

TierOf(score) == CASE score >= 1800 -> "L1"
                   [] score < 1800 /\ score >= 1400 -> "L2"
                   [] OTHER -> "L3"

Score(st) ==
    LET score == ScoreOf(st.latency, st.rate, st.fails)
    IN  [st EXCEPT !.score = score,
                   !.tier = TierOf(score),
                   !.state = IF st.fails >= 3 THEN "cooldown" ELSE @]

\* What ReplaceNodesForSubscription inserts for a node.
FreshStatus == [state |-> "active", tier |-> "L3", score |-> 0, latency |-> 0,
                rate |-> 0, fails |-> 0, disabled |-> FALSE]

\* checker.go: a probe that was answered after `latency` ms, or was not (0).
\* MaxFails caps the failure counter.
Probed(st, latency, MaxFails) ==
    IF latency > 0
    THEN [st EXCEPT !.latency = latency, !.rate = 1, !.fails = 0, !.state = "active"]
    ELSE [st EXCEPT !.fails = IF @ < MaxFails THEN @ + 1 ELSE @, !.state = "cooldown"]

-----------------------------------------------------------------------------
(* selector.go                                                              *)

\* A plausible bug: no wrap-around at the end of the list.
SelectSequentialNoWrap(current, sts) ==
    LET eligible == Eligible(sts)
        later == {n \in eligible : n > current}
    IN  IF later = {} THEN {} ELSE {Least(later)}

\* The eligible node after the current one, cyclically; the first one when the
\* current node is not eligible.  With one eligible node: none, even when the
\* current node is not that one.
SelectSequentialNext(current, sts) ==
    LET eligible == Eligible(sts)
        later == {n \in eligible : n > current}
    IN  IF Cardinality(eligible) <= 1 THEN {}
        ELSE IF current \in eligible /\ later # {} THEN {Least(later)}
        ELSE {Least(eligible)}

SelectRandomNext(current, sts) == Eligible(sts) \ {current}

\* A plausible bug: the current node is not skipped.
SelectNextKeepsCurrent(current, sts) ==
    LET inTier(t) == {n \in Eligible(sts) : sts[n].tier = t}
        best(S) == {n \in S : \A m \in S : sts[n].score >= sts[m].score}
        order == <<IF current \in DOMAIN sts THEN sts[current].tier ELSE "L3",
                   "L1", "L2", "L3">>
        filled == {i \in 1..4 : inTier(order[i]) # {}}
    IN  IF filled = {} THEN {} ELSE best(inTier(order[Least(filled)]))

\* The best other node of the current node's tier, then of L1, L2, L3.
SelectNext(current, sts) ==
    LET inTier(t) == {n \in Eligible(sts) \ {current} : sts[n].tier = t}
        best(S) == {n \in S : \A m \in S : sts[n].score >= sts[m].score}
        order == <<IF current \in DOMAIN sts THEN sts[current].tier ELSE "L3",
                   "L1", "L2", "L3">>
        filled == {i \in 1..4 : inTier(order[i]) # {}}
    IN  IF filled = {} THEN {} ELSE best(inTier(order[Least(filled)]))

SelectBalanceNext(current, sts) == SelectNext(current, sts)
=============================================================================
