---------------------------- MODULE MCControlPlane ----------------------------
(***************************************************************************)
(* ControlPlane for TLC: what may overlap in each run.  The source keys     *)
(* are interchangeable.                                                    *)
(***************************************************************************)
EXTENDS ControlPlane

Budget(refresh, health, admin, restart) ==
    [refresh |-> refresh, health |-> health, admin |-> admin, restart |-> restart]

\* One port: one of each activity, two of one kind around one of another, or a
\* crash in any of them and in the start that follows.
OnePortBudgets ==
    {Budget(1, 1, 1, 0), Budget(2, 1, 0, 0), Budget(1, 2, 0, 0),
     Budget(1, 1, 0, 1), Budget(0, 1, 1, 1), Budget(1, 0, 1, 1), Budget(1, 0, 0, 2)}

\* Two ports: what crosses from one to the other, and a refresh interrupted
\* between them.
TwoPortBudgets ==
    {Budget(1, 0, 1, 1), Budget(0, 1, 1, 0), Budget(0, 0, 2, 1), Budget(0, 0, 1, 2)}

\* The shortest ways to the two disagreements.
DisableBudgets == {Budget(0, 1, 1, 0)}
LaneBudgets == {Budget(0, 1, 0, 0)}

Symmetry == Permutations(Keys)
=============================================================================
