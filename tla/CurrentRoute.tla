---------------------------- MODULE CurrentRoute ----------------------------
(***************************************************************************)
(* What route preparation promises the rest of the plugin: the route it    *)
(* shows is put up for the plan and the sources there are at that moment,  *)
(* and when there is a plan with sources its route is shown in the end.    *)
(***************************************************************************)
CONSTANTS Plans, Sources, None

VARIABLES inputs,   \* the plan and the sources, None where there are none
          shown     \* the inputs of the route shown, or None
vars == <<inputs, shown>>

Inputs == [plan : Plans \cup {None}, source : Sources \cup {None}]
Usable == inputs.plan # None /\ inputs.source # None

Init == inputs \in Inputs /\ shown = None
Change == inputs' \in Inputs \ {inputs} /\ UNCHANGED shown
Publish == Usable /\ shown' = inputs /\ UNCHANGED inputs
Withdraw == shown' = None /\ UNCHANGED inputs

Next == Change \/ Publish \/ Withdraw
Spec == Init /\ [][Next]_vars
FairSpec == Spec /\ SF_vars(Publish)
=============================================================================
