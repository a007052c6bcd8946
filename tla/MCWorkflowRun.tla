---------------------------- MODULE MCWorkflowRun ----------------------------
(* Workflows for the model checker.                                          *)
EXTENDS WorkflowRun, TLC

CONSTANTS user1, user2, main, sub, odd, plan, draft, team, inner, stray

\* Run main: group 0 is plan and draft, group 1 is team, whose sub-workflow sub has one
\* step inner.  Run odd has one step stray, in group 1.
StepRun == plan :> main @@ draft :> main @@ team :> main @@ inner :> sub @@ stray :> odd
StepGroup == plan :> 0 @@ draft :> 0 @@ team :> 1 @@ inner :> 0 @@ stray :> 1
StepChild == plan :> NoRun @@ draft :> NoRun @@ team :> sub @@ inner :> NoRun @@ stray :> NoRun
RunDepth == main :> 0 @@ sub :> 1 @@ odd :> 0

StepRunOf == [s \in Steps |-> StepRun[s]]
StepGroupOf == [s \in Steps |-> StepGroup[s]]
StepChildOf == [s \in Steps |-> StepChild[s]]
RunDepthOf == [r \in Runs |-> RunDepth[r]]
=============================================================================
