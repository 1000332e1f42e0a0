------------------------- MODULE MCExecutorProcess -------------------------
(* Instances of ExecutorProcess for TLC.                                    *)
EXTENDS ExecutorRefinement

CONSTANTS j1, j2, j3

TwoJobs   == {j1, j2}
ThreeJobs == {j1, j2, j3}
FirstJob  == {j1}
SecondJob == {j2}
Nothing   == {}

=============================================================================
