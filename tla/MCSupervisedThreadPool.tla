----------------------- MODULE MCSupervisedThreadPool -----------------------
(* Model-checking instances of SupervisedThreadPool.                       *)
EXTENDS SupervisedThreadPool, TLC

CONSTANTS k1, k2, k3

NoTasks == {}
OneTask == {k1}
TwoTasks == {k1, k2}
ThreeTasks == {k1, k2, k3}
=============================================================================
