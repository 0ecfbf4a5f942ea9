-------------------------- MODULE MCCoreRuntime --------------------------
(* Two proxy settings, a task-based service, and three mesh configurations:  *)
(* m1, m2 that differs from m1 in its identity but not in its routes, and    *)
(* mBad, with routes of its own, which EasyTier rejects.                     *)
EXTENDS CoreRuntime

CONSTANTS m1, m2, mBad

MCRoutes == [m \in Meshes \union {NoMesh} |-> IF m = m2 THEN m1 ELSE m]
==========================================================================
