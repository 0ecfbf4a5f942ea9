----------------------- MODULE CoreRuntime_proofs -----------------------
(* Machine-checked proofs about the component runner, for any set of        *)
(* configurations, meshes and services: the state stays well typed, a proxy *)
(* whose replacement failed is owed a retry, what is reported up to date    *)
(* is, a stopped core strands nothing, the mesh never runs with routes the  *)
(* proxy was not built for, and apply touches only what changed. They       *)
(* follow from SafetyInv, the inductive invariant stated in CoreRuntime.    *)
EXTENDS CoreRuntime, TLAPS

\* Every initial state is well typed.
LEMMA TypeInit == Init => TypeOK
<1>. SUFFICES ASSUME Init PROVE TypeOK
  OBVIOUS
<1>1. ConfigsOK
  BY DEF Init, ConfigsOK
<1>2. ComponentsOK
  BY DEF Init, ComponentsOK, NoTasks
<1>3. FlagsOK /\ PlacesOK
  BY DEF Init, FlagsOK, PlacesOK
<1>. QED
  BY <1>1, <1>2, <1>3 DEF TypeOK

\* What a controller is started with.
LEMMA StackFromFacts ==
  ASSUME NEW c \in Config, NEW up \in BOOLEAN
  PROVE  /\ StackFrom(c, up) \in Stack
         /\ StackFrom(c, up) # NoStack
         /\ StackFrom(c, up).view = c.proxy.view
         /\ StackFrom(c, up).routes = Routes[c.mesh]
<1>1. StackFrom(c, up) \in Stack
  BY MeshAssumption DEF StackFrom, Stack, Config
<1>. QED
  BY <1>1, StackAssumption DEF StackFrom

\* Every step keeps the state well typed.
LEMMA TypeStep == TypeOK /\ PlaceInv /\ [Next]_vars => TypeOK'
<1>. SUFFICES ASSUME TypeOK, PlaceInv, [Next]_vars PROVE TypeOK'
  OBVIOUS
<1>. USE MeshAssumption, ServiceAssumption, ConfigAssumption
     DEF TypeOK, PlaceInv, ConfigsOK, components, flags, vars, ApplyPlaces,
         StartPlaces, HaltPlaces
<1>1. CASE Save
  BY <1>1 DEF ComponentsOK, FlagsOK, PlacesOK, Save
<1>2. CASE StackDies
  BY <1>2, ZenonT(60) DEF ComponentsOK, FlagsOK, PlacesOK, StackDies, Stack
<1>3. CASE start_already
  BY <1>3 DEF ComponentsOK, FlagsOK, PlacesOK, start_already, Return
<1>4. CASE start
  BY <1>4 DEF ComponentsOK, FlagsOK, PlacesOK, start, start_load, Return,
     Begin
<1>5. CASE BootMesh
  BY <1>5 DEF ComponentsOK, FlagsOK, PlacesOK, BootMesh, MeshStarted,
     MeshNotStarted, Goto, Config
<1>6. CASE BootClean
  BY <1>6 DEF ComponentsOK, FlagsOK, PlacesOK, BootClean, MeshDropped,
     Return
<1>7. CASE BootStack
  <2>1. ConfigsOK'
    BY <1>7 DEF BootStack, Goto
  <2>2. ComponentsOK'
    BY <1>7, StackFromFacts DEF ComponentsOK, BootStack, Goto
  <2>3. FlagsOK'
    BY <1>7 DEF FlagsOK, BootStack, Goto
  <2>4. PlacesOK'
    BY <1>7 DEF PlacesOK, BootStack, Goto
  <2>. QED
    BY <2>1, <2>2, <2>3, <2>4
<1>8. CASE BootTasks
  BY <1>8 DEF ComponentsOK, FlagsOK, PlacesOK, BootTasks, Respawned, Return, Config
<1>9. CASE stop_idle
  BY <1>9 DEF ComponentsOK, FlagsOK, PlacesOK, stop_idle, Return
<1>10. CASE stop
  BY <1>10 DEF ComponentsOK, FlagsOK, PlacesOK, stop, Halt, Begin
<1>11. CASE HaltTasks
  BY <1>11 DEF ComponentsOK, FlagsOK, PlacesOK, HaltTasks, NoTasks, Goto
<1>12. CASE HaltStack
  BY <1>12 DEF ComponentsOK, FlagsOK, PlacesOK, HaltStack, Goto
<1>13. CASE HaltMesh
  BY <1>13 DEF ComponentsOK, FlagsOK, PlacesOK, HaltMesh, MeshSkipped,
     Halted, Goto, Return
<1>14. CASE HaltDrop
  BY <1>14 DEF ComponentsOK, FlagsOK, PlacesOK, HaltDrop, MeshDropped,
     Return
<1>15. CASE restart
  BY <1>15 DEF ComponentsOK, FlagsOK, PlacesOK, restart, Return, Halt, Begin
<1>16. CASE RestartLoad
  BY <1>16 DEF ComponentsOK, FlagsOK, PlacesOK, RestartLoad, start_load,
     Return, Begin
<1>17. CASE apply_nothing
  BY <1>17 DEF ComponentsOK, FlagsOK, PlacesOK, apply_nothing, Return
<1>18. ASSUME NEW force_proxy \in BOOLEAN, apply(force_proxy) PROVE TypeOK'
  BY <1>18 DEF ComponentsOK, FlagsOK, PlacesOK, apply, ApplyFails,
     FailureRecorded, Return, Begin, ChangePlan
<1>19. CASE ApplyStopStack
  BY <1>19 DEF ComponentsOK, FlagsOK, PlacesOK, ApplyStopStack,
     StoppedFirst, Goto
<1>20. CASE ApplyStopMesh
  BY <1>20 DEF ComponentsOK, FlagsOK, PlacesOK, ApplyStopMesh, Goto,
     ApplyFails, FailureRecorded, Return
<1>21. CASE ApplyStartMesh
  BY <1>21, ZenonT(60) DEF ComponentsOK, FlagsOK, PlacesOK, ApplyStartMesh, MeshStarted,
     MeshNotStarted, Goto, ApplyFails, FailureRecorded, Return, Config
<1>22. CASE ApplyStartStack
  <2>1. ConfigsOK'
    BY <1>22 DEF ApplyStartStack, Goto, ApplyFails, FailureRecorded,
       Return
  <2>2. ComponentsOK'
    BY <1>22, StackFromFacts, ZenonT(60) DEF ComponentsOK, ApplyStartStack, Goto,
       ApplyFails, FailureRecorded, Return
  <2>3. FlagsOK'
    BY <1>22 DEF FlagsOK, ApplyStartStack, Goto, ApplyFails,
       FailureRecorded, Return
  <2>4. PlacesOK'
    BY <1>22 DEF PlacesOK, ApplyStartStack, Goto, ApplyFails,
       FailureRecorded, Return
  <2>. QED
    BY <2>1, <2>2, <2>3, <2>4
<1>23. CASE ApplyTasks
  BY <1>23 DEF ComponentsOK, FlagsOK, PlacesOK, ApplyTasks, Respawned, Return, Config
<1>24. CASE UNCHANGED vars
  BY <1>24 DEF ConfigsOK, ComponentsOK, FlagsOK, PlacesOK
<1>. QED
  BY <1>1, <1>2, <1>3, <1>4, <1>5, <1>6, <1>7, <1>8, <1>9, <1>10, <1>11,
     <1>12, <1>13, <1>14, <1>15, <1>16, <1>17, <1>18, <1>19, <1>20, <1>21,
     <1>22, <1>23, <1>24 DEF Next, StartStep, StopStep, RestartStep,
     ApplyStep

\* The invariant holds before the first operation.
LEMMA SafetyInit == Init => SafetyInv
  BY DEF Init, SafetyInv, PlaceInv, TaskInv, ProxyInv, ProxyConverges, Quiescent,
     MeshInv, RouteInv, ApplyPlaces, StartPlaces, HaltPlaces

\* Every step of every operation keeps it.
LEMMA SafetyStep == TypeOK /\ SafetyInv /\ [Next]_vars => SafetyInv'
<1>. SUFFICES ASSUME TypeOK, SafetyInv, [Next]_vars PROVE SafetyInv'
  OBVIOUS
<1>. USE MeshAssumption, ServiceAssumption, ConfigAssumption, StackAssumption
     DEF TypeOK, SafetyInv, PlaceInv, PlacesOK, FlagsOK, components, flags, ApplyPlaces,
         StartPlaces, HaltPlaces
<1>1. CASE Save
  BY <1>1 DEF TaskInv, ProxyInv, ProxyConverges, Quiescent, StackGood,
     MeshInv, MeshIs, RouteInv, Save
<1>2. CASE StackDies
  BY <1>2, ZenonT(60) DEF TaskInv, ProxyInv, ProxyConverges, Quiescent, StackGood,
     MeshInv, MeshIs, RouteInv, StackDies, Stack, ComponentsOK
<1>3. CASE start_already
  BY <1>3 DEF TaskInv, ProxyInv, ProxyConverges, Quiescent, StackGood,
     MeshInv, MeshIs, RouteInv, start_already, Return
<1>4. CASE start
  BY <1>4 DEF TaskInv, ProxyInv, ProxyConverges, Quiescent, StackGood,
     MeshInv, MeshIs, RouteInv, start, start_load, Return, Begin, ConfigsOK
<1>5. CASE BootMesh
  BY <1>5 DEF TaskInv, ProxyInv, ProxyConverges, Quiescent, StackGood,
     MeshInv, MeshIs, RouteInv, BootMesh, MeshStarted, MeshNotStarted, Goto
<1>6. CASE BootClean
  BY <1>6 DEF TaskInv, ProxyInv, ProxyConverges, Quiescent, StackGood,
     MeshInv, MeshIs, RouteInv, BootClean, MeshDropped, Return
<1>7. CASE BootStack
  BY <1>7, StackFromFacts DEF TaskInv, ProxyInv, ProxyConverges, Quiescent,
     StackGood, MeshInv, MeshIs, RouteInv, BootStack, Goto, ComponentsOK
<1>8. CASE BootTasks
  <2>1. PlaceInv'
    BY <1>8 DEF BootTasks, Return
  <2>2. TaskInv'
    BY <1>8 DEF TaskInv, BootTasks, Respawned, Return, Config,
       PlaceInv, ConfigsOK
  <2>3. ProxyInv'
    BY <1>8 DEF ProxyInv, ProxyConverges, Quiescent, StackGood, BootTasks,
       Return
  <2>4. MeshInv'
    BY <1>8, ZenonT(60) DEF MeshInv, MeshIs, BootTasks, Return, ComponentsOK
  <2>5. RouteInv'
    BY <1>8 DEF RouteInv, BootTasks, Return, ProxyInv, StackGood, MeshInv
  <2>. QED
    BY <2>1, <2>2, <2>3, <2>4, <2>5
<1>9. CASE stop_idle
  BY <1>9 DEF TaskInv, ProxyInv, ProxyConverges, Quiescent, StackGood,
     MeshInv, MeshIs, RouteInv, stop_idle, Return
<1>10. CASE stop
  BY <1>10 DEF TaskInv, ProxyInv, ProxyConverges, Quiescent, StackGood,
     MeshInv, MeshIs, RouteInv, stop, Halt, Begin
<1>11. CASE HaltTasks
  BY <1>11 DEF TaskInv, ProxyInv, ProxyConverges, Quiescent, StackGood,
     MeshInv, MeshIs, RouteInv, HaltTasks, NoTasks, Goto
<1>12. CASE HaltStack
  BY <1>12 DEF TaskInv, ProxyInv, ProxyConverges, Quiescent, StackGood,
     MeshInv, MeshIs, RouteInv, HaltStack, Goto
<1>13. CASE HaltMesh
  <2>1. PlaceInv'
    BY <1>13 DEF HaltMesh, MeshSkipped, Halted, Goto, Return
  <2>2. TaskInv'
    BY <1>13 DEF TaskInv, HaltMesh, MeshSkipped, Halted, Goto, Return
  <2>3. ProxyInv'
    BY <1>13 DEF ProxyInv, ProxyConverges, Quiescent, StackGood, HaltMesh,
       MeshSkipped, Halted, Goto, Return
  <2>4. MeshInv'
    BY <1>13 DEF MeshInv, MeshIs, HaltMesh, MeshSkipped, Halted, Goto,
       Return
  <2>5. RouteInv'
    BY <1>13 DEF RouteInv, HaltMesh, MeshSkipped, Halted, Goto, Return
  <2>. QED
    BY <2>1, <2>2, <2>3, <2>4, <2>5
<1>14. CASE HaltDrop
  BY <1>14 DEF TaskInv, ProxyInv, ProxyConverges, Quiescent, StackGood,
     MeshInv, MeshIs, RouteInv, HaltDrop, MeshDropped, Return
<1>15. CASE restart
  BY <1>15 DEF TaskInv, ProxyInv, ProxyConverges, Quiescent, StackGood,
     MeshInv, MeshIs, RouteInv, restart, Return, Halt, Begin
<1>16. CASE RestartLoad
  BY <1>16 DEF TaskInv, ProxyInv, ProxyConverges, Quiescent, StackGood,
     MeshInv, MeshIs, RouteInv, RestartLoad, start_load, Return, Begin,
     ConfigsOK
<1>17. CASE apply_nothing
  BY <1>17 DEF TaskInv, ProxyInv, ProxyConverges, Quiescent, StackGood,
     MeshInv, MeshIs, RouteInv, apply_nothing, Return
<1>18. ASSUME NEW force_proxy \in BOOLEAN, apply(force_proxy) PROVE SafetyInv'
  <2>1. PlaceInv'
    BY <1>18 DEF apply, ApplyFails, FailureRecorded, Return, Begin,
       ConfigsOK
  <2>2. TaskInv'
    BY <1>18 DEF TaskInv, apply, ApplyFails, FailureRecorded, Return,
       Begin, ChangePlan, Component
  <2>3. ProxyInv'
    BY <1>18 DEF ProxyInv, ProxyConverges, Quiescent, StackGood, apply,
       ApplyFails, FailureRecorded, Return, Begin, ChangePlan, Component,
       proxy_view
  <2>4. MeshInv'
    BY <1>18 DEF MeshInv, MeshIs, apply, ApplyFails, FailureRecorded,
       Return, Begin, ChangePlan, Component
  <2>5. RouteInv'
    BY <1>18 DEF RouteInv, apply, ApplyFails, FailureRecorded, Return,
       Begin
  <2>. QED
    BY <2>1, <2>2, <2>3, <2>4, <2>5
<1>19. CASE ApplyStopStack
  <2>1. PlaceInv'
    BY <1>19 DEF ApplyStopStack, StoppedFirst, Goto
  <2>2. TaskInv'
    BY <1>19 DEF TaskInv, ApplyStopStack, StoppedFirst, Goto
  <2>3. ProxyInv'
    BY <1>19 DEF ProxyInv, ProxyConverges, Quiescent, StackGood,
       ApplyStopStack, StoppedFirst, Goto
  <2>4. MeshInv'
    BY <1>19 DEF MeshInv, MeshIs, ApplyStopStack, StoppedFirst, Goto,
       ComponentsOK
  <2>5. RouteInv'
    BY <1>19 DEF RouteInv, ApplyStopStack, StoppedFirst, Goto, ProxyInv,
       StackGood, MeshInv
  <2>. QED
    BY <2>1, <2>2, <2>3, <2>4, <2>5
<1>20. CASE ApplyStopMesh
  <2>1. PlaceInv'
    BY <1>20 DEF ApplyStopMesh, Goto, ApplyFails, FailureRecorded, Return
  <2>2. TaskInv'
    BY <1>20 DEF TaskInv, ApplyStopMesh, Goto, ApplyFails,
       FailureRecorded, Return
  <2>3. ProxyInv'
    BY <1>20 DEF ProxyInv, ProxyConverges, Quiescent, StackGood,
       ApplyStopMesh, Goto, ApplyFails, FailureRecorded, Return
  <2>4. MeshInv'
    BY <1>20 DEF MeshInv, MeshIs, ApplyStopMesh, Goto, ApplyFails,
       FailureRecorded, Return
  <2>5. RouteInv'
    BY <1>20 DEF RouteInv, ApplyStopMesh, Goto, ApplyFails,
       FailureRecorded, Return
  <2>. QED
    BY <2>1, <2>2, <2>3, <2>4, <2>5
<1>21. CASE ApplyStartMesh
  <2>1. PlaceInv'
    BY <1>21 DEF ApplyStartMesh, MeshStarted, MeshNotStarted, Goto,
       ApplyFails, FailureRecorded, Return, ConfigsOK, Config
  <2>2. TaskInv'
    BY <1>21 DEF TaskInv, ApplyStartMesh, MeshStarted, MeshNotStarted,
       Goto, ApplyFails, FailureRecorded, Return, Config, ComponentsOK,
       ConfigsOK
  <2>3. ProxyInv'
    BY <1>21 DEF ProxyInv, ProxyConverges, Quiescent, StackGood,
       ApplyStartMesh, MeshStarted, MeshNotStarted, Goto, ApplyFails,
       FailureRecorded, Return, MeshInv, Config, ConfigsOK
  <2>4. MeshInv'
    BY <1>21 DEF MeshInv, MeshIs, ApplyStartMesh, MeshStarted,
       MeshNotStarted, Goto, ApplyFails, FailureRecorded, Return, Config,
       ConfigsOK
  <2>5. RouteInv'
    BY <1>21 DEF RouteInv, ApplyStartMesh, MeshStarted, MeshNotStarted,
       Goto, ApplyFails, FailureRecorded, Return, ProxyInv, StackGood,
       MeshInv, Config, ConfigsOK
  <2>. QED
    BY <2>1, <2>2, <2>3, <2>4, <2>5
<1>22. CASE ApplyStartStack
  <2>1. PlaceInv'
    BY <1>22 DEF ApplyStartStack, Goto, ApplyFails, FailureRecorded,
       Return
  <2>2. TaskInv'
    BY <1>22 DEF TaskInv, ApplyStartStack, Goto, ApplyFails,
       FailureRecorded, Return
  <2>3. ProxyInv'
    BY <1>22, StackFromFacts DEF ProxyInv, ProxyConverges, Quiescent,
       StackGood, ApplyStartStack, Goto, ApplyFails, FailureRecorded,
       Return
  <2>4. MeshInv'
    BY <1>22 DEF MeshInv, MeshIs, ApplyStartStack, Goto, ApplyFails,
       FailureRecorded, Return, ComponentsOK
  <2>5. RouteInv'
    BY <1>22, StackFromFacts DEF RouteInv, ApplyStartStack, Goto,
       ApplyFails, FailureRecorded, Return, ProxyInv, StackGood, MeshInv
  <2>. QED
    BY <2>1, <2>2, <2>3, <2>4, <2>5
<1>23. CASE ApplyTasks
  <2>1. PlaceInv'
    BY <1>23 DEF ApplyTasks, Return
  <2>2. TaskInv'
    BY <1>23 DEF TaskInv, ApplyTasks, Respawned, Return, Config, ComponentsOK,
       ConfigsOK
  <2>3. ProxyInv'
    BY <1>23 DEF ProxyInv, ProxyConverges, Quiescent, StackGood,
       ApplyTasks, Return, MeshInv, Config, ConfigsOK
  <2>4. MeshInv'
    BY <1>23 DEF MeshInv, MeshIs, ApplyTasks, Return, Config, ConfigsOK
  <2>5. RouteInv'
    BY <1>23 DEF RouteInv, ApplyTasks, Return, ProxyInv, StackGood,
       MeshInv, Config, ConfigsOK
  <2>. QED
    BY <2>1, <2>2, <2>3, <2>4, <2>5
<1>24. CASE UNCHANGED vars
  BY <1>24 DEF vars, PlaceInv, TaskInv, ProxyInv, ProxyConverges, Quiescent,
     StackGood, MeshInv, MeshIs, RouteInv
<1>. QED
  BY <1>1, <1>2, <1>3, <1>4, <1>5, <1>6, <1>7, <1>8, <1>9, <1>10, <1>11,
     <1>12, <1>13, <1>14, <1>15, <1>16, <1>17, <1>18, <1>19, <1>20, <1>21,
     <1>22, <1>23, <1>24 DEF Next, StartStep, StopStep, RestartStep,
     ApplyStep

\* The state stays well typed, for any configurations, meshes and services.
THEOREM TypeCorrect == Spec => []TypeOK
<1>1. TypeOK /\ SafetyInv /\ [Next]_vars => (TypeOK /\ SafetyInv)'
  BY TypeStep, SafetyStep DEF SafetyInv
<1>. QED
  BY <1>1, TypeInit, SafetyInit, PTL DEF Spec

\* The inductive invariant holds in every reachable state.
THEOREM SafetyCorrect == Spec => []SafetyInv
<1>. QED
  BY TypeCorrect, SafetyInit, SafetyStep, PTL DEF Spec

\* A proxy whose replacement failed, at whatever step, is owed a retry.
THEOREM ProxyRetried == Spec => []ProxyConverges
<1>1. SafetyInv => ProxyConverges
  BY DEF SafetyInv, ProxyInv
<1>. QED
  BY <1>1, SafetyCorrect, PTL

\* What status() reports as having no pending change is what is on disk.
THEOREM NothingPendingIsApplied == Spec => []UpToDate
<1>1. TypeOK /\ SafetyInv => UpToDate
  <2>. SUFFICES ASSUME TypeOK, SafetyInv, Quiescent, ~PendingChanges
                PROVE  /\ tasks = disk.tasks
                       /\ disk.proxy.enabled =>
                             /\ stack # NoStack
                             /\ stack.view = disk.proxy.view
                             /\ stack.routes = Routes[disk.mesh]
                       /\ mesh_failed \/ mesh = {disk.mesh} \ {NoMesh}
    BY DEF UpToDate
  <2>1. /\ running /\ pc = "idle" /\ ~apply_error /\ ~pending_proxy
        /\ config \in Config /\ disk \in Config
        /\ ChangePlan(config, disk, FALSE) = {}
    BY DEF TypeOK, ConfigsOK, FlagsOK, Quiescent, PendingChanges, SafetyInv, PlaceInv,
       ProxyInv
  <2>2. config.tasks = disk.tasks
    BY <2>1, ServiceAssumption DEF ChangePlan, Component, Config
  <2>3. config.mesh = disk.mesh
    BY <2>1, ServiceAssumption DEF ChangePlan, Component
  <2>4. disk.proxy.enabled => config.proxy = disk.proxy
    BY <2>1, ServiceAssumption DEF ChangePlan, Component, proxy_view
  <2>. QED
    BY <2>1, <2>2, <2>3, <2>4 DEF SafetyInv, TaskInv, ProxyInv, ProxyConverges,
       Quiescent, MeshInv, MeshIs, HaltPlaces
<1>. QED
  BY <1>1, TypeCorrect, SafetyCorrect, PTL

\* A core that is not running holds no component.
THEOREM StopStrandsNothing == Spec => []NothingStranded
<1>1. SafetyInv => NothingStranded
  BY DEF SafetyInv, PlaceInv, MeshInv, NothingStranded, HaltPlaces
<1>. QED
  BY <1>1, SafetyCorrect, PTL

\* No mesh runs with routes the live proxy was not built for.
THEOREM MeshAndProxyAgree == Spec => []RoutesAgree
<1>1. TypeOK /\ SafetyInv => RoutesAgree
  BY ConfigAssumption DEF TypeOK, ConfigsOK, PlacesOK, FlagsOK, SafetyInv, PlaceInv,
     MeshInv, MeshIs, RouteInv, RoutesAgree, ApplyPlaces, StartPlaces, HaltPlaces
<1>. QED
  BY <1>1, TypeCorrect, SafetyCorrect, PTL

\* An apply replaces only what changed, and touches nothing else on its way.
THEOREM ApplyTouchesOnlyChanges == Spec => ApplyIsolates
<1>1. TypeOK /\ SafetyInv /\ [Next]_vars => [IsolatedStep]_vars
  <2>. SUFFICES ASSUME TypeOK, SafetyInv, Next PROVE IsolatedStep
    OBVIOUS
  <2>. USE DEF IsolatedStep, SafetyInv, PlaceInv, ApplyPlaces
  <2>1. ASSUME NEW force_proxy \in BOOLEAN, apply(force_proxy) PROVE IsolatedStep
    BY <2>1, ServiceAssumption DEF apply, Begin, ApplyFails, FailureRecorded, Return,
       Affected, ChangePlan, Component, proxy_view
  <2>2. CASE ApplyStopStack
    BY <2>2 DEF ApplyStopStack, StoppedFirst, Goto
  <2>3. CASE ApplyStopMesh
    BY <2>3 DEF ApplyStopMesh, ApplyFails, FailureRecorded, Return, Goto
  <2>4. CASE ApplyStartMesh
    <3>1. "mesh" \in plan
      BY <2>4 DEF ApplyStartMesh, MeshInv
    <3>. QED
      BY <2>4, <3>1 DEF ApplyStartMesh, ApplyFails, FailureRecorded, Return, Goto
  <2>5. CASE ApplyStartStack
    BY <2>5 DEF ApplyStartStack, ApplyFails, FailureRecorded, Return, Goto
  <2>6. CASE ApplyTasks
    BY <2>6 DEF ApplyTasks, Respawned, Return
  <2>7. CASE StartStep \/ StopStep \/ RestartStep \/ apply_nothing
    BY <2>7 DEF StartStep, StopStep, RestartStep, apply_nothing, start_already, start,
       BootMesh, BootClean, BootStack, BootTasks, stop_idle, stop, HaltTasks,
       HaltStack, HaltMesh, HaltDrop, Halted, restart, RestartLoad, start_load,
       Halt, Begin, Return, Goto
  <2>8. CASE Save \/ StackDies
    BY <2>8 DEF Save, StackDies
  <2>. QED
    BY <2>1, <2>2, <2>3, <2>4, <2>5, <2>6, <2>7, <2>8 DEF Next, ApplyStep
<1>. QED
  BY <1>1, TypeCorrect, SafetyCorrect, PTL DEF Spec, ApplyIsolates
=============================================================================
