--------------------- MODULE StackController_proofs ---------------------
(* Machine-checked proofs about one run of the proxy stack: the state stays  *)
(* well typed, stop() leaves nothing behind, a success of wait_started is    *)
(* real, the outcome of a run is kept, and a stopping stack is never         *)
(* reported Running. All of them follow from SafetyInv, the inductive        *)
(* invariant stated in StackController.                                      *)
EXTENDS StackController, TLAPS

\* Every initial state is well typed.
LEMMA TypeInit == Init => TypeOK
<1>. SUFFICES ASSUME Init PROVE TypeOK
  OBVIOUS
<1>1. status \in StackStatus
  BY DEF Init, DefaultStatus, StackStatus, StackRunState
<1>2. FlagsOK
  BY ModesAssumption DEF Init, FlagsOK
<1>3. PlacesOK
  BY PidAssumption DEF Init, PlacesOK, WorkerPlaces, OwnerPlaces, StackRunState
<1>. QED
  BY <1>1, <1>2, <1>3 DEF TypeOK

\* Every step of every actor keeps the state well typed.
LEMMA TypeStep == TypeOK /\ [Next]_vars => TypeOK'
<1>. SUFFICES ASSUME TypeOK, [Next]_vars PROVE TypeOK'
  OBVIOUS
<1>. USE PidAssumption DEF TypeOK, StackStatus, StackRunState, WorkerPlaces,
         OwnerPlaces, StopPlaces, ChildAlive, controllerVars, workerVars,
         engineVars, monitorVars, ownerVars
<1>1. CASE start_managed
  <2>1. status' \in StackStatus
    BY <1>1 DEF start_managed, DefaultStatus
  <2>2. FlagsOK'
    BY <1>1 DEF FlagsOK, start_managed, DefaultStatus
  <2>3. PlacesOK'
    BY <1>1 DEF PlacesOK, start_managed, DefaultStatus
  <2>. QED
    BY <2>1, <2>2, <2>3
<1>2. CASE WaitReadStatus
  BY <1>2 DEF FlagsOK, PlacesOK, WaitReadStatus
<1>3. CASE wait_started
  BY <1>3 DEF FlagsOK, PlacesOK, wait_started, WaitSettled
<1>4. CASE WaitDropped
  BY <1>4 DEF FlagsOK, PlacesOK, WaitDropped, WaitSettled
<1>5. CASE StopCheck
  BY <1>5 DEF FlagsOK, PlacesOK, StopCheck
<1>6. CASE StopStatus
  <2>1. status' \in StackStatus
    BY <1>6 DEF StopStatus
  <2>2. FlagsOK'
    BY <1>6 DEF FlagsOK, StopStatus
  <2>3. PlacesOK'
    BY <1>6 DEF PlacesOK, StopStatus
  <2>. QED
    BY <2>1, <2>2, <2>3
<1>7. CASE StopFlag
  BY <1>7 DEF FlagsOK, PlacesOK, StopFlag
<1>8. CASE StopLoadPid
  BY <1>8 DEF FlagsOK, PlacesOK, StopLoadPid
<1>9. CASE terminate_worker_process
  BY <1>9 DEF FlagsOK, PlacesOK, terminate_worker_process, Signalled
<1>10. CASE StopNative
  <2>1. status' \in StackStatus
    BY <1>10 DEF StopNative, Cancelled
  <2>2. FlagsOK'
    BY <1>10 DEF FlagsOK, StopNative, Cancelled
  <2>3. PlacesOK'
    BY <1>10 DEF PlacesOK, StopNative, Cancelled
  <2>. QED
    BY <2>1, <2>2, <2>3
<1>11. CASE StopJoin
  <2>1. status' \in StackStatus
    BY <1>11 DEF StopJoin
  <2>2. FlagsOK'
    BY <1>11 DEF FlagsOK, StopJoin
  <2>3. PlacesOK'
    BY <1>11 DEF PlacesOK, StopJoin
  <2>. QED
    BY <2>1, <2>2, <2>3
<1>12. CASE WorkerPrepare
  BY <1>12 DEF FlagsOK, PlacesOK, WorkerPrepare, Return
<1>13. CASE WorkerConfigure
  <2>1. status' \in StackStatus
    BY <1>13 DEF WorkerConfigure
  <2>2. FlagsOK'
    BY <1>13 DEF FlagsOK, WorkerConfigure
  <2>3. PlacesOK'
    BY <1>13 DEF PlacesOK, WorkerConfigure
  <2>. QED
    BY <2>1, <2>2, <2>3
<1>14. CASE WorkerConflict
  <2>1. status' \in StackStatus
    BY <1>14 DEF WorkerConflict
  <2>2. FlagsOK'
    BY <1>14 DEF FlagsOK, WorkerConflict
  <2>3. PlacesOK'
    BY <1>14 DEF PlacesOK, WorkerConflict
  <2>. QED
    BY <2>1, <2>2, <2>3
<1>15. CASE WorkerConflictStop
  BY <1>15 DEF FlagsOK, PlacesOK, WorkerConflictStop, Return
<1>16. CASE WorkerNoConflict
  BY <1>16 DEF FlagsOK, PlacesOK, WorkerNoConflict
<1>17. CASE WorkerLaunchFails
  BY <1>17 DEF FlagsOK, PlacesOK, WorkerLaunchFails, Return
<1>18. CASE WorkerStartEngine
  BY <1>18 DEF FlagsOK, PlacesOK, WorkerStartEngine
<1>19. CASE WorkerStoreHandle
  BY <1>19 DEF FlagsOK, PlacesOK, WorkerStoreHandle
<1>20. CASE WorkerSetReady
  BY <1>20 DEF FlagsOK, PlacesOK, WorkerSetReady
<1>21. CASE WorkerRecheckStop
  BY <1>21 DEF FlagsOK, PlacesOK, WorkerRecheckStop, StopAlreadyRequested,
     Cancelled
<1>22. CASE WorkerEngineWait
  BY <1>22 DEF FlagsOK, PlacesOK, WorkerEngineWait
<1>23. CASE WorkerTakeHandle
  <2>1. status' \in StackStatus
    BY <1>23 DEF WorkerTakeHandle
  <2>2. FlagsOK'
    BY <1>23 DEF FlagsOK, WorkerTakeHandle
  <2>3. PlacesOK'
    BY <1>23 DEF PlacesOK, WorkerTakeHandle
  <2>. QED
    BY <2>1, <2>2, <2>3
<1>24. CASE spawn_tun_worker
  BY <1>24 DEF FlagsOK, PlacesOK, spawn_tun_worker
<1>25. CASE WorkerStorePid
  BY <1>25 DEF FlagsOK, PlacesOK, WorkerStorePid, ChildId
<1>26. CASE WorkerStatusPid
  <2>1. status' \in StackStatus
    BY <1>26 DEF WorkerStatusPid
  <2>2. FlagsOK'
    BY <1>26 DEF FlagsOK, WorkerStatusPid
  <2>3. PlacesOK'
    BY <1>26 DEF PlacesOK, WorkerStatusPid
  <2>. QED
    BY <2>1, <2>2, <2>3
<1>27. CASE WorkerPoll
  BY <1>27 DEF FlagsOK, PlacesOK, WorkerPoll, TryWaitSome
<1>28. CASE WorkerWaitError
  BY <1>28 DEF FlagsOK, PlacesOK, WorkerWaitError
<1>29. CASE WorkerPollReady
  BY <1>29 DEF FlagsOK, PlacesOK, WorkerPollReady, native_tun_worker_ready
<1>30. CASE WorkerPollStop
  BY <1>30 DEF FlagsOK, PlacesOK, WorkerPollStop, Signalled
<1>31. CASE WorkerWaitChild
  BY <1>31 DEF FlagsOK, PlacesOK, WorkerWaitChild
<1>32. CASE WorkerReaped
  BY <1>32 DEF FlagsOK, PlacesOK, WorkerReaped
<1>33. CASE ProxyHealthMonitor_start
  BY <1>33 DEF FlagsOK, PlacesOK, ProxyHealthMonitor_start
<1>34. CASE WorkerDropMonitor
  BY <1>34 DEF FlagsOK, PlacesOK, WorkerDropMonitor
<1>35. CASE WorkerJoinMonitor
  BY <1>35 DEF FlagsOK, PlacesOK, WorkerJoinMonitor, MonitorJoined
<1>36. CASE WorkerClearRunning
  <2>1. status' \in StackStatus
    BY <1>36 DEF WorkerClearRunning
  <2>2. FlagsOK'
    BY <1>36 DEF FlagsOK, WorkerClearRunning
  <2>3. PlacesOK'
    BY <1>36 DEF PlacesOK, WorkerClearRunning
  <2>. QED
    BY <2>1, <2>2, <2>3
<1>37. CASE WorkerClearPid
  BY <1>37 DEF FlagsOK, PlacesOK, WorkerClearPid
<1>38. CASE WorkerFinal
  <2>1. status' \in StackStatus
    BY <1>38 DEF WorkerFinal, FinalStatus
  <2>2. FlagsOK'
    BY <1>38 DEF FlagsOK, WorkerFinal, FinalStatus
  <2>3. PlacesOK'
    BY <1>38 DEF PlacesOK, WorkerFinal, FinalStatus
  <2>. QED
    BY <2>1, <2>2, <2>3
<1>39. CASE MonitorReadyWait
  <2>1. status' \in StackStatus
    BY <1>39 DEF MonitorReadyWait, native_tun_worker_ready, MonitorOnly
  <2>2. FlagsOK'
    BY <1>39 DEF FlagsOK, MonitorReadyWait, native_tun_worker_ready,
       MonitorOnly
  <2>3. PlacesOK'
    BY <1>39 DEF PlacesOK, MonitorReadyWait, native_tun_worker_ready,
       MonitorOnly
  <2>. QED
    BY <2>1, <2>2, <2>3
<1>40. CASE MonitorProbe
  BY <1>40 DEF FlagsOK, PlacesOK, MonitorProbe, MonitorOnly
<1>41. CASE MonitorInitial
  BY <1>41 DEF FlagsOK, PlacesOK, MonitorInitial, MonitorOnly
<1>42. CASE apply_proxy_health
  <2>1. status' \in StackStatus
    BY <1>42 DEF apply_proxy_health, ShutStates, HealthApplied, MonitorOnly
  <2>2. FlagsOK'
    BY <1>42 DEF FlagsOK, apply_proxy_health, ShutStates, HealthApplied,
       MonitorOnly
  <2>3. PlacesOK'
    BY <1>42 DEF PlacesOK, apply_proxy_health, ShutStates, HealthApplied,
       MonitorOnly
  <2>. QED
    BY <2>1, <2>2, <2>3
<1>43. CASE MonitorSleep
  BY <1>43 DEF FlagsOK, PlacesOK, MonitorSleep, MonitorOnly
<1>44. CASE update_proxy_health
  BY <1>44 DEF FlagsOK, PlacesOK, update_proxy_health, MonitorOnly
<1>45. CASE EngineCloses
  BY <1>45 DEF FlagsOK, PlacesOK, EngineCloses, Outside
<1>46. CASE EnginePanics
  <2>1. status' \in StackStatus
    BY <1>46 DEF EnginePanics, Outside
  <2>2. FlagsOK'
    BY <1>46 DEF FlagsOK, EnginePanics, Outside
  <2>3. PlacesOK'
    BY <1>46 DEF PlacesOK, EnginePanics, Outside
  <2>. QED
    BY <2>1, <2>2, <2>3
<1>47. CASE ChildReady
  BY <1>47 DEF FlagsOK, PlacesOK, ChildReady, Outside
<1>48. CASE ChildDies
  BY <1>48 DEF FlagsOK, PlacesOK, ChildDies, Outside
<1>49. CASE ChildTerminates
  BY <1>49 DEF FlagsOK, PlacesOK, ChildTerminates, Outside
<1>50. CASE PipeReadyLine
  BY <1>50 DEF FlagsOK, PlacesOK, PipeReadyLine, Outside
<1>51. CASE EvictReadyLine
  BY <1>51 DEF FlagsOK, PlacesOK, EvictReadyLine, Outside
<1>52. CASE UNCHANGED vars
  BY <1>52 DEF vars, FlagsOK, PlacesOK
<1>. QED
  BY <1>1, <1>2, <1>3, <1>4, <1>5, <1>6, <1>7, <1>8, <1>9, <1>10, <1>11,
     <1>12, <1>13, <1>14, <1>15, <1>16, <1>17, <1>18, <1>19, <1>20, <1>21,
     <1>22, <1>23, <1>24, <1>25, <1>26, <1>27, <1>28, <1>29, <1>30, <1>31,
     <1>32, <1>33, <1>34, <1>35, <1>36, <1>37, <1>38, <1>39, <1>40, <1>41,
     <1>42, <1>43, <1>44, <1>45, <1>46, <1>47, <1>48, <1>49, <1>50, <1>51,
     <1>52
  DEF Next, OwnerStep, WaitStep, StopStep, WorkerStep, WorkerStart,
      WorkerMixed, WorkerTun, WorkerEnd, MonitorStep, EngineStep

\* The state of the controller and of its threads is well typed in every
\* behaviour, for any worker pid and any set of modes.
THEOREM TypeCorrect == Spec => []TypeOK
<1>. QED
  BY TypeInit, TypeStep, PTL DEF Spec

-----------------------------------------------------------------------------
\* SafetyInv holds before anything started.
LEMMA SafetyInit == Init => SafetyInv
  BY DEF Init, SafetyInv, ModeInv, EngineInv, ChildInv, MonitorInv, OwnerInv,
         StoppingInv, ResultInv, StartedMeansServed, OutcomeKept, LaunchPlaces,
         MixedPlaces,
         ChildPlaces, TunPlaces, TornDown, StopPlaces, ChildAlive

\* Every step of every actor keeps SafetyInv.
LEMMA SafetyStep == TypeOK /\ TypeOK' /\ SafetyInv /\ [Next]_vars => SafetyInv'
<1>. SUFFICES ASSUME TypeOK, TypeOK', SafetyInv, [Next]_vars PROVE SafetyInv'
  OBVIOUS
<1>. USE DEF SafetyInv, ModeInv, EngineInv, ChildInv, MonitorInv, OwnerInv,
         StoppingInv, ResultInv, StartedMeansServed, OutcomeKept, LaunchPlaces,
         MixedPlaces,
         ChildPlaces, TunPlaces, TornDown, MonitoredPlaces, StopPlaces,
         ChildAlive, TypeOK, FlagsOK, PlacesOK, StackStatus, controllerVars,
         workerVars, engineVars, monitorVars, ownerVars
<1>1. CASE start_managed
  BY <1>1 DEF start_managed, DefaultStatus
<1>2. CASE WaitReadStatus
  BY <1>2 DEF WaitReadStatus
<1>3. CASE wait_started
  BY <1>3 DEF wait_started, WaitSettled
<1>4. CASE WaitDropped
  BY <1>4 DEF WaitDropped, WaitSettled
<1>5. CASE StopCheck
  BY <1>5 DEF StopCheck
<1>6. CASE StopStatus
  BY <1>6 DEF StopStatus
<1>7. CASE StopFlag
  BY <1>7 DEF StopFlag
<1>8. CASE StopLoadPid
  BY <1>8 DEF StopLoadPid
<1>9. CASE terminate_worker_process
  BY <1>9 DEF terminate_worker_process, Signalled
<1>10. CASE StopNative
  BY <1>10 DEF StopNative, Cancelled
<1>11. CASE StopJoin
  BY <1>11 DEF StopJoin
<1>12. CASE WorkerPrepare
  BY <1>12 DEF WorkerPrepare, Return
<1>13. CASE WorkerConfigure
  BY <1>13 DEF WorkerConfigure
<1>14. CASE WorkerConflict
  BY <1>14 DEF WorkerConflict
<1>15. CASE WorkerConflictStop
  BY <1>15 DEF WorkerConflictStop, Return
<1>16. CASE WorkerNoConflict
  BY <1>16 DEF WorkerNoConflict
<1>17. CASE WorkerLaunchFails
  BY <1>17 DEF WorkerLaunchFails, Return
<1>18. CASE WorkerStartEngine
  BY <1>18 DEF WorkerStartEngine
<1>19. CASE WorkerStoreHandle
  BY <1>19 DEF WorkerStoreHandle
<1>20. CASE WorkerSetReady
  BY <1>20 DEF WorkerSetReady
<1>21. CASE WorkerRecheckStop
  BY <1>21 DEF WorkerRecheckStop, StopAlreadyRequested, Cancelled
<1>22. CASE WorkerEngineWait
  BY <1>22 DEF WorkerEngineWait
<1>23. CASE WorkerTakeHandle
  BY <1>23 DEF WorkerTakeHandle
<1>24. CASE spawn_tun_worker
  BY <1>24 DEF spawn_tun_worker
<1>25. CASE WorkerStorePid
  BY <1>25 DEF WorkerStorePid, ChildId
<1>26. CASE WorkerStatusPid
  BY <1>26 DEF WorkerStatusPid
<1>27. CASE WorkerPoll
  BY <1>27 DEF WorkerPoll, TryWaitSome
<1>28. CASE WorkerWaitError
  BY <1>28 DEF WorkerWaitError
<1>29. CASE WorkerPollReady
  BY <1>29 DEF WorkerPollReady, native_tun_worker_ready
<1>30. CASE WorkerPollStop
  BY <1>30 DEF WorkerPollStop, Signalled
<1>31. CASE WorkerWaitChild
  BY <1>31 DEF WorkerWaitChild
<1>32. CASE WorkerReaped
  BY <1>32 DEF WorkerReaped
<1>33. CASE ProxyHealthMonitor_start
  BY <1>33 DEF ProxyHealthMonitor_start
<1>34. CASE WorkerDropMonitor
  BY <1>34 DEF WorkerDropMonitor
<1>35. CASE WorkerJoinMonitor
  BY <1>35 DEF WorkerJoinMonitor, MonitorJoined
<1>36. CASE WorkerClearRunning
  BY <1>36 DEF WorkerClearRunning
<1>37. CASE WorkerClearPid
  BY <1>37 DEF WorkerClearPid
<1>38. CASE WorkerFinal
  BY <1>38 DEF WorkerFinal, FinalStatus
<1>39. CASE MonitorReadyWait
  BY <1>39 DEF MonitorReadyWait, native_tun_worker_ready, MonitorOnly
<1>40. CASE MonitorProbe
  BY <1>40 DEF MonitorProbe, MonitorOnly
<1>41. CASE MonitorInitial
  BY <1>41 DEF MonitorInitial, MonitorOnly
<1>42. CASE apply_proxy_health
  BY <1>42 DEF apply_proxy_health, ShutStates, HealthApplied, MonitorOnly
<1>43. CASE MonitorSleep
  BY <1>43 DEF MonitorSleep, MonitorOnly
<1>44. CASE update_proxy_health
  BY <1>44 DEF update_proxy_health, MonitorOnly
<1>45. CASE EngineCloses
  BY <1>45 DEF EngineCloses, Outside
<1>46. CASE EnginePanics
  BY <1>46 DEF EnginePanics, Outside
<1>47. CASE ChildReady
  BY <1>47 DEF ChildReady, Outside
<1>48. CASE ChildDies
  BY <1>48 DEF ChildDies, Outside
<1>49. CASE ChildTerminates
  BY <1>49 DEF ChildTerminates, Outside
<1>50. CASE PipeReadyLine
  BY <1>50 DEF PipeReadyLine, Outside
<1>51. CASE EvictReadyLine
  BY <1>51 DEF EvictReadyLine, Outside
<1>52. CASE UNCHANGED vars
  BY <1>52 DEF vars
<1>. QED
  BY <1>1, <1>2, <1>3, <1>4, <1>5, <1>6, <1>7, <1>8, <1>9, <1>10, <1>11,
     <1>12, <1>13, <1>14, <1>15, <1>16, <1>17, <1>18, <1>19, <1>20, <1>21,
     <1>22, <1>23, <1>24, <1>25, <1>26, <1>27, <1>28, <1>29, <1>30, <1>31,
     <1>32, <1>33, <1>34, <1>35, <1>36, <1>37, <1>38, <1>39, <1>40, <1>41,
     <1>42, <1>43, <1>44, <1>45, <1>46, <1>47, <1>48, <1>49, <1>50, <1>51,
     <1>52
  DEF Next, OwnerStep, WaitStep, StopStep, WorkerStep, WorkerStart,
      WorkerMixed, WorkerTun, WorkerEnd, MonitorStep, EngineStep

\* SafetyInv holds in every reachable state.
THEOREM SafetyCorrect == Spec => []SafetyInv
<1>. QED
  BY TypeInit, TypeStep, SafetyInit, SafetyStep, PTL DEF Spec

\* What stop() promises: when it returned, by either way out, no engine, TUN
\* process, monitor thread or handle of the run is left.
THEOREM StopLeavesNothing == Spec => []QuietAfterStop
<1>1. TypeOK /\ SafetyInv => QuietAfterStop
  BY DEF SafetyInv, EngineInv, ChildInv, MonitorInv, OwnerInv, QuietAfterStop,
         MonitoredPlaces, ChildPlaces, OwnerPlaces, ChildAlive, TypeOK, FlagsOK,
         PlacesOK
<1>. QED
  BY <1>1, TypeCorrect, SafetyCorrect, PTL

\* wait_started() succeeds only on a run whose engine really came up.
THEOREM StartIsReal == Spec => []StartedMeansServed
<1>1. SafetyInv => StartedMeansServed
  BY DEF SafetyInv
<1>. QED
  BY <1>1, SafetyCorrect, PTL

\* The outcome of a run that ended by itself stays readable until stop().
THEOREM OutcomeStays == Spec => []OutcomeKept
<1>1. SafetyInv => OutcomeKept
  BY DEF SafetyInv
<1>. QED
  BY <1>1, SafetyCorrect, PTL

\* No health verdict turns a stopping stack back into a running one.
THEOREM StoppingIsNotRunning == Spec => NoRunningWhileStopping
<1>1. TypeOK /\ SafetyInv /\ [Next]_vars =>
        [~(/\ owner \in StopPlaces
           /\ status.state # "Running" /\ status'.state = "Running")]_vars
  <2>. SUFFICES ASSUME TypeOK, SafetyInv, [Next]_vars, owner \in StopPlaces,
                       status.state # "Running", status'.state = "Running"
                PROVE  UNCHANGED vars
    OBVIOUS
  <2>. USE DEF TypeOK, StackStatus, controllerVars
  <2>1. CASE start_managed
    BY <2>1 DEF start_managed, DefaultStatus, StopPlaces
  <2>2. CASE StopStatus
    BY <2>2 DEF StopStatus
  <2>3. CASE StopJoin
    BY <2>3 DEF StopJoin
  <2>4. CASE WorkerConfigure
    BY <2>4 DEF WorkerConfigure
  <2>5. CASE WorkerConflict
    BY <2>5 DEF WorkerConflict
  <2>6. CASE WorkerStatusPid
    BY <2>6 DEF WorkerStatusPid
  <2>7. CASE WorkerFinal
    BY <2>7 DEF WorkerFinal, FinalStatus
  <2>8. CASE apply_proxy_health
    BY <2>8 DEF apply_proxy_health, ShutStates, HealthApplied, MonitorOnly,
       SafetyInv, StoppingInv, MonitorInv, MonitoredPlaces
  <2>9. CASE status' = status
    BY <2>9
  <2>. QED
    BY <2>1, <2>2, <2>3, <2>4, <2>5, <2>6, <2>7, <2>8, <2>9
    DEF Next, OwnerStep, WaitStep, StopStep, WorkerStep, WorkerStart,
       WorkerMixed, WorkerTun, WorkerEnd, MonitorStep, EngineStep,
       WaitReadStatus, wait_started, WaitDropped, StopCheck, StopFlag,
       StopLoadPid, terminate_worker_process, StopNative, WorkerPrepare,
       WorkerConflictStop, WorkerNoConflict, WorkerLaunchFails,
       WorkerStartEngine, WorkerStoreHandle, WorkerSetReady,
       WorkerRecheckStop, WorkerEngineWait, WorkerTakeHandle,
       spawn_tun_worker, WorkerStorePid, WorkerPoll, WorkerWaitError,
       WorkerPollReady, WorkerPollStop, WorkerWaitChild, WorkerReaped,
       ProxyHealthMonitor_start, WorkerDropMonitor, WorkerJoinMonitor,
       WorkerClearRunning, WorkerClearPid, MonitorReadyWait, MonitorProbe,
       MonitorInitial, MonitorSleep, update_proxy_health, EngineCloses,
       EnginePanics, ChildReady, ChildDies, ChildTerminates, PipeReadyLine,
       EvictReadyLine, MonitorOnly, Outside, vars
<1>. QED
  BY <1>1, TypeCorrect, SafetyCorrect, PTL DEF Spec, NoRunningWhileStopping
=============================================================================
