---------------------------- MODULE DaemonProofs ----------------------------
(***************************************************************************)
(* Proofs about Daemon, for every set of options and all bounds: types,    *)
(* the inductive invariant IInv and what follows from it, and that the     *)
(* daemon implements the safety part of Lifecycle.  Then, of Service: all  *)
(* of it but Lifecycle holds of a whole succession of processes that       *)
(* systemd restarts, and no process of it ever gets past a stale mount.    *)
(***************************************************************************)
EXTENDS Service, TLAPS

(* The counters of the environment are in their bounds after any step.     *)
EnvOK ==
    /\ sent \in 0..MaxSignals /\ updates \in 0..MaxUpdates
    /\ faults \in 0..MaxFaults

-----------------------------------------------------------------------------
(* Types.  The three lemmas about Exit, Fatal and Fault carry the error    *)
(* path of every action that has one.                                      *)

(* A process that ends keeps its state: only pc, exit and mount change.    *)
LEMMA ExitType ==
  ASSUME NEW cause \in Exits, TypeOK, UpdatesAccounted, Exit(cause),
         EnvOK', updates' >= updates
  PROVE  TypeOK' /\ UpdatesAccounted'
  BY DEF TypeOK, UpdatesAccounted, EnvOK, Exit, proc, comps, chans, Stages

(* A fault stays within MaxFaults.                                         *)
LEMMA FaultEnv ==
  ASSUME TypeOK, Fault, UNCHANGED <<sent, updates>>
  PROVE  EnvOK' /\ updates' >= updates
  BY BoundsAssumption DEF TypeOK, Fault, EnvOK

(* Leaving the bounds alone keeps them.                                    *)
LEMMA QuietEnv ==
  ASSUME TypeOK, UNCHANGED env
  PROVE  EnvOK' /\ updates' >= updates
  BY BoundsAssumption DEF TypeOK, EnvOK, env

(* The error return of the main goroutine.                                 *)
LEMMA FatalType ==
  ASSUME TypeOK, UpdatesAccounted, Fatal
  PROVE  TypeOK' /\ UpdatesAccounted'
  BY FaultEnv, ExitType DEF Fatal, Exits

(* Every step of the start-up sequence is well typed.                      *)
LEMMA StartType ==
  ASSUME TypeOK, UpdatesAccounted, Start
  PROVE  TypeOK' /\ UpdatesAccounted'
<1> USE DEF Stages, Startup, Goto, comps, chans, env, TypeOK, UpdatesAccounted
<1>f. ASSUME Fatal PROVE TypeOK' /\ UpdatesAccounted'
  BY <1>f, FatalType
<1>1. CASE Before
  BY <1>1, <1>f, OptionsAssumption DEF Before, StartContext
<1>2. CASE Graph
  <2>1. CASE cfg' = TRUE /\ UNCHANGED faults
    BY <1>2, <2>1 DEF Graph
  <2>2. CASE Fault /\ UNCHANGED cfg
    BY <1>2, <2>2, BoundsAssumption DEF Graph, Fault
  <2> QED BY <1>2, <2>1, <2>2 DEF Graph
<1>3. CASE LoadConfig
  BY <1>3, <1>f DEF LoadConfig, StartContext
<1>4. CASE NewTelemetry
  BY <1>4, <1>f DEF NewTelemetry
<1>5. CASE NewFuse
  <2>1. ASSUME Exit("fatal"), UNCHANGED env PROVE TypeOK' /\ UpdatesAccounted'
    <3>1. "fatal" \in Exits
      BY DEF Exits
    <3> QED BY <2>1, <3>1, QuietEnv, ExitType
  <2> QED BY <1>5, <1>f, <2>1 DEF NewFuse
<1>6. CASE FuseMount
  BY <1>6, <1>f DEF FuseMount
<1>7. CASE PreloadFile
  BY <1>7 DEF PreloadFile
<1>8. CASE PreloadReturn
  <2>1. ASSUME Exit("panic"), Fault, UNCHANGED <<sent, updates>>
        PROVE  TypeOK' /\ UpdatesAccounted'
    <3>1. "panic" \in Exits
      BY DEF Exits
    <3> QED BY <2>1, <3>1, FaultEnv, ExitType
  <2> QED BY <1>8, <1>f, <2>1 DEF PreloadReturn
<1>9. CASE SpawnUnmounter
  BY <1>9 DEF SpawnUnmounter
<1>10. CASE SdNotify
  BY <1>10, <1>f DEF SdNotify
<1>11. CASE RunningAdd
  BY <1>11 DEF RunningAdd
<1>12. CASE SignalNotify
  BY <1>12 DEF SignalNotify
<1> QED BY <1>1, <1>2, <1>3, <1>4, <1>5, <1>6, <1>7, <1>8, <1>9, <1>10, <1>11, <1>12
        DEF Start

(* Every step of the select loop, and the two ways out of Wait.            *)
LEMMA LoopType ==
  ASSUME TypeOK, UpdatesAccounted, Loop \/ WaitReturns \/ GraceTimeout
  PROVE  TypeOK' /\ UpdatesAccounted'
<1> USE DEF Stages, Goto, comps, chans, env, TypeOK, UpdatesAccounted
<1>e. ASSUME NEW cause \in Exits, Exit(cause), UNCHANGED env
      PROVE  TypeOK' /\ UpdatesAccounted'
  BY <1>e, QuietEnv, ExitType
<1>1. CASE LoopCtxDone
  BY <1>1 DEF LoopCtxDone
<1>2. CASE LoopErr
  BY <1>2, <1>e DEF LoopErr, Exits
<1>3. CASE LoopSignal
  <2>1. CASE sig \in StopSignals
    BY <1>3, <2>1 DEF LoopSignal
  <2>2. CASE sig \notin StopSignals
    BY <1>3, <2>2 DEF LoopSignal
  <2> QED BY <2>1, <2>2
<1>4. CASE LoopConfig
  BY <1>4 DEF LoopConfig
<1>5. CASE WaitReturns
  BY <1>5, <1>e DEF WaitReturns, Exits
<1>6. CASE GraceTimeout
  BY <1>6, <1>e DEF GraceTimeout, Exits
<1> QED BY <1>1, <1>2, <1>3, <1>4, <1>5, <1>6 DEF Loop

(* Every step of a goroutine.                                              *)
LEMMA GoroutinesType ==
  ASSUME TypeOK, UpdatesAccounted, Goroutines
  PROVE  TypeOK' /\ UpdatesAccounted'
<1> USE DEF Stages, comps, chans, env, TypeOK, UpdatesAccounted
<1>1. CASE TelemetryServeFails
  BY <1>1, BoundsAssumption DEF TelemetryServeFails, Fault
<1>2. CASE TelemetryFinalize
  BY <1>2 DEF TelemetryFinalize
<1>3. CASE UnmountStart
  BY <1>3 DEF UnmountStart
<1>4. CASE Unmount
  BY <1>4, BoundsAssumption DEF Unmount, Fault
<1>5. CASE ProfilerExit
  <2>1. ASSUME Exit("profiled"), UNCHANGED env PROVE TypeOK' /\ UpdatesAccounted'
    <3>1. "profiled" \in Exits
      BY DEF Exits
    <3> QED BY <2>1, <3>1, QuietEnv, ExitType
  <2> QED BY <1>5, <2>1, FatalType DEF ProfilerExit
<1>6. CASE CtxTimeout
  BY <1>6 DEF CtxTimeout
<1>7. CASE ConfigChange
  BY <1>7, BoundsAssumption DEF ConfigChange
<1>8. CASE BusSend
  BY <1>8, BoundsAssumption DEF BusSend
<1> QED BY <1>1, <1>2, <1>3, <1>4, <1>5, <1>6, <1>7, <1>8 DEF Goroutines

(* Every step of the outside.                                              *)
LEMMA OutsideType ==
  ASSUME TypeOK, UpdatesAccounted, Outside
  PROVE  TypeOK' /\ UpdatesAccounted'
<1>1. CASE SendSignal
  <2>1. EnvOK' /\ updates' >= updates
    BY <1>1, BoundsAssumption DEF SendSignal, TypeOK, EnvOK
  <2>2. PICK s \in Signals:
          \/ /\ hooked
             /\ sig' = IF sig = "none" THEN s ELSE sig
             /\ UNCHANGED <<opts, pc, exit, comps, mount, done, errc, bus, senders>>
          \/ ~hooked /\ s # "USR1" /\ Exit(s)
          \/ ~hooked /\ s = "USR1" /\ UNCHANGED <<pc, exit, mount, proc>>
    BY <1>1 DEF SendSignal
  <2>3. s \in Exits
    BY DEF Exits
  <2>4. CASE Exit(s)
    BY <2>1, <2>3, <2>4, ExitType
  <2>5. CASE UNCHANGED <<pc, exit, mount, proc>>
    BY <2>1, <2>5 DEF TypeOK, UpdatesAccounted, EnvOK, proc, comps, chans
  <2>6. CASE /\ sig' = IF sig = "none" THEN s ELSE sig
             /\ UNCHANGED <<opts, pc, exit, comps, mount, done, errc, bus, senders>>
    BY <2>1, <2>6 DEF TypeOK, UpdatesAccounted, EnvOK, comps
  <2> QED BY <2>2, <2>4, <2>5, <2>6
<1>2. CASE ExternalUnmount
  BY <1>2, BoundsAssumption DEF ExternalUnmount, Fault, comps, chans, TypeOK, UpdatesAccounted
<1>3. CASE HandlerPanic
  <2>1. "panic" \in Exits
    BY DEF Exits
  <2> QED BY <1>3, <2>1, FaultEnv, ExitType DEF HandlerPanic
<1> QED BY <1>1, <1>2, <1>3 DEF Outside

(* Every step is well typed.                                               *)
LEMMA NextType ==
  ASSUME TypeOK, UpdatesAccounted, [Next]_vars
  PROVE  TypeOK' /\ UpdatesAccounted'
<1>1. CASE UNCHANGED vars
  BY <1>1 DEF vars, TypeOK, UpdatesAccounted
<1> QED BY <1>1, StartType, LoopType, GoroutinesType, OutsideType DEF Next

(* The initial state is well typed.                                        *)
LEMMA InitType == Init => TypeOK /\ UpdatesAccounted
<1>1. ASSUME Init PROVE EnvOK /\ UpdatesAccounted /\ senders \in 0..MaxUpdates
  BY <1>1, BoundsAssumption DEF Init, EnvOK, UpdatesAccounted
<1>2. ASSUME Init PROVE TypeOK
  <2>1. cfg \in BOOLEAN /\ done \in BOOLEAN /\ errc \in BOOLEAN /\ ready \in BOOLEAN
    BY <1>2, Zenon DEF Init
  <2>2. prof \in SUBSET Profilers /\ opts \in Options /\ pc \in Stages
    BY <1>2 DEF Init, Stages, Startup
  <2>3. /\ exit \in Exits \cup {"none"} /\ ctx \in {"none", "running", "done"}
        /\ tsrv \in {"off", "serving", "failed"} /\ tfin \in {"off", "waiting", "done"}
        /\ um \in {"off", "waiting", "unmounting", "unmounted", "failed"}
        /\ sig \in Signals \cup {"none"} /\ tree \in {"empty", "partial", "loaded"}
        /\ mount \in {"none", "live", "stale"}
    BY <1>2, Zenon DEF Init
  <2>4. running \in Int /\ bus \in 0..1
    BY <1>2 DEF Init
  <2> QED BY <1>1, <1>2, <2>1, <2>2, <2>3, <2>4 DEF TypeOK, EnvOK
<1> QED BY <1>1, <1>2

(* TypeOK is an invariant, whatever the options and the bounds.            *)
THEOREM TypeCorrect == Spec => []TypeOK
  BY InitType, NextType, PTL DEF Spec

-----------------------------------------------------------------------------
(* The protocol between the main goroutine and those it waits for.         *)

(* However a process ends, short of returning from Wait, the protocol      *)
(* leaves nothing to be kept but what already held.                        *)
LEMMA ExitProtocol ==
  ASSUME NEW cause \in Exits, cause # "clean", IInv, alive, Exit(cause)
  PROVE  Protocol'
  BY DEF IInv, TypeOK, Protocol, WaitGroupNeverNegative, WaitGroupAccounts, DoneAfterLoop,
         StagesDone, ReadyMeansLoaded, CleanExitReleasesMount, Exit, proc, comps, chans, alive, umFinished,
         umActed, Exits, Signals, StopSignals

(* Wait returns only when the unmounter has called Done, since it is       *)
(* counted from "sigs" on.                                                 *)
LEMMA WaitProtocol ==
  ASSUME IInv, WaitReturns
  PROVE  Protocol'
<1>1. umFinished
  BY DEF IInv, TypeOK, Protocol, WaitGroupAccounts, WaitReturns, Owed, counted, alive
<1>2. mount # "none" => um = "failed"
  BY <1>1 DEF IInv, Protocol, StagesDone, umFinished
<1> QED
  BY <1>1, <1>2 DEF IInv, TypeOK, Protocol, WaitGroupNeverNegative, WaitGroupAccounts,
     DoneAfterLoop, StagesDone, ReadyMeansLoaded, CleanExitReleasesMount, WaitReturns, Exit, proc, comps,
     chans, alive, umFinished, umActed

(* The start-up steps that succeed.                                        *)
LEMMA StartProtocol ==
  ASSUME IInv, Start
  PROVE  Protocol'
<1> USE DEF IInv, TypeOK, Protocol, WaitGroupNeverNegative, WaitGroupAccounts, DoneAfterLoop,
            StagesDone, ReadyMeansLoaded, CleanExitReleasesMount, alive, umFinished, umActed, counted, Owed,
            Goto, comps, chans, Stages, Startup
<1>f. ASSUME Fatal, alive PROVE Protocol'
  BY <1>f, ExitProtocol DEF Fatal, Exits
<1>1. CASE Before
  BY <1>1, <1>f DEF Before
<1>2. CASE Graph
  BY <1>2 DEF Graph
<1>3. CASE LoadConfig
  BY <1>3, <1>f DEF LoadConfig
<1>4. CASE NewTelemetry
  BY <1>4, <1>f DEF NewTelemetry
<1>5. CASE NewFuse
  BY <1>5, <1>f, ExitProtocol DEF NewFuse, TargetStats, Exits
<1>6. CASE FuseMount
  BY <1>6, <1>f DEF FuseMount
<1>7. CASE PreloadFile
  BY <1>7 DEF PreloadFile
<1>8. CASE PreloadReturn
  BY <1>8, <1>f, ExitProtocol DEF PreloadReturn, Exits
<1>9. CASE SpawnUnmounter
  BY <1>9 DEF SpawnUnmounter
<1>10. CASE SdNotify
  BY <1>10, <1>f DEF SdNotify
<1>11. CASE RunningAdd
  BY <1>11 DEF RunningAdd
<1>12. CASE SignalNotify
  BY <1>12 DEF SignalNotify
<1> QED BY <1>1, <1>2, <1>3, <1>4, <1>5, <1>6, <1>7, <1>8, <1>9, <1>10, <1>11, <1>12
        DEF Start

(* The select loop: `done` is closed on the way to "wait", where the       *)
(* unmounter is counted.                                                   *)
LEMMA LoopProtocol ==
  ASSUME IInv, Loop \/ WaitReturns \/ GraceTimeout
  PROVE  Protocol'
<1> USE DEF IInv, TypeOK, Protocol, WaitGroupNeverNegative, WaitGroupAccounts, DoneAfterLoop,
            StagesDone, ReadyMeansLoaded, CleanExitReleasesMount, alive, umFinished, umActed,
            counted, Owed, Goto, comps, chans, Stages, Startup
<1>1. CASE LoopCtxDone
  BY <1>1 DEF LoopCtxDone
<1>2. CASE LoopErr
  BY <1>2, ExitProtocol DEF LoopErr, Exits
<1>3. CASE LoopSignal
  <2>1. CASE sig \in StopSignals
    BY <1>3, <2>1 DEF LoopSignal
  <2>2. CASE sig \notin StopSignals
    BY <1>3, <2>2 DEF LoopSignal
  <2> QED BY <2>1, <2>2
<1>4. CASE LoopConfig
  BY <1>4 DEF LoopConfig
<1>5. CASE WaitReturns
  BY <1>5, WaitProtocol
<1>6. CASE GraceTimeout
  BY <1>6, ExitProtocol DEF GraceTimeout, Exits
<1> QED BY <1>1, <1>2, <1>3, <1>4, <1>5, <1>6 DEF Loop

(* The goroutines: each of the two that call Done is counted when it does. *)
LEMMA GoroutinesProtocol ==
  ASSUME IInv, Goroutines
  PROVE  Protocol'
<1> USE DEF IInv, TypeOK, Protocol, WaitGroupNeverNegative, WaitGroupAccounts, DoneAfterLoop,
            StagesDone, ReadyMeansLoaded, CleanExitReleasesMount, alive, umFinished, umActed,
            counted, Owed, comps, chans
<1>1. CASE TelemetryServeFails
  BY <1>1 DEF TelemetryServeFails
<1>2. CASE TelemetryFinalize
  BY <1>2 DEF TelemetryFinalize
<1>3. CASE UnmountStart
  BY <1>3 DEF UnmountStart
<1>4. CASE Unmount
  <2>1. pc = "wait" /\ running >= 1
    BY <1>4 DEF Unmount
  <2> QED BY <1>4, <2>1 DEF Unmount
<1>5. CASE ProfilerExit
  BY <1>5, ExitProtocol DEF ProfilerExit, Fatal, Exits
<1>6. CASE CtxTimeout
  BY <1>6 DEF CtxTimeout
<1>7. CASE ConfigChange
  BY <1>7 DEF ConfigChange
<1>8. CASE BusSend
  BY <1>8 DEF BusSend
<1> QED BY <1>1, <1>2, <1>3, <1>4, <1>5, <1>6, <1>7, <1>8 DEF Goroutines

(* The outside.                                                            *)
LEMMA OutsideProtocol ==
  ASSUME IInv, Outside
  PROVE  Protocol'
<1> USE DEF IInv, TypeOK, Protocol, WaitGroupNeverNegative, WaitGroupAccounts, DoneAfterLoop,
            StagesDone, ReadyMeansLoaded, CleanExitReleasesMount, alive, umFinished, umActed,
            counted, Owed, proc, comps, chans
<1>1. CASE SendSignal
  <2>1. PICK s \in Signals:
          \/ /\ hooked
             /\ sig' = IF sig = "none" THEN s ELSE sig
             /\ UNCHANGED <<opts, pc, exit, comps, mount, done, errc, bus, senders>>
          \/ ~hooked /\ s # "USR1" /\ Exit(s)
          \/ ~hooked /\ s = "USR1" /\ UNCHANGED <<pc, exit, mount, proc>>
    BY <1>1 DEF SendSignal
  <2>2. CASE Exit(s)
    BY <1>1, <2>2, ExitProtocol DEF SendSignal, Signals, StopSignals, Exits
  <2>3. CASE UNCHANGED <<pc, exit, comps, mount, done>>
    BY <2>3
  <2> QED BY <2>1, <2>2, <2>3
<1>2. CASE ExternalUnmount
  BY <1>2 DEF ExternalUnmount
<1>3. CASE HandlerPanic
  BY <1>3, ExitProtocol DEF HandlerPanic, Exits
<1> QED BY <1>1, <1>2, <1>3 DEF Outside

(* IInv is inductive.                                                      *)
LEMMA InitIInv == Init => IInv
<1> SUFFICES ASSUME Init PROVE IInv
  OBVIOUS
<1>1. TypeOK /\ UpdatesAccounted
  BY InitType
<1>2. Protocol
  BY DEF Init, Protocol, WaitGroupNeverNegative, WaitGroupAccounts, DoneAfterLoop,
         StagesDone, ReadyMeansLoaded, CleanExitReleasesMount, alive, umFinished, umActed,
         counted, Owed
<1> QED BY <1>1, <1>2 DEF IInv

(* The step that InitIInv is the base of.                                  *)
LEMMA NextIInv == IInv /\ [Next]_vars => IInv'
<1> SUFFICES ASSUME IInv, [Next]_vars PROVE IInv'
  OBVIOUS
<1>1. TypeOK' /\ UpdatesAccounted'
  BY NextType DEF IInv
<1>2. Protocol'
  <2>1. CASE UNCHANGED vars
    BY <2>1 DEF vars, IInv, Protocol, WaitGroupNeverNegative, WaitGroupAccounts,
       DoneAfterLoop, StagesDone, ReadyMeansLoaded, CleanExitReleasesMount, alive,
       umFinished, umActed, counted, Owed
  <2> QED BY <2>1, StartProtocol, LoopProtocol, GoroutinesProtocol, OutsideProtocol DEF Next
<1> QED BY <1>1, <1>2 DEF IInv

(* IInv is an invariant, whatever the options and the bounds.              *)
THEOREM InductiveInvariant == Spec => []IInv
  BY InitIInv, NextIInv, PTL DEF Spec

(* The counter of the WaitGroup never goes below zero: no goroutine calls  *)
(* Done before it was counted.                                             *)
THEOREM WaitGroupSafe == Spec => []WaitGroupNeverNegative
<1>1. IInv => WaitGroupNeverNegative
  BY DEF IInv, Protocol
<1> QED BY <1>1, InductiveInvariant, PTL

(* os.Exit(0) after Wait leaves no mount behind, unless Unmount failed.    *)
THEOREM CleanExitSafe == Spec => []CleanExitReleasesMount
<1>1. IInv => CleanExitReleasesMount
  BY DEF IInv, Protocol
<1> QED BY <1>1, InductiveInvariant, PTL

(* READY is announced only for a tree that is complete.                    *)
THEOREM ReadySafe == Spec => []ReadyMeansLoaded
<1>1. IInv => ReadyMeansLoaded
  BY DEF IInv, Protocol, StagesDone
<1> QED BY <1>1, InductiveInvariant, PTL

-----------------------------------------------------------------------------
(* What a step may do to the mountpoint.                                   *)

(* The end of a process is no mounting and no unmounting.                  *)
LEMMA ExitMount ==
  ASSUME NEW cause, TypeOK, Exit(cause)
  PROVE  (mount' = "live" => mount = "live") /\ (mount' = "none" => mount = "none")
  BY DEF TypeOK, Exit

(* The mountpoint is mounted when free, and released when the process was  *)
(* told to stop, or by somebody else.                                      *)
mountKept ==
    /\ mount' = "live" /\ mount # "live" => mount = "none" /\ pc' \in Startup
    /\ mount = "live" /\ mount' = "none" => done \/ faults' > faults

LEMMA MountKeptNext ==
  ASSUME IInv, Next
  PROVE  mountKept
<1> USE DEF mountKept
<1>e. ASSUME NEW cause, Exit(cause) PROVE mountKept
  BY <1>e, ExitMount DEF IInv, mountKept
<1>k. ASSUME UNCHANGED mount PROVE mountKept
  BY <1>k
<1>1. CASE FuseMount
  <2>1. mount # "stale"
    BY <1>1 DEF FuseMount, IInv, Protocol, StagesDone, alive
  <2>2. CASE Goto("preload") /\ mount' = "live"
    BY <2>1, <2>2 DEF IInv, TypeOK, Goto, Startup
  <2> QED BY <1>1, <2>2, <1>e DEF FuseMount, Fatal
<1>2. CASE Unmount
  <2>1. done
    BY <1>2 DEF Unmount, IInv, Protocol, DoneAfterLoop, umActed
  <2>2. mount' # "live" \/ mount' = mount
    BY <1>2 DEF Unmount
  <2> QED BY <2>1, <2>2
<1>3. CASE ExternalUnmount
  BY <1>3 DEF ExternalUnmount, Fault, IInv, TypeOK
<1>4. CASE Start /\ ~FuseMount
  BY <1>4, <1>e, <1>k DEF Start, Before, Graph, LoadConfig, NewTelemetry, NewFuse, PreloadFile,
     PreloadReturn, SpawnUnmounter, SdNotify, RunningAdd, SignalNotify, Fatal
<1>5. CASE Loop \/ WaitReturns \/ GraceTimeout
  BY <1>5, <1>e, <1>k DEF Loop, LoopCtxDone, LoopErr, LoopSignal, LoopConfig, WaitReturns,
     GraceTimeout
<1>6. CASE Goroutines /\ ~Unmount
  BY <1>6, <1>e, <1>k DEF Goroutines, TelemetryServeFails, TelemetryFinalize, UnmountStart,
     ProfilerExit, CtxTimeout, ConfigChange, BusSend, Fatal
<1>7. CASE SendSignal
  BY <1>7, <1>e, <1>k DEF SendSignal
<1>8. CASE HandlerPanic
  BY <1>8, <1>e DEF HandlerPanic
<1> QED BY <1>1, <1>2, <1>3, <1>4, <1>5, <1>6, <1>7, <1>8 DEF Next, Outside

(* No step of the daemon does anything else to the mountpoint.             *)
THEOREM MountSafe == Spec => MountChangesOnlyAsAsked
<1>1. IInv /\ [Next]_vars => [mountKept]_vars
  BY MountKeptNext
<1> QED BY <1>1, InductiveInvariant, PTL DEF Spec, MountChangesOnlyAsAsked, mountKept

-----------------------------------------------------------------------------
(* Refinement: the steps of Daemon are steps of Lifecycle, or none.        *)

(* An end of the process that is not the return of Wait is abrupt.         *)
LEMMA ExitRefines ==
  ASSUME IInv, alive, NEW cause, cause \notin {"clean", "none"}, Exit(cause)
  PROVE  L!EndAbrupt
<1>1. phase' = "abrupt"
  BY DEF phase, Exit, Startup
<1>2. phase \in {"starting", "serving", "stopping"}
  BY DEF phase, IInv, TypeOK, Protocol, alive, Stages
<1>3. mount' = L!Aborted /\ UNCHANGED umFinished
  BY DEF Exit, L!Aborted, umFinished, proc, comps
<1> QED BY <1>1, <1>2, <1>3 DEF L!EndAbrupt, L!ended

(* A step that keeps the main goroutine in its phase, the mount and the    *)
(* unmounter is invisible.                                                 *)
LEMMA Invisible ==
  ASSUME UNCHANGED <<exit, mount, um>>,
         pc' = pc \/ (pc \in Startup /\ pc' \in Startup)
  PROVE  UNCHANGED L!lvars
  BY DEF L!lvars, phase, umFinished, Startup

(* The safety part of the refinement, for all options and bounds.          *)
THEOREM Refinement == Spec => L!SafeSpec
<1>1. Init => L!Init
  BY DEF Init, L!Init, phase, Startup, umFinished
<1>2. ASSUME IInv, IInv', [Next]_vars PROVE [L!Next]_(L!lvars)
  <2>e. ASSUME NEW cause, cause \notin {"clean", "none"}, alive, Exit(cause) PROVE L!Next
    BY <1>2, <2>e, ExitRefines DEF L!Next
  <2>1. CASE FuseMount
    <3>1. CASE Goto("preload") /\ mount' = "live" /\ UNCHANGED <<comps, chans, env>>
      <4>1. mount \in {"none", "live"}
        BY <1>2, <2>1 DEF FuseMount, IInv, TypeOK, Protocol, StagesDone, alive
      <4>2. phase = "starting" /\ UNCHANGED <<phase, umFinished>>
        BY <1>2, <2>1, <3>1 DEF FuseMount, phase, umFinished, comps, Goto, Startup, IInv, Protocol, alive
      <4> QED BY <3>1, <4>1, <4>2 DEF L!Next, L!Mount, L!lvars
    <3> QED BY <2>1, <3>1, <2>e DEF FuseMount, Fatal, alive
  <2>2. CASE SignalNotify
    <3>1. phase = "starting" /\ phase' = "serving" /\ UNCHANGED <<mount, umFinished>>
      BY <1>2, <2>2 DEF SignalNotify, phase, umFinished, comps, Goto, Startup, IInv, Protocol, alive
    <3>2. mount # "stale"
      BY <1>2, <2>2 DEF SignalNotify, IInv, Protocol, StagesDone, alive
    <3> QED BY <3>1, <3>2 DEF L!Next, L!Serve
  <2>3. CASE LoopCtxDone \/ LoopSignal
    <3>1. CASE pc' = "wait"
      <4>1. phase = "serving" /\ phase' = "stopping" /\ UNCHANGED <<mount, umFinished>>
        BY <1>2, <2>3, <3>1 DEF LoopCtxDone, LoopSignal, phase, umFinished, comps, Goto, Startup,
           IInv, Protocol, alive
      <4> QED BY <4>1 DEF L!Next, L!Stop
    <3> QED BY <2>3, <3>1, Invisible DEF LoopCtxDone, LoopSignal, Goto, comps
  <2>4. CASE Unmount
    <3>1. phase = "stopping" /\ UNCHANGED phase
      BY <1>2, <2>4 DEF Unmount, phase, IInv, Protocol, DoneAfterLoop, umActed, alive, Startup
    <3>2. ~umFinished /\ umFinished' /\ mount' \in {"none", mount}
      BY <2>4 DEF Unmount, umFinished
    <3> QED BY <3>1, <3>2 DEF L!Next, L!Release
  <2>5. CASE ExternalUnmount
    <3>1. phase \in {"starting", "serving", "stopping"} /\ UNCHANGED <<phase, umFinished>>
      BY <1>2, <2>5 DEF ExternalUnmount, phase, umFinished, comps, IInv, TypeOK, Protocol, alive, Stages
    <3> QED BY <2>5, <3>1 DEF ExternalUnmount, L!Next, L!TakenAway, L!ended
  <2>6. CASE WaitReturns
    <3>1. phase = "stopping" /\ phase' = "clean" /\ mount' = L!Aborted /\ UNCHANGED umFinished
      BY <1>2, <2>6 DEF WaitReturns, phase, Exit, L!Aborted, umFinished, proc, comps, IInv,
         Protocol, alive, Startup
    <3>2. umFinished
      BY <1>2, <2>6 DEF WaitReturns, IInv, TypeOK, Protocol, WaitGroupAccounts, Owed, counted, alive
    <3> QED BY <3>1, <3>2 DEF L!Next, L!EndClean
  <2>7. CASE Start /\ ~FuseMount /\ ~SignalNotify
    <3>1. ASSUME NEW stage \in Startup, Goto(stage), pc \in Startup, UNCHANGED <<mount, um>>
          PROVE  UNCHANGED L!lvars
      BY <3>1, Invisible DEF Goto
    <3>2. CASE PreloadFile
      BY <3>2, Invisible DEF PreloadFile
    <3>3. CASE SpawnUnmounter
      <4>1. um = "off"
        BY <1>2, <3>3 DEF SpawnUnmounter, IInv, Protocol, StagesDone, alive
      <4>2. UNCHANGED <<phase, umFinished, mount>>
        BY <1>2, <3>3, <4>1 DEF SpawnUnmounter, Goto, phase, umFinished, Startup
      <4> QED BY <4>2 DEF L!lvars
    <3>4. CASE Before \/ Graph \/ LoadConfig \/ NewTelemetry
      BY <3>4, <3>1, <2>e DEF Before, Graph, LoadConfig, NewTelemetry, Fatal, alive, Startup
    <3>5. CASE NewFuse \/ PreloadReturn \/ SdNotify \/ RunningAdd
      BY <3>5, <3>1, <2>e DEF NewFuse, PreloadReturn, SdNotify, RunningAdd, Fatal, alive,
         Startup, comps
    <3> QED BY <2>7, <3>2, <3>3, <3>4, <3>5 DEF Start
  <2>8. CASE LoopErr \/ LoopConfig \/ GraceTimeout
    BY <2>8, <2>e, Invisible DEF LoopErr, LoopConfig, GraceTimeout, alive, comps
  <2>9. CASE Goroutines /\ ~Unmount /\ ~UnmountStart
    BY <2>9, <2>e, Invisible DEF Goroutines, TelemetryServeFails, TelemetryFinalize,
       ProfilerExit, CtxTimeout, ConfigChange, BusSend, Fatal, comps
  <2>10. CASE UnmountStart
    BY <2>10 DEF UnmountStart, L!lvars, phase, umFinished
  <2>11. CASE SendSignal \/ HandlerPanic
    BY <2>11, <2>e, Invisible DEF SendSignal, HandlerPanic, alive, comps, proc, Signals, StopSignals
  <2>12. CASE UNCHANGED vars
    BY <2>12, Invisible DEF vars
  <2> QED BY <1>2, <2>1, <2>2, <2>3, <2>4, <2>5, <2>6, <2>7, <2>8, <2>9, <2>10, <2>11, <2>12
          DEF Next, Loop, Outside
<1> QED BY <1>1, <1>2, InductiveInvariant, PTL DEF Spec, L!SafeSpec

-----------------------------------------------------------------------------
(* The daemon under systemd.                                               *)

(* Whatever the failed process left, its successor starts from what IInv   *)
(* says of a fresh one: a live mount went stale with its process.          *)
LEMMA RestartIInv ==
  ASSUME IInv, Restart
  PROVE  IInv' /\ UNCHANGED mount
<1>1. FreshProcess /\ TypeOK /\ UpdatesAccounted
  BY DEF Restart, IInv
<1>2. UNCHANGED <<opts, mount, sent, updates, faults>>
  BY <1>1 DEF FreshProcess, env
<1>3. TypeOK'
  <2>1. 0 \in Int /\ 0 \in 0..1 /\ 0 \in 0..MaxUpdates
    BY BoundsAssumption
  <2>2. {} \in SUBSET Profilers /\ "none" \in Signals \cup {"none"} /\ "none" \in Exits \cup {"none"}
    OBVIOUS
  <2> QED BY <1>1, <1>2, <2>1, <2>2 DEF FreshProcess, TypeOK, Stages, Startup
<1>4. UpdatesAccounted'
  BY <1>1, <1>2 DEF FreshProcess, UpdatesAccounted, TypeOK
<1>5. Protocol'
  BY <1>1 DEF FreshProcess, Protocol, WaitGroupNeverNegative, WaitGroupAccounts, DoneAfterLoop,
         StagesDone, ReadyMeansLoaded, CleanExitReleasesMount, alive, umFinished, umActed,
         counted, Owed
<1> QED BY <1>2, <1>3, <1>4, <1>5 DEF IInv

LEMMA ServiceIInv == IInv /\ [ServiceNext]_vars => IInv'
  BY NextIInv, RestartIInv DEF ServiceNext

(* What was shown of one process holds of all that systemd starts one      *)
(* after another, however each of them ends.                               *)
THEOREM ServiceInvariant == ServiceSpec => []IInv
  BY InitIInv, ServiceIInv, PTL DEF ServiceSpec, ServiceInit

(* In particular: READY means a complete tree each time it is announced, a *)
(* clean exit releases the mount of its own process, and neither a process *)
(* nor a restart mounts over what is there.                                *)
THEOREM ServiceSafe ==
  ServiceSpec => /\ []WaitGroupNeverNegative
                 /\ []CleanExitReleasesMount
                 /\ []ReadyMeansLoaded
                 /\ MountChangesOnlyAsAsked
<1>1. IInv => WaitGroupNeverNegative /\ CleanExitReleasesMount /\ ReadyMeansLoaded
  BY DEF IInv, Protocol, StagesDone
<1>2. IInv /\ [ServiceNext]_vars => [mountKept]_vars
  <2>1. ASSUME IInv, Restart PROVE mountKept
    BY <2>1, RestartIInv DEF mountKept
  <2> QED BY <2>1, MountKeptNext DEF ServiceNext
<1> QED BY <1>1, <1>2, ServiceInvariant, PTL
        DEF ServiceSpec, MountChangesOnlyAsAsked, mountKept

(* A mount has gone stale, and nobody is ready to serve.                   *)
Outage == mount = "stale" /\ (alive => ~ready /\ ~hooked)

LEMMA StaleStays == IInv /\ mount = "stale" /\ [ServiceNext]_vars => mount' = "stale"
<1> SUFFICES ASSUME IInv, mount = "stale", [ServiceNext]_vars PROVE mount' = "stale"
  OBVIOUS
<1>1. ASSUME NEW cause, Exit(cause) PROVE mount' = "stale"
  BY <1>1 DEF Exit
<1>2. CASE Restart
  BY <1>2, RestartIInv
<1>3. CASE Start
  <2>1. ~FuseMount \/ Fatal
    BY DEF FuseMount, Goto, IInv, Protocol, StagesDone, alive
  <2> QED BY <1>1, <1>3, <2>1 DEF Start, Before, Graph, LoadConfig, NewTelemetry, NewFuse,
         PreloadFile, PreloadReturn, SpawnUnmounter, SdNotify, RunningAdd, SignalNotify, Fatal
<1>4. CASE Loop \/ WaitReturns \/ GraceTimeout
  BY <1>1, <1>4 DEF Loop, LoopCtxDone, LoopErr, LoopSignal, LoopConfig, WaitReturns, GraceTimeout
<1>5. CASE Goroutines
  BY <1>1, <1>5 DEF Goroutines, TelemetryServeFails, TelemetryFinalize, UnmountStart, Unmount,
     ProfilerExit, CtxTimeout, ConfigChange, BusSend, Fatal
<1>6. CASE Outside
  BY <1>1, <1>6 DEF Outside, SendSignal, ExternalUnmount, HandlerPanic
<1>7. CASE UNCHANGED vars
  BY <1>7 DEF vars
<1> QED BY <1>2, <1>3, <1>4, <1>5, <1>6, <1>7 DEF ServiceNext, Next

(* Once a process has died with its mount, the outage is for good, as long *)
(* as nobody unmounts by hand what is dead: systemd may restart the        *)
(* service for ever, but the stat of the target fails, and no process      *)
(* announces READY or enters its loop again.                               *)
THEOREM OutageIsPermanent == ServiceSpec => [](mount = "stale" => []Outage)
<1>1. IInv /\ mount = "stale" => Outage
  BY DEF IInv, Protocol, StagesDone, Outage, ReadyMeansLoaded, alive, hooked
<1> DEFINE Stale == mount = "stale"
<1>2. IInv /\ Stale /\ [ServiceNext]_vars => Stale'
  BY StaleStays
<1>3. IInv /\ Stale => Outage
  BY <1>1
<1> HIDE DEF Stale
<1>4. ServiceSpec => [](Stale => []Outage)
  BY <1>2, <1>3, ServiceInvariant, PTL DEF ServiceSpec
<1> QED BY <1>4 DEF Stale
=============================================================================
