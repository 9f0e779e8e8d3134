------------------------------- MODULE Daemon -------------------------------
(***************************************************************************)
(* The life of one `gpgfs mount` process: Before and MountAction of        *)
(* cli/cli.go with the goroutines they start.  The main goroutine builds   *)
(* its components in the order the dependency container resolves the       *)
(* parameters of the last Invoke, then selects over the context, the error *)
(* channel, the signals and the configuration bus, then waits.  Around it  *)
(* run the telemetry server and its finalizer, the unmounter, the          *)
(* profilers, the etcd watchers, two timers, the kernel's signals and      *)
(* whoever uses the mountpoint.                                            *)
(*                                                                         *)
(* Files, keys and requests are left out here: Preload and File model      *)
(* them.  What this module keeps is who waits for whom, what is told to    *)
(* whom, and what happens to the mountpoint when the process goes away.    *)
(***************************************************************************)
EXTENDS Integers, FiniteSets

CONSTANTS
    Options,     \* the flag and configuration combinations under study
    MaxSignals,  \* bound: signals delivered to the process
    MaxUpdates,  \* bound: configuration updates published by etcd
    MaxFaults    \* bound: operations of the environment that fail

Profilers == {"profile", "trace"}

ASSUME OptionsAssumption ==
    Options \subseteq [telemetry: BOOLEAN, duration: BOOLEAN,
                       watch: BOOLEAN, prof: SUBSET Profilers]
ASSUME BoundsAssumption ==
    MaxSignals \in Nat /\ MaxUpdates \in Nat /\ MaxFaults \in Nat

VARIABLES
    opts,     \* the options of this process, never changed
    pc,       \* where the main goroutine is
    exit,     \* why the process ended, "none" while it is alive
    cfg,      \* has config.Load succeeded
    ctx,      \* the context of --duration: "none", "running" or "done"
    prof,     \* the profiler goroutines started
    tsrv,     \* the telemetry listener: "off", "serving" or "failed"
    tfin,     \* its finalizer goroutine: "off", "waiting" or "done"
    um,       \* the unmounter goroutine
    running,  \* the counter of the WaitGroup
    done,     \* has the channel `done` been closed
    errc,     \* is there an error in the channel errc
    sig,      \* the signal held by the channel sig, of capacity 1
    bus,      \* updates in the channel bus.Config, of capacity 1
    senders,  \* watcher goroutines blocked in Config.Update
    tree,     \* how much of the inode tree Preload has built
    ready,    \* has systemd been told that the service is ready
    mount,    \* the mountpoint: "none", "live" or "stale"
    sent, updates, faults  \* what has been used up of the three bounds

vars == <<opts, pc, exit, cfg, ctx, prof, tsrv, tfin, um, running, done, errc,
          sig, bus, senders, tree, ready, mount, sent, updates, faults>>

(* Groups of variables, for the frame conditions.                          *)
env == <<sent, updates, faults>>
chans == <<done, errc, sig, bus, senders>>
comps == <<cfg, ctx, prof, tsrv, tfin, um, running, tree, ready>>
proc == <<opts, comps, chans>>

StopSignals == {"TERM", "QUIT"}
Signals == StopSignals \cup {"HUP", "USR1"}

(* The order in which the main goroutine passes its stages.  "sigs" is the *)
(* provider of the signal channel, the last parameter to be built.         *)
Startup == {"before", "graph", "config", "telemetry", "fuse", "mount",
            "preload", "spawn", "notify", "add", "sigs"}
Stages == Startup \cup {"loop", "wait", "exited"}

Exits == {"clean", "profiled", "fatal", "grace", "panic"} \cup Signals

alive == pc # "exited"
hooked == pc \in {"loop", "wait"}   \* signal.Notify has been called

Init ==
    /\ opts \in Options
    /\ pc = "before" /\ exit = "none"
    /\ cfg = FALSE /\ ctx = "none" /\ prof = {}
    /\ tsrv = "off" /\ tfin = "off" /\ um = "off" /\ running = 0
    /\ done = FALSE /\ errc = FALSE /\ sig = "none"
    /\ bus = 0 /\ senders = 0
    /\ tree = "empty" /\ ready = FALSE
    /\ mount \in {"none", "stale"}    \* what an earlier process left behind
    /\ sent = 0 /\ updates = 0 /\ faults = 0

-----------------------------------------------------------------------------
(* Faults: an operation of the environment may fail while the bound lasts. *)
Fault == faults < MaxFaults /\ faults' = faults + 1

(* The end of the process: the kernel aborts the connection of a live      *)
(* mount, which stays in the mount table and answers ENOTCONN.             *)
Exit(cause) ==
    /\ pc' = "exited" /\ exit' = cause
    /\ mount' = IF mount = "live" THEN "stale" ELSE mount
    /\ UNCHANGED proc

(* A main goroutine that returns an error: Run calls errors.Fatal.         *)
Fatal == Exit("fatal") /\ Fault /\ UNCHANGED <<sent, updates>>

Goto(stage) == pc' = stage /\ UNCHANGED <<opts, exit>>

StartContext ==
    ctx' = IF opts.duration /\ ctx = "none" THEN "running" ELSE ctx

-----------------------------------------------------------------------------
(* The main goroutine, in start-up order.                                  *)

(* Before: --profile and --trace are invoked here, which builds the        *)
(* context, the configuration and the logger first.                        *)
Before ==
    /\ pc = "before"
    /\ \/ /\ Goto("graph")
          /\ IF opts.prof = {}
               THEN UNCHANGED <<ctx, cfg, prof>>
               ELSE StartContext /\ cfg' = TRUE /\ prof' = opts.prof
          /\ UNCHANGED <<tsrv, tfin, um, running, tree, ready, mount, chans, env>>
       \/ opts.prof # {} /\ Fatal

(* The first Invoke of MountAction wants the logger, hence the             *)
(* configuration, and ignores the error.                                   *)
Graph ==
    /\ pc = "graph"
    /\ Goto("config")
    /\ \/ cfg' = TRUE /\ UNCHANGED faults
       \/ ~cfg /\ Fault /\ UNCHANGED cfg
    /\ UNCHANGED <<ctx, prof, tsrv, tfin, um, running, tree, ready, mount, chans, sent, updates>>

(* The second Invoke builds the context first, then the configuration,     *)
(* again if the first attempt failed: the container keeps no failure.      *)
LoadConfig ==
    /\ pc = "config"
    /\ \/ /\ Goto("telemetry")
          /\ StartContext /\ cfg' = TRUE
          /\ UNCHANGED <<prof, tsrv, tfin, um, running, tree, ready, mount, chans, env>>
       \/ ~cfg /\ Fatal

(* The telemetry provider: listen, count the finalizer, start both         *)
(* goroutines.                                                             *)
NewTelemetry ==
    /\ pc = "telemetry"
    /\ \/ /\ Goto("fuse")
          /\ IF opts.telemetry
               THEN tsrv' = "serving" /\ tfin' = "waiting" /\ running' = running + 1
               ELSE UNCHANGED <<tsrv, tfin, running>>
          /\ UNCHANGED <<cfg, ctx, prof, um, tree, ready, mount, chans, env>>
       \/ opts.telemetry /\ Fatal

(* Variant: the target is not looked at before mounting.                   *)
NewFuseNoStat ==
    /\ pc = "fuse"
    /\ Goto("mount")
    /\ UNCHANGED <<comps, chans, mount, env>>

(* fuse.New stats source and target.  The stat of a target that is a stale *)
(* mount fails with ENOTCONN, always.                                      *)
TargetStats == mount # "stale"

(* The fuse.Fuse provider reads the key and calls fuse.New.                *)
NewFuse ==
    /\ pc = "fuse"
    /\ \/ /\ TargetStats
          /\ Goto("mount")
          /\ UNCHANGED <<comps, chans, mount, env>>
       \/ ~TargetStats /\ Exit("fatal") /\ UNCHANGED env
       \/ Fatal

FuseMount ==
    /\ pc = "mount"
    /\ \/ /\ Goto("preload") /\ mount' = "live"
          /\ UNCHANGED <<comps, chans, env>>
       \/ Fatal

(* Preload inserts inodes into a tree that is already being served.  It    *)
(* ends well, with an error of the attributes of some file, or in a panic. *)
PreloadFile ==
    /\ pc = "preload" /\ tree = "empty"
    /\ tree' = "partial"
    /\ UNCHANGED <<opts, pc, exit, cfg, ctx, prof, tsrv, tfin, um, running, ready, mount, chans, env>>

(* Variant: start-up goes on while the files are still being loaded.       *)
PreloadInBackground ==
    /\ pc = "preload"
    /\ Goto("spawn")
    /\ UNCHANGED <<comps, chans, mount, env>>

PreloadReturn ==
    /\ pc = "preload"
    /\ \/ /\ Goto("spawn") /\ tree' = "loaded"
          /\ UNCHANGED <<cfg, ctx, prof, tsrv, tfin, um, running, ready, mount, chans, env>>
       \/ Fatal
       \/ Exit("panic") /\ Fault /\ UNCHANGED <<sent, updates>>

SpawnUnmounter ==
    /\ pc = "spawn"
    /\ Goto("notify") /\ um' = "waiting"
    /\ UNCHANGED <<cfg, ctx, prof, tsrv, tfin, running, tree, ready, mount, chans, env>>

SdNotify ==
    /\ pc = "notify"
    /\ \/ /\ Goto("add") /\ ready' = TRUE
          /\ UNCHANGED <<cfg, ctx, prof, tsrv, tfin, um, running, tree, mount, chans, env>>
       \/ Fatal

(* Variant: the unmounter is not counted.                                  *)
RunningAddForgotten ==
    /\ pc = "add"
    /\ Goto("sigs")
    /\ UNCHANGED <<comps, chans, mount, env>>

(* The unmounter is counted only now, after it was started.                *)
RunningAdd ==
    /\ pc = "add"
    /\ Goto("sigs") /\ running' = running + 1
    /\ UNCHANGED <<cfg, ctx, prof, tsrv, tfin, um, tree, ready, mount, chans, env>>

SignalNotify ==
    /\ pc = "sigs"
    /\ Goto("loop")
    /\ UNCHANGED <<comps, chans, mount, env>>

-----------------------------------------------------------------------------
(* The main loop: one action for each case of the select.                  *)

(* The context of --duration has expired: leave the loop, `done` stays     *)
(* open.                                                                   *)
LoopCtxDone ==
    /\ pc = "loop" /\ ctx = "done"
    /\ Goto("wait")
    /\ UNCHANGED <<comps, chans, mount, env>>

LoopErr ==
    /\ pc = "loop" /\ errc
    /\ Exit("fatal") /\ UNCHANGED env

LoopSignal ==
    /\ pc = "loop" /\ sig # "none"
    /\ sig' = "none"
    /\ IF sig \in StopSignals
         THEN done' = TRUE /\ Goto("wait")
         ELSE done' = done /\ Goto("loop")
    /\ UNCHANGED <<comps, errc, bus, senders, mount, env>>

(* Variant: the select has no case for the configuration bus.              *)
NoLoopConfig == FALSE

LoopConfig ==
    /\ pc = "loop" /\ bus > 0
    /\ bus' = bus - 1
    /\ UNCHANGED <<opts, pc, exit, comps, done, errc, sig, senders, mount, env>>

(* Variant: the process does not wait for the group.                       *)
ExitWithoutWait ==
    /\ pc = "wait"
    /\ Exit("clean") /\ UNCHANGED env

(* running.Wait() returned: the deferred os.Exit(0).                       *)
WaitReturns ==
    /\ pc = "wait" /\ running = 0
    /\ Exit("clean") /\ UNCHANGED env

(* Variant: the timer is armed only once Wait has returned.                *)
GraceAfterWait ==
    /\ pc = "wait" /\ running = 0
    /\ Exit("grace") /\ UNCHANGED env

(* The timer armed when the loop was left: os.Exit(1).                     *)
GraceTimeout ==
    /\ pc = "wait"
    /\ Exit("grace") /\ UNCHANGED env

-----------------------------------------------------------------------------
(* The goroutines.                                                         *)

(* Accept fails for good: the telemetry server sends its error to errc,    *)
(* whose one slot nobody else uses.                                        *)
TelemetryServeFails ==
    /\ alive /\ tsrv = "serving"
    /\ Fault
    /\ tsrv' = "failed" /\ errc' = TRUE
    /\ UNCHANGED <<opts, pc, exit, cfg, ctx, prof, tfin, um, running, tree, ready, mount,
                   done, sig, bus, senders, sent, updates>>

(* The finalizer of the telemetry server.  Shutdown closes the servers     *)
(* embedded in the router; the listener is served by another http.Server,  *)
(* made by server.NewHTTP, and goes on being served.                       *)
TelemetryFinalize ==
    /\ alive /\ tfin = "waiting" /\ done
    /\ tfin' = "done" /\ running' = running - 1
    /\ UNCHANGED <<opts, pc, exit, cfg, ctx, prof, tsrv, um, tree, ready, mount, chans, env>>

(* Variant: Done is called before Unmount instead of being deferred.       *)
UnmountDoneEarly ==
    /\ alive /\ um = "waiting" /\ done
    /\ um' = "unmounting" /\ running' = running - 1
    /\ UNCHANGED <<opts, pc, exit, cfg, ctx, prof, tsrv, tfin, tree, ready, mount, chans, env>>

UnmountStart ==
    /\ alive /\ um = "waiting" /\ done
    /\ um' = "unmounting"
    /\ UNCHANGED <<opts, pc, exit, cfg, ctx, prof, tsrv, tfin, running, tree, ready, mount, chans, env>>

(* Unmount fails when the mountpoint is busy, and when it is no longer     *)
(* mounted; the error is logged and the WaitGroup is told either way.      *)
Unmount ==
    /\ alive /\ um = "unmounting"
    /\ running' = running - 1
    /\ \/ mount = "live" /\ um' = "unmounted" /\ mount' = "none" /\ UNCHANGED faults
       \/ mount = "live" /\ um' = "failed" /\ Fault /\ UNCHANGED mount
       \/ mount # "live" /\ um' = "failed" /\ UNCHANGED <<mount, faults>>
    /\ UNCHANGED <<opts, pc, exit, cfg, ctx, prof, tsrv, tfin, tree, ready, chans, sent, updates>>

(* A profiler wakes up when the context ends, writes its file and ends the *)
(* process; only the heap profile may fail to be written.                  *)
ProfilerExit ==
    /\ alive /\ ctx = "done" /\ prof # {}
    /\ \/ Exit("profiled") /\ UNCHANGED env
       \/ "profile" \in prof /\ Fatal

CtxTimeout ==
    /\ alive /\ ctx = "running"
    /\ ctx' = "done"
    /\ UNCHANGED <<opts, pc, exit, cfg, prof, tsrv, tfin, um, running, tree, ready, mount, chans, env>>

(* An etcd watcher has a new value and calls Config.Update, which blocks   *)
(* until the bus has room.                                                 *)
ConfigChange ==
    /\ alive /\ cfg /\ opts.watch /\ updates < MaxUpdates
    /\ updates' = updates + 1 /\ senders' = senders + 1
    /\ UNCHANGED <<opts, pc, exit, comps, done, errc, sig, bus, mount, sent, faults>>

(* Variant: the bus takes updates without limit.                           *)
BusSendUnbounded ==
    /\ alive /\ senders > 0
    /\ senders' = senders - 1 /\ bus' = bus + 1
    /\ UNCHANGED <<opts, pc, exit, comps, done, errc, sig, mount, env>>

BusSend ==
    /\ alive /\ senders > 0 /\ bus < 1
    /\ senders' = senders - 1 /\ bus' = bus + 1
    /\ UNCHANGED <<opts, pc, exit, comps, done, errc, sig, mount, env>>

-----------------------------------------------------------------------------
(* The outside.                                                            *)

(* A signal.  Before signal.Notify the Go runtime dies of all but USR1;    *)
(* afterwards the channel keeps one signal and drops those that find it    *)
(* full.                                                                   *)
SendSignal ==
    /\ alive /\ sent < MaxSignals
    /\ sent' = sent + 1
    /\ \E s \in Signals:
         \/ /\ hooked
            /\ sig' = IF sig = "none" THEN s ELSE sig
            /\ UNCHANGED <<opts, pc, exit, comps, mount, done, errc, bus, senders>>
         \/ ~hooked /\ s # "USR1" /\ Exit(s)
         \/ ~hooked /\ s = "USR1" /\ UNCHANGED <<pc, exit, mount, proc>>
    /\ UNCHANGED <<updates, faults>>

(* Somebody unmounts the mountpoint by hand; the daemon does not notice.   *)
ExternalUnmount ==
    /\ alive /\ mount = "live"
    /\ Fault
    /\ mount' = "none"
    /\ UNCHANGED <<opts, pc, exit, comps, chans, sent, updates>>

(* A request handler panics, which takes the process down.                 *)
HandlerPanic ==
    /\ alive /\ mount = "live" /\ tree # "empty"
    /\ Fault
    /\ Exit("panic")
    /\ UNCHANGED <<sent, updates>>

-----------------------------------------------------------------------------
Start ==
    \/ Before \/ Graph \/ LoadConfig \/ NewTelemetry \/ NewFuse \/ FuseMount
    \/ PreloadFile \/ PreloadReturn \/ SpawnUnmounter \/ SdNotify
    \/ RunningAdd \/ SignalNotify

Loop == LoopCtxDone \/ LoopErr \/ LoopSignal \/ LoopConfig

Goroutines ==
    \/ TelemetryServeFails \/ TelemetryFinalize \/ UnmountStart \/ Unmount
    \/ ProfilerExit \/ CtxTimeout \/ ConfigChange \/ BusSend

Outside == SendSignal \/ ExternalUnmount \/ HandlerPanic

Next == Start \/ Loop \/ WaitReturns \/ GraceTimeout \/ Goroutines \/ Outside

Spec == Init /\ [][Next]_vars

(* The scheduler runs every goroutine that can run, select picks at random *)
(* among its ready cases, and timers fire.  Unmount may hang, and nothing  *)
(* is assumed of the outside.  PreloadFile is left out: Preload may find   *)
(* nothing to mount.                                                       *)
Fairness ==
    /\ WF_vars(Before) /\ WF_vars(Graph) /\ WF_vars(LoadConfig)
    /\ WF_vars(NewTelemetry) /\ WF_vars(NewFuse) /\ WF_vars(FuseMount)
    /\ WF_vars(PreloadReturn) /\ WF_vars(SpawnUnmounter) /\ WF_vars(SdNotify)
    /\ WF_vars(RunningAdd) /\ WF_vars(SignalNotify)
    /\ WF_vars(LoopCtxDone) /\ WF_vars(LoopErr)
    /\ WF_vars(LoopSignal) /\ WF_vars(LoopConfig)
    /\ WF_vars(WaitReturns) /\ WF_vars(GraceTimeout)
    /\ WF_vars(TelemetryFinalize) /\ WF_vars(UnmountStart)
    /\ WF_vars(ProfilerExit) /\ WF_vars(CtxTimeout) /\ WF_vars(BusSend)

FairSpec == Spec /\ Fairness

-----------------------------------------------------------------------------
(* The state of the process, one value of its type for each variable.      *)
TypeOK ==
    /\ opts \in Options
    /\ pc \in Stages /\ exit \in Exits \cup {"none"}
    /\ cfg \in BOOLEAN /\ ctx \in {"none", "running", "done"}
    /\ prof \in SUBSET Profilers
    /\ tsrv \in {"off", "serving", "failed"}
    /\ tfin \in {"off", "waiting", "done"}
    /\ um \in {"off", "waiting", "unmounting", "unmounted", "failed"}
    /\ running \in Int
    /\ done \in BOOLEAN /\ errc \in BOOLEAN /\ sig \in Signals \cup {"none"}
    /\ bus \in 0..1 /\ senders \in 0..MaxUpdates
    /\ tree \in {"empty", "partial", "loaded"} /\ ready \in BOOLEAN
    /\ mount \in {"none", "live", "stale"}
    /\ sent \in 0..MaxSignals /\ updates \in 0..MaxUpdates
    /\ faults \in 0..MaxFaults

umFinished == um \in {"unmounted", "failed"}
umActed == um \in {"unmounting", "unmounted", "failed"}

(* The WaitGroup is never driven below zero, which would panic, although   *)
(* the unmounter, which calls Done, is started before it is counted, and   *)
(* although the counter of the telemetry server is in the same group.      *)
WaitGroupNeverNegative == running >= 0

(* Leaving by os.Exit(0) after Wait means that the unmounter has run to    *)
(* its end: a mount that is left behind is one that Unmount failed on.     *)
CleanExitReleasesMount ==
    exit = "clean" => umFinished /\ (mount # "none" => um = "failed")

(* systemd is told READY only when every file has been mounted and someone *)
(* stands by to unmount them, whatever fails during start-up.              *)
ReadyMeansLoaded == ready => tree = "loaded" /\ um # "off"

(* While Wait is pending the goroutines it counts have been told to end,   *)
(* so that only a slow Unmount can make the grace time expire.  With       *)
(* --duration the loop is left without closing `done` and this fails.      *)
WaitedComponentsAreTold == pc = "wait" => done \/ running = 0

(* The mountpoint is mounted by a starting process only, never over the    *)
(* stale mount of an earlier one, and the daemon gives a live mount up     *)
(* only when a signal has told it to stop.                                 *)
MountChangesOnlyAsAsked ==
    [][/\ mount' = "live" /\ mount # "live" => mount = "none" /\ pc' \in Startup
       /\ mount = "live" /\ mount' = "none" => done \/ faults' > faults]_vars

(* A stop signal that entered the channel ends the process, whether or not *)
(* Unmount ever returns, and whatever else the select could do instead;    *)
(* and so does --duration, "exit after duration".                          *)
StopRequestsEndProcess ==
    /\ (pc = "loop" /\ sig \in StopSignals) ~> ~alive
    /\ opts.duration ~> ~alive

(* A watcher blocked on the configuration bus gets on while the main loop  *)
(* runs, even if updates arrived during start-up, when nobody reads.       *)
UpdatesDoNotBlockWatchers ==
    (pc = "loop" /\ senders > 0) ~> (senders = 0 \/ pc # "loop")

(* The abstract view of the process: what the main goroutine is about, and *)
(* whether the unmounter has finished.                                     *)
phase ==
    CASE exit = "clean"  -> "clean"
      [] pc = "exited" /\ exit # "clean" -> "abrupt"
      [] pc \in Startup  -> "starting"
      [] pc = "loop"     -> "serving"
      [] pc = "wait"     -> "stopping"

L == INSTANCE Lifecycle WITH released <- umFinished

(* The daemon implements Lifecycle: all its goroutines together never do   *)
(* to the mountpoint what the abstract process would not do, and a process *)
(* that left its loop ends.                                                *)
ImplementsLifecycle == L!Spec

-----------------------------------------------------------------------------
(* The inductive invariant behind the first three invariants.              *)
counted == pc \in {"sigs", "loop", "wait"}

Owed ==
    (IF tfin = "waiting" THEN 1 ELSE 0) + (IF counted THEN 1 ELSE 0)
    - (IF umFinished THEN 1 ELSE 0)

(* While the process lives the WaitGroup counts the goroutines that have   *)
(* still to call Done, the unmounter from the moment it is added.          *)
WaitGroupAccounts == alive => running = Owed

(* `done` is closed only by the loop, so that no goroutine of the group    *)
(* acts before it was counted.                                             *)
DoneAfterLoop ==
    /\ alive /\ done => pc = "wait"
    /\ umActed => done
    /\ tfin = "done" => done

(* What the stages of start-up have done by the time they are passed.      *)
StagesDone ==
    /\ pc \in {"before", "graph", "config", "telemetry"} => tfin = "off"
    /\ pc \in {"spawn", "notify", "add", "sigs", "loop", "wait"} => tree = "loaded"
    /\ pc \in {"notify", "add", "sigs", "loop", "wait"} => um # "off"
    /\ alive /\ um # "off" => pc \in {"notify", "add", "sigs", "loop", "wait"}
    /\ um # "off" => tree = "loaded"
    /\ ReadyMeansLoaded
    /\ alive /\ mount = "stale" => pc \in {"before", "graph", "config", "telemetry", "fuse"}
    /\ um = "unmounted" => mount = "none"

(* An update is published once: it is with its watcher, on the bus or has  *)
(* been read.                                                              *)
UpdatesAccounted == senders + bus <= updates

Protocol ==
    /\ WaitGroupNeverNegative /\ WaitGroupAccounts
    /\ DoneAfterLoop /\ StagesDone
    /\ CleanExitReleasesMount
    /\ alive <=> exit = "none"

(* All of the above: it holds initially and every step preserves it.       *)
IInv == TypeOK /\ UpdatesAccounted /\ Protocol
=============================================================================
