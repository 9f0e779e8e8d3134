------------------------------- MODULE Shared -------------------------------
(***************************************************************************)
(* Goroutines that share a container and a semaphore, in any order of the  *)
(* calls of both.  A goroutine is in one call at a time: one that sleeps   *)
(* in Wait calls nothing until it is handed a token.                       *)
(***************************************************************************)
EXTENDS Container, Semaphore

ASSUME CallersAssumption == Callers = Goroutines

SharedInit == Init /\ SemInit

Free(g) == pc[g] = "idle" /\ g \notin asleep /\ ~crashed

CallContainer(g) ==
    Free(g) /\ (\E c \in Calls: Begin(g, c)) /\ UNCHANGED semVars

CallSemaphore(g) ==
    /\ Free(g) /\ calls < MaxCalls /\ calls' = calls + 1
    /\ Wait(g) \/ TryWait(g) \/ Post(g)
    /\ UNCHANGED <<state, lock, pc, call, got, disturbed, crashed>>

Construct == Fill /\ UNCHANGED vars

Proceed(g) == Continue(g) /\ UNCHANGED semVars

SharedNext ==
    Construct \/ \E g \in Goroutines: CallContainer(g) \/ CallSemaphore(g) \/ Proceed(g)

(* Goroutines that can run do.                                             *)
SharedSpec ==
    /\ SharedInit /\ [][SharedNext]_<<vars, semVars>>
    /\ \A g \in Goroutines: WF_<<vars, semVars>>(Proceed(g))

(* A call of a method or a function of the container returns, whatever     *)
(* else is called, unless the process was stopped by the runtime.          *)
CallsEnd == \A g \in Goroutines: (pc[g] # "idle") ~> (pc[g] = "idle" \/ crashed)
=============================================================================
