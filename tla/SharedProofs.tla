---------------------------- MODULE SharedProofs ----------------------------
(***************************************************************************)
(* A step of the composition is a step of the container or of the          *)
(* semaphore and leaves the other alone, or counts a call: what is proved  *)
(* of each of them holds when they are used together.                      *)
(***************************************************************************)
EXTENDS Shared, ContainerProofs, SemaphoreProofs

allVars == <<vars, semVars>>

(* A call of the semaphore counts as a call, which no part of the          *)
(* container's invariant minds.                                            *)
LEMMA CallCounted ==
    ContainerInv /\ calls < MaxCalls /\ calls' = calls + 1
    /\ UNCHANGED <<state, lock, pc, call, got, disturbed, crashed>> => ContainerInv'
<1>. SUFFICES ASSUME ContainerInv, calls < MaxCalls, calls' = calls + 1,
                     UNCHANGED <<state, lock, pc, call, got, disturbed, crashed>>
              PROVE  ContainerInv'
  OBVIOUS
<1>1. calls' \in 0..MaxCalls
  <2>1. MaxCalls \in Nat /\ calls \in 0..MaxCalls
    BY ContainerAssumption DEF ContainerInv, TypeInv
  <2>. QED  BY <2>1
<1>2. TypeInv'
  BY <1>1 DEF ContainerInv, TypeInv, state, lock
<1>3. Shape' /\ Locks'
  BY DEF ContainerInv, Shape, Locks, Inside, state, lock
<1>4. Atomic'
  BY DEF ContainerInv, Atomic, HalfDone, Is, Part, state, lock
<1>5. Quiet'
  BY DEF ContainerInv, Quiet, Undisturbed, Unlocked, Inside, Is, Part, state, lock
<1>. QED  BY <1>2, <1>3, <1>4, <1>5 DEF ContainerInv

LEMMA SharedInvariant == SharedSpec => [](ContainerInv /\ SemInv)
<1>1. SharedInit => ContainerInv /\ SemInv
  BY InitTypes, SemInvInit DEF SharedInit, ContainerInv
<1>2. ASSUME ContainerInv, SemInv, [SharedNext]_allVars PROVE ContainerInv' /\ SemInv'
  <2>. USE <1>2
  <2>1. CASE Construct
    <3>1. SemNext /\ UNCHANGED vars
      BY <2>1 DEF Construct, SemNext
    <3>. QED  BY <3>1, TypeStep, ShapeStep, LockStep, AtomicStep, QuietStep, SemInvNext
              DEF ContainerInv
  <2>2. ASSUME NEW g \in Goroutines, CallContainer(g) \/ Proceed(g)
        PROVE  ContainerInv' /\ SemInv'
    <3>1. Next /\ UNCHANGED semVars
      BY <2>2 DEF CallContainer, Proceed, Next
    <3>. QED  BY <3>1, TypeStep, ShapeStep, LockStep, AtomicStep, QuietStep, SemInvNext
              DEF ContainerInv
  <2>3. ASSUME NEW g \in Goroutines, CallSemaphore(g) PROVE ContainerInv' /\ SemInv'
    <3>1. SemNext
      BY <2>3, CallersAssumption DEF CallSemaphore, SemNext
    <3>2. ContainerInv'
      BY <2>3, CallCounted DEF CallSemaphore
    <3>. QED  BY <3>1, <3>2, SemInvNext
  <2>4. CASE UNCHANGED allVars
    <3>1. UNCHANGED vars /\ UNCHANGED semVars
      BY <2>4 DEF allVars
    <3>. QED  BY <3>1, TypeStep, ShapeStep, LockStep, AtomicStep, QuietStep, SemInvNext
              DEF ContainerInv
  <2>. QED  BY <2>1, <2>2, <2>3, <2>4 DEF SharedNext
<1>. QED  BY <1>1, <1>2, PTL DEF SharedSpec, allVars

(* Whatever goroutines do with a container and a semaphore, in any order:  *)
(* the methods are atomic for each other, the functions without lock are   *)
(* right while no writer is inside, and no token is lost or made up.       *)
THEOREM SharedSafe ==
    SharedSpec => [](MethodsAreAtomic /\ UnlockedNeedQuiet /\ TokensAccounted)
<1>1. ContainerInv => MethodsAreAtomic
  BY InvAtomic
<1>2. ContainerInv => UnlockedNeedQuiet
  BY InvQuiet
<1>3. SemInv => TokensAccounted
  BY InvTokens
<1>. QED  BY SharedInvariant, <1>1, <1>2, <1>3, PTL

(* The two used together still hide from each other what is half done: to  *)
(* a goroutine that also waits and posts, each call of a method takes      *)
(* effect at one moment.                                                   *)
THEOREM SharedRefines == SharedSpec => ImplementsAtomic
<1>1. SharedInit => A!Init
  BY RefineInit DEF SharedInit
<1>2. ASSUME ContainerInv, ContainerInv', [SharedNext]_allVars PROVE [A!Next]_(A!avars)
  <2>1. CASE Next \/ UNCHANGED vars
    BY <1>2, <2>1, RefineStep
  <2>2. ASSUME NEW g \in Goroutines, CallSemaphore(g) PROVE UNCHANGED A!avars
    BY <2>2 DEF CallSemaphore, A!avars, state, window, answer, HalfDone, Is
  <2>. QED
    BY <1>2, <2>1, <2>2
       DEF SharedNext, allVars, Construct, CallContainer, Proceed, Next
<1>3. SharedSpec => []ContainerInv
  BY SharedInvariant, PTL
<1>. QED  BY <1>1, <1>2, <1>3, PTL DEF SharedSpec, allVars, ImplementsAtomic, A!Spec
=============================================================================
