-------------------------- MODULE ContainerProofs --------------------------
(***************************************************************************)
(* The container for any number of goroutines, any keys, values, times and *)
(* windows, any of the calls, and any number of them.                      *)
(*                                                                         *)
(* What makes the methods atomic is that a writer inside excludes readers  *)
(* and other writers (Locks); what makes the functions without lock right  *)
(* is only that no writer is inside while they read (Quiet).               *)
(*                                                                         *)
(* Then: the container implements AtomicContainer, step by step.           *)
(***************************************************************************)
EXTENDS Container, TLAPS

Stages == {"idle", "lock", "drain", "rlock", "parked", "in", "after",
           "before", "entries", "done", "unlock", "runlock"}

GotRecords ==
    [after: Times \cup {0}, before: Times \cup {0}, entries: Payloads,
     seen: SUBSET Keys, verdict: {"none", "valid", "invalid", "incompatible"}]

(* TypeOK, and got is a function to records.                               *)
TypeInv ==
    /\ version \in Int /\ after \in Times /\ before \in Times
    /\ payload \in Payloads
    /\ writer \in Goroutines \cup {Nobody} /\ readers \subseteq Goroutines
    /\ pc \in [Goroutines -> Stages]
    /\ call \in [Goroutines -> Calls \cup {NoCall}]
    /\ got \in [Goroutines -> GotRecords]
    /\ disturbed \in [Goroutines -> BOOLEAN]
    /\ crashed \in BOOLEAN /\ calls \in 0..MaxCalls

(* What a goroutine can be calling, and have read, at each stage.          *)
Shape ==
    \A g \in Goroutines:
        /\ pc[g] \in {"idle", "lock", "drain", "rlock", "parked", "after"} => got[g] = Nothing
        /\ pc[g] = "idle" => call[g] = NoCall
        /\ pc[g] \in {"lock", "drain", "unlock"} => call[g].op \in Writers
        /\ pc[g] \in {"rlock", "parked", "runlock"} => call[g].op \in Readers
        /\ pc[g] = "in" => call[g].op \in Writers \cup Readers
        /\ pc[g] = "before" => call[g].op \in {"refresh", "validate", "marshal"}
        /\ pc[g] \in {"after", "done"} => call[g].op \in {"validate", "marshal"}
        /\ pc[g] = "entries" => call[g].op = "marshal"
        /\ pc[g] = "in" /\ call[g].op # "data" => got[g] = Nothing
        /\ DOMAIN got[g].entries \subseteq got[g].seen

(* One writer at most, and no reader beside it.                            *)
Locks ==
    \A g \in Goroutines:
        /\ pc[g] = "drain" \/ g \in Inside => writer = g
        /\ g \in Inside => readers = {}
        /\ g \in readers <=> pc[g] \in {"in", "runlock"} /\ call[g].op \in Readers

(* The window is one window, unless a Refresh is half done.                *)
Atomic ==
    /\ (\A g \in Goroutines: ~HalfDone(g)) => <<after, before>> \in Windows
    /\ \A g \in Goroutines: HalfDone(g) => after = call[g].window[1]
    /\ \A g \in readers: got[g].entries = Part(payload, got[g].seen)

LEMMA CallFields ==
    ASSUME NEW c \in Calls
    PROVE  /\ c.op \in Writers \cup Readers \cup {"validate", "marshal"}
           /\ c.op = "refresh" => c.window \in Windows
           /\ c.op = "set" => c.key \in Keys /\ c.value \in Values
           /\ c.op \in {"del", "get"} => c.key \in Keys
<1>1. c \in AllCalls
  BY ContainerAssumption
<1>2. CASE c \in [op: {"refresh"}, window: Windows]
  BY <1>2 DEF Writers
<1>3. CASE c \in [op: {"set"}, key: Keys, value: Values]
  BY <1>3 DEF Writers
<1>4. CASE c \in [op: {"del", "get"}, key: Keys]
  BY <1>4 DEF Writers, Readers
<1>5. CASE c \in [op: {"clean", "data", "marshal"}]
  BY <1>5 DEF Writers, Readers
<1>6. CASE c \in [op: {"validate"}, now: Times]
  BY <1>6
<1>. QED  BY <1>1, <1>2, <1>3, <1>4, <1>5, <1>6 DEF AllCalls

(* What is being called, too.                                              *)
LEMMA CallingFields ==
    ASSUME TypeInv, NEW g \in Goroutines
    PROVE  /\ Is(g, "refresh") => call[g].window \in Windows
           /\ Is(g, "set") => call[g].key \in Keys /\ call[g].value \in Values
           /\ call[g].op \in {"del", "get"} => call[g].key \in Keys
<1>1. CASE call[g] \in Calls
  BY <1>1, CallFields DEF Is
<1>2. CASE call[g] = NoCall
  BY <1>2 DEF Is, NoCall
<1>. QED  BY <1>1, <1>2 DEF TypeInv

LEMMA PayloadIs ==
    ASSUME NEW p \in Payloads
    PROVE  DOMAIN p \subseteq Keys /\ p \in [DOMAIN p -> Values]
  BY DEF Payloads

LEMMA PayloadMake ==
    ASSUME NEW D \in SUBSET Keys, NEW p \in [D -> Values]
    PROVE  p \in Payloads
  BY DEF Payloads

LEMMA NothingTyped == Nothing \in GotRecords
<1>1. EmptyMap \in [{} -> Values]
  BY DEF EmptyMap
<1>2. EmptyMap \in Payloads
  BY <1>1, PayloadMake
<1>. QED  BY <1>2 DEF Nothing, GotRecords

(* What a look at an entry does to what has been read.                     *)
LEMMA LookStep ==
    ASSUME NEW g \in Goroutines, NEW k \in Keys \ got[g].seen, Look(g, k),
           DOMAIN got[g].entries \subseteq got[g].seen,
           payload \in Payloads, got \in [Goroutines -> GotRecords]
    PROVE  /\ got' \in [Goroutines -> GotRecords]
           /\ \A h \in Goroutines \ {g}: got'[h] = got[h]
           /\ got'[g].seen = got[g].seen \cup {k}
           /\ DOMAIN got'[g].entries \subseteq got'[g].seen
           /\ got'[g].after = got[g].after /\ got'[g].before = got[g].before
           /\ got[g].entries = Part(payload, got[g].seen) =>
                got'[g].entries = Part(payload, got'[g].seen)
<1>. DEFINE entries == [e \in DOMAIN got[g].entries \cup ({k} \cap DOMAIN payload) |->
                          IF e = k THEN payload[k] ELSE got[g].entries[e]]
            read == [got[g] EXCEPT !.seen = @ \cup {k}, !.entries = entries]
<1>1. got[g] \in GotRecords
  OBVIOUS
<1>2. got' = [got EXCEPT ![g] = read]
  BY <1>1 DEF Look, GotRecords
<1>3. entries \in Payloads
  <2>1. got[g].entries \in Payloads
    BY <1>1 DEF GotRecords
  <2>. DEFINE D == DOMAIN got[g].entries \cup ({k} \cap DOMAIN payload)
  <2>2. /\ DOMAIN payload \subseteq Keys /\ payload \in [DOMAIN payload -> Values]
        /\ DOMAIN got[g].entries \subseteq Keys
        /\ got[g].entries \in [DOMAIN got[g].entries -> Values]
    BY <2>1, PayloadIs
  <2>3. D \in SUBSET Keys /\ entries \in [D -> Values]
    BY <2>2
  <2>. HIDE DEF D, entries
  <2>. QED  BY <2>3 DEF Payloads
<1>4. read \in GotRecords
  BY <1>1, <1>3 DEF GotRecords
<1>5. got'[g] = read /\ \A h \in Goroutines \ {g}: got'[h] = got[h]
  BY <1>2
<1>6. got' \in [Goroutines -> GotRecords]
  BY <1>2, <1>4
<1>7. /\ read.seen = got[g].seen \cup {k} /\ read.entries = entries
      /\ read.after = got[g].after /\ read.before = got[g].before
  BY <1>1 DEF GotRecords
<1>8. ASSUME got[g].entries = Part(payload, got[g].seen)
      PROVE  entries = Part(payload, got[g].seen \cup {k})
  BY <1>8 DEF Part
<1>9. DOMAIN entries \subseteq got[g].seen \cup {k}
  OBVIOUS
<1>. HIDE DEF read, entries
<1>. QED  BY <1>5, <1>6, <1>7, <1>8, <1>9

LEMMA PartOfNothing == Nothing.entries = Part(payload, Nothing.seen)
  BY DEF Nothing, Part, EmptyMap

LEMMA TypeStep == TypeInv /\ Shape /\ Locks /\ [Next]_vars => TypeInv'
<1>. SUFFICES ASSUME TypeInv, Shape, Locks, [Next]_vars PROVE TypeInv'
  OBVIOUS
<1>. USE DEF At, Goto, Is
<1>1. MaxCalls \in Nat /\ Windows \subseteq Times \X Times
  BY ContainerAssumption
<1>2. \A g \in Goroutines: Exit(g) \in Stages /\ Nothing \in GotRecords
  BY NothingTyped DEF Exit, Stages
<1>3. \A g \in Goroutines, stage \in Stages: Goto(g, stage) => pc' \in [Goroutines -> Stages]
  BY DEF TypeInv
<1>4. \A g \in Goroutines: Forget(g) =>
        /\ call' \in [Goroutines -> Calls \cup {NoCall}]
        /\ got' \in [Goroutines -> GotRecords]
  BY <1>2 DEF Forget, TypeInv
<1>5. ASSUME NEW g \in Goroutines, NEW c \in Calls, Begin(g, c) PROVE TypeInv'
  <2>1. Entry(c.op) \in Stages
    BY DEF Entry, Stages
  <2>. QED  BY <1>5, <1>1, <1>3, <2>1 DEF Begin, TypeInv, state, lock
<1>6. ASSUME NEW g \in Goroutines, Lock(g) PROVE TypeInv'
  BY <1>6, <1>3 DEF Lock, TypeInv, Stages, state, lock
<1>7. ASSUME NEW g \in Goroutines, Locked(g) PROVE TypeInv'
  BY <1>7, <1>3 DEF Locked, TypeInv, Stages, state, lock
<1>8. ASSUME NEW g \in Goroutines, RLock(g) PROVE TypeInv'
  BY <1>8, <1>3 DEF RLock, TypeInv, Stages, state, lock
<1>9. ASSUME NEW g \in Goroutines, Unlock(g) PROVE TypeInv'
  BY <1>9, <1>4 DEF Unlock, TypeInv, Stages, state
<1>10. ASSUME NEW g \in Goroutines, RUnlock(g) PROVE TypeInv'
  BY <1>10, <1>3, <1>4 DEF RUnlock, TypeInv, Stages, state, lock
<1>11. ASSUME NEW g \in Goroutines, Return(g) PROVE TypeInv'
  BY <1>11, <1>3, <1>4 DEF Return, TypeInv, Stages, state, lock
<1>12. ASSUME NEW g \in Goroutines, RefreshAfter(g) PROVE TypeInv'
  <2>1. call[g].window \in Windows
    BY <1>12, CallingFields DEF RefreshAfter
  <2>2. call[g].window[1] \in Times /\ call[g].window[2] \in Times
    BY <2>1, <1>1
  <2>. QED  BY <1>12, <1>2, <1>3, <2>2 DEF RefreshAfter, TypeInv, Stages, lock
<1>13. ASSUME NEW g \in Goroutines, RefreshBefore(g) PROVE TypeInv'
  <2>1. call[g].window \in Windows
    BY <1>13, CallingFields DEF RefreshBefore
  <2>2. call[g].window[1] \in Times /\ call[g].window[2] \in Times
    BY <2>1, <1>1
  <2>. QED  BY <1>13, <1>2, <1>3, <2>2 DEF RefreshBefore, TypeInv, Stages, lock
<1>14. ASSUME NEW g \in Goroutines, Set(g) PROVE TypeInv'
  <2>. DEFINE D == DOMAIN payload \cup {call[g].key}
              map == [k \in D |-> IF k = call[g].key THEN call[g].value ELSE payload[k]]
  <2>1. D \in SUBSET Keys /\ map \in [D -> Values]
    BY <1>14, CallingFields, PayloadIs DEF TypeInv, Set
  <2>2. map \in Payloads
    <3>. HIDE DEF D, map
    <3>. QED  BY <2>1 DEF Payloads
  <2>3. MapWrite(g, map)
    BY <1>14 DEF Set
  <2>. HIDE DEF map
  <2>. QED  BY <2>2, <2>3, <1>2, <1>3 DEF MapWrite, TypeInv, state, lock
<1>15. ASSUME NEW g \in Goroutines, Del(g) PROVE TypeInv'
  <2>. DEFINE D == DOMAIN payload \ {call[g].key}
              map == [k \in D |-> payload[k]]
  <2>1. D \in SUBSET Keys /\ map \in [D -> Values]
    BY <1>15, CallingFields, PayloadIs DEF TypeInv, Del
  <2>2. map \in Payloads
    <3>. HIDE DEF D, map
    <3>. QED  BY <2>1 DEF Payloads
  <2>3. \/ UNCHANGED <<state, lock, call, got, disturbed, crashed, calls>> /\ Goto(g, Exit(g))
        \/ MapWrite(g, map)
    BY <1>15 DEF Del
  <2>. HIDE DEF map
  <2>. QED  BY <2>2, <2>3, <1>2, <1>3 DEF MapWrite, TypeInv, state, lock
<1>16. ASSUME NEW g \in Goroutines, Clean(g) PROVE TypeInv'
  <2>1. EmptyMap \in Payloads
    BY NothingTyped DEF Nothing, GotRecords
  <2>. QED  BY <1>16, <1>2, <1>3, <2>1 DEF Clean, TypeInv, lock
<1>17. ASSUME NEW g \in Goroutines, Get(g) PROVE TypeInv'
  <2>1. call[g].key \in Keys /\ got[g].seen = {}
    BY <1>17, CallingFields DEF Get, Shape, Nothing
  <2>2. got' \in [Goroutines -> GotRecords]
    BY <1>17, <2>1, LookStep DEF Get, TypeInv, Shape
  <2>. QED  BY <1>17, <1>2, <1>3, <2>2 DEF Get, TypeInv, state, lock
<1>18. ASSUME NEW g \in Goroutines, Data(g) PROVE TypeInv'
  <2>1. got' \in [Goroutines -> GotRecords]
    BY <1>18, LookStep DEF Data, Copy, TypeInv, Shape
  <2>. QED  BY <1>18, <1>2, <1>3, <2>1 DEF Data, TypeInv, state, lock
<1>19. ASSUME NEW g \in Goroutines, EncodeEntries(g) PROVE TypeInv'
  <2>1. got' \in [Goroutines -> GotRecords]
    BY <1>19, LookStep DEF EncodeEntries, Copy, TypeInv, Shape
  <2>. QED  BY <1>19, <1>3, <2>1 DEF EncodeEntries, TypeInv, Stages, state, lock
<1>20. ASSUME NEW g \in Goroutines, ValidateAfter(g) PROVE TypeInv'
  <2>1. got[g] \in GotRecords
    BY DEF TypeInv
  <2>2. got' \in [Goroutines -> GotRecords]
    BY <1>20, <2>1 DEF ValidateAfter, Seen, TypeInv, GotRecords
  <2>. QED  BY <1>20, <1>3, <2>2 DEF ValidateAfter, TypeInv, Stages, state, lock
<1>21. ASSUME NEW g \in Goroutines, ValidateBefore(g) PROVE TypeInv'
  <2>1. got[g] \in GotRecords
    BY DEF TypeInv
  <2>2. got' \in [Goroutines -> GotRecords]
    BY <1>21, <2>1 DEF ValidateBefore, Seen, TypeInv, GotRecords
  <2>. QED  BY <1>21, <1>3, <2>2 DEF ValidateBefore, TypeInv, Stages, state, lock
<1>22. ASSUME NEW g \in Goroutines, EncodeAfter(g) PROVE TypeInv'
  <2>1. got[g] \in GotRecords
    BY DEF TypeInv
  <2>2. got' \in [Goroutines -> GotRecords]
    BY <1>22, <2>1 DEF EncodeAfter, Seen, TypeInv, GotRecords
  <2>. QED  BY <1>22, <1>3, <2>2 DEF EncodeAfter, TypeInv, Stages, state, lock
<1>23. ASSUME NEW g \in Goroutines, EncodeBefore(g) PROVE TypeInv'
  <2>1. got[g] \in GotRecords
    BY DEF TypeInv
  <2>2. got' \in [Goroutines -> GotRecords]
    BY <1>23, <2>1 DEF EncodeBefore, Seen, TypeInv, GotRecords
  <2>. QED  BY <1>23, <1>3, <2>2 DEF EncodeBefore, TypeInv, Stages, state, lock
<1>24. CASE UNCHANGED vars
  BY <1>24 DEF vars, state, lock, TypeInv
<1>. QED  BY <1>5, <1>6, <1>7, <1>8, <1>9, <1>10, <1>11, <1>12, <1>13, <1>14, <1>15, <1>16, <1>17, <1>18, <1>19, <1>20, <1>21, <1>22, <1>23, <1>24 DEF Next, Continue

(* Where a goroutine goes when it is done.                                 *)
LEMMA ExitStage ==
    ASSUME TypeInv, Shape, Locks, NEW g \in Goroutines, pc[g] \in {"in", "before"},
           call[g].op \in Writers \cup Readers
    PROVE  /\ call[g].op \in Writers <=> Exit(g) = "unlock"
           /\ call[g].op \in Readers <=> Exit(g) = "runlock"
           /\ Exit(g) \in {"unlock", "runlock"}
  BY DEF Exit, Locks, Shape, Writers, Readers

LEMMA ShapeStep == TypeInv /\ Shape /\ Locks /\ [Next]_vars => Shape'
<1>. SUFFICES ASSUME TypeInv /\ Shape /\ Locks, [Next]_vars PROVE Shape'
  OBVIOUS
<1>. USE DEF TypeInv, Shape, Stages, At, Goto, Is, Writers, Readers
<1>0. DOMAIN Nothing.entries = {} /\ Nothing.seen = {}
  BY DEF Nothing, EmptyMap
<1>1. ASSUME NEW g \in Goroutines, NEW c \in Calls, Begin(g, c) PROVE Shape'
  <2>1. c.op \in Writers \cup Readers \cup {"validate", "marshal"}
    BY CallFields
  <2>2. /\ call'[g] = c /\ got' = got /\ got[g] = Nothing /\ pc'[g] = Entry(c.op)
        /\ \A h \in Goroutines \ {g}: pc'[h] = pc[h] /\ call'[h] = call[h]
    BY <1>1 DEF Begin
  <2>. QED  BY <2>1, <2>2, <1>0 DEF Entry
<1>2. ASSUME NEW g \in Goroutines, Lock(g) PROVE Shape'
  BY <1>2 DEF Lock, state, lock
<1>3. ASSUME NEW g \in Goroutines, Locked(g) PROVE Shape'
  BY <1>3 DEF Locked, state, lock
<1>4. ASSUME NEW g \in Goroutines, Unlock(g) PROVE Shape'
  BY <1>4, <1>0 DEF Unlock, Forget
<1>5. ASSUME NEW g \in Goroutines, RLock(g) PROVE Shape'
  BY <1>5 DEF RLock, state, lock
<1>6. ASSUME NEW g \in Goroutines, RUnlock(g) PROVE Shape'
  BY <1>6, <1>0 DEF RUnlock, Forget
<1>7. ASSUME NEW g \in Goroutines, RefreshAfter(g) PROVE Shape'
  BY <1>7 DEF RefreshAfter, state, lock
<1>8. ASSUME NEW g \in Goroutines, RefreshBefore(g) PROVE Shape'
  BY <1>8, ExitStage DEF RefreshBefore
<1>9. ASSUME NEW g \in Goroutines, Set(g) PROVE Shape'
  BY <1>9, ExitStage DEF Set, MapWrite, state
<1>10. ASSUME NEW g \in Goroutines, Del(g) PROVE Shape'
  BY <1>10, ExitStage DEF Del, MapWrite, state
<1>11. ASSUME NEW g \in Goroutines, Clean(g) PROVE Shape'
  BY <1>11, ExitStage DEF Clean
<1>12. ASSUME NEW g \in Goroutines, Get(g) PROVE Shape'
  <2>1. call[g].key \in Keys \ got[g].seen
    BY <1>12, <1>0, CallingFields DEF Get
  <2>2. /\ DOMAIN got'[g].entries \subseteq got'[g].seen
        /\ \A h \in Goroutines \ {g}: got'[h] = got[h]
    BY <1>12, <2>1, LookStep DEF Get
  <2>. QED  BY <1>12, <2>2, ExitStage DEF Get
<1>13. ASSUME NEW g \in Goroutines, Data(g) PROVE Shape'
  <2>1. /\ DOMAIN got'[g].entries \subseteq got'[g].seen
        /\ \A h \in Goroutines \ {g}: got'[h] = got[h]
    BY <1>13, LookStep DEF Data, Copy
  <2>. QED  BY <1>13, <2>1, ExitStage DEF Data
<1>14. ASSUME NEW g \in Goroutines, ValidateAfter(g) PROVE Shape'
  <2>1. got[g] \in GotRecords
    OBVIOUS
  <2>2. /\ got'[g].entries = got[g].entries /\ got'[g].seen = got[g].seen
        /\ \A h \in Goroutines \ {g}: got'[h] = got[h]
    BY <1>14, <2>1 DEF ValidateAfter, GotRecords
  <2>3. pc' = [pc EXCEPT ![g] = "done"] \/ pc' = [pc EXCEPT ![g] = "before"]
    BY <1>14 DEF ValidateAfter
  <2>. QED  BY <1>14, <2>2, <2>3 DEF ValidateAfter
<1>15. ASSUME NEW g \in Goroutines, ValidateBefore(g) PROVE Shape'
  BY <1>15 DEF ValidateBefore, state, lock, Seen, Refreshing, InTime
<1>16. ASSUME NEW g \in Goroutines, EncodeAfter(g) PROVE Shape'
  BY <1>16 DEF EncodeAfter, state, lock, Seen, Refreshing
<1>17. ASSUME NEW g \in Goroutines, EncodeBefore(g) PROVE Shape'
  BY <1>17 DEF EncodeBefore, state, lock, Seen, Refreshing
<1>18. ASSUME NEW g \in Goroutines, EncodeEntries(g) PROVE Shape'
  <2>1. /\ DOMAIN got'[g].entries \subseteq got'[g].seen
        /\ \A h \in Goroutines \ {g}: got'[h] = got[h]
    BY <1>18, LookStep DEF EncodeEntries, Copy
  <2>. QED  BY <1>18, <2>1 DEF EncodeEntries
<1>19. ASSUME NEW g \in Goroutines, Return(g) PROVE Shape'
  BY <1>19, <1>0 DEF Return, Forget
<1>20. CASE UNCHANGED vars
  BY <1>20 DEF vars, state, lock
<1>. QED  BY <1>1, <1>2, <1>3, <1>4, <1>5, <1>6, <1>7, <1>8, <1>9, <1>10, <1>11, <1>12, <1>13, <1>14, <1>15, <1>16, <1>17, <1>18, <1>19, <1>20 DEF Next, Continue

LEMMA LockStep == TypeInv /\ Shape /\ Locks /\ [Next]_vars => Locks'
<1>. SUFFICES ASSUME TypeInv /\ Shape /\ Locks, [Next]_vars PROVE Locks'
  OBVIOUS
<1>. USE ContainerAssumption DEF TypeInv, Shape, Locks, Stages, Inside, At, Goto, Is, Writers, Readers
<1>1. ASSUME NEW g \in Goroutines, NEW c \in Calls, Begin(g, c) PROVE Locks'
  BY <1>1 DEF Begin, Entry, state, lock
<1>2. ASSUME NEW g \in Goroutines, Lock(g) PROVE Locks'
  BY <1>2 DEF Lock, state, lock
<1>3. ASSUME NEW g \in Goroutines, Locked(g) PROVE Locks'
  BY <1>3 DEF Locked, state, lock
<1>4. ASSUME NEW g \in Goroutines, Unlock(g) PROVE Locks'
  BY <1>4 DEF Unlock, state, lock, Forget
<1>5. ASSUME NEW g \in Goroutines, RLock(g) PROVE Locks'
  BY <1>5 DEF RLock, state, lock
<1>6. ASSUME NEW g \in Goroutines, RUnlock(g) PROVE Locks'
  BY <1>6 DEF RUnlock, state, lock, Forget
<1>7. ASSUME NEW g \in Goroutines, RefreshAfter(g) PROVE Locks'
  BY <1>7 DEF RefreshAfter, state, lock
<1>8. ASSUME NEW g \in Goroutines, RefreshBefore(g) PROVE Locks'
  BY <1>8 DEF RefreshBefore, state, lock, Exit
<1>9. ASSUME NEW g \in Goroutines, Set(g) PROVE Locks'
  BY <1>9 DEF Set, state, lock, MapWrite, Exit
<1>10. ASSUME NEW g \in Goroutines, Del(g) PROVE Locks'
  BY <1>10 DEF Del, state, lock, MapWrite, Exit
<1>11. ASSUME NEW g \in Goroutines, Clean(g) PROVE Locks'
  BY <1>11 DEF Clean, state, lock, Exit
<1>12. ASSUME NEW g \in Goroutines, Get(g) PROVE Locks'
  BY <1>12 DEF Get, state, lock, Look, Exit
<1>13. ASSUME NEW g \in Goroutines, Data(g) PROVE Locks'
  BY <1>13 DEF Data, state, lock, Copy, Look, Exit
<1>14. ASSUME NEW g \in Goroutines, ValidateAfter(g) PROVE Locks'
  BY <1>14 DEF ValidateAfter, state, lock, Seen, Refreshing
<1>15. ASSUME NEW g \in Goroutines, ValidateBefore(g) PROVE Locks'
  BY <1>15 DEF ValidateBefore, state, lock, Seen, Refreshing, InTime
<1>16. ASSUME NEW g \in Goroutines, EncodeAfter(g) PROVE Locks'
  BY <1>16 DEF EncodeAfter, state, lock, Seen, Refreshing
<1>17. ASSUME NEW g \in Goroutines, EncodeBefore(g) PROVE Locks'
  BY <1>17 DEF EncodeBefore, state, lock, Seen, Refreshing
<1>18. ASSUME NEW g \in Goroutines, EncodeEntries(g) PROVE Locks'
  BY <1>18 DEF EncodeEntries, state, lock, Copy, Look
<1>19. ASSUME NEW g \in Goroutines, Return(g) PROVE Locks'
  BY <1>19 DEF Return, state, lock, Forget
<1>20. CASE UNCHANGED vars
  BY <1>20 DEF vars, state, lock
<1>. QED  BY <1>1, <1>2, <1>3, <1>4, <1>5, <1>6, <1>7, <1>8, <1>9, <1>10, <1>11, <1>12, <1>13, <1>14, <1>15, <1>16, <1>17, <1>18, <1>19, <1>20 DEF Next, Continue

LEMMA AtomicStep == TypeInv /\ Shape /\ Locks /\ Atomic /\ [Next]_vars => Atomic'
<1>. SUFFICES ASSUME TypeInv /\ Shape /\ Locks /\ Atomic, [Next]_vars PROVE Atomic'
  OBVIOUS
<1>. USE DEF TypeInv, Shape, Locks, Atomic, HalfDone, Stages, Inside, At, Goto, Is, Writers, Readers
<1>1. ASSUME NEW g \in Goroutines, NEW c \in Calls, Begin(g, c) PROVE Atomic'
  BY <1>1 DEF Begin, Entry, state, lock
<1>2. ASSUME NEW g \in Goroutines, Lock(g) PROVE Atomic'
  BY <1>2 DEF Lock, state, lock
<1>3. ASSUME NEW g \in Goroutines, Locked(g) PROVE Atomic'
  BY <1>3 DEF Locked, state, lock
<1>4. ASSUME NEW g \in Goroutines, Unlock(g) PROVE Atomic'
  <2>1. \A h \in readers': pc[h] = "parked" /\ h # g /\ h \in Goroutines
    BY <1>4 DEF Unlock
  <2>2. \A h \in readers': got'[h] = Nothing
    BY <1>4, <2>1 DEF Unlock, Forget
  <2>3. \A h \in readers': got'[h].entries = Part(payload', got'[h].seen)
    BY <1>4, <2>2, PartOfNothing DEF Unlock, state
  <2>. QED  BY <1>4, <2>3 DEF Unlock, Forget, state
<1>5. ASSUME NEW g \in Goroutines, RLock(g) PROVE Atomic'
  <2>1. got[g] = Nothing
    BY <1>5 DEF RLock
  <2>2. \A h \in readers': got'[h].entries = Part(payload', got'[h].seen)
    BY <1>5, <2>1, PartOfNothing DEF RLock, state
  <2>. QED  BY <1>5, <2>2 DEF RLock, state
<1>6. ASSUME NEW g \in Goroutines, RUnlock(g) PROVE Atomic'
  BY <1>6 DEF RUnlock, state, lock, Forget
<1>7. ASSUME NEW g \in Goroutines, RefreshAfter(g) PROVE Atomic'
  BY <1>7 DEF RefreshAfter, state, lock
<1>8. ASSUME NEW g \in Goroutines, RefreshBefore(g) PROVE Atomic'
  <2>1. call[g].window \in Windows
    BY <1>8, CallingFields DEF RefreshBefore
  <2>2. <<call[g].window[1], call[g].window[2]>> = call[g].window
    BY <2>1, ContainerAssumption
  <2>3. <<after', before'>> \in Windows
    BY <1>8, <2>1, <2>2 DEF RefreshBefore
  <2>. QED  BY <1>8, <2>3, ExitStage DEF RefreshBefore, lock
<1>9. ASSUME NEW g \in Goroutines, Set(g) PROVE Atomic'
  BY <1>9 DEF Set, state, lock, MapWrite, Exit
<1>10. ASSUME NEW g \in Goroutines, Del(g) PROVE Atomic'
  BY <1>10 DEF Del, state, lock, MapWrite, Exit
<1>11. ASSUME NEW g \in Goroutines, Clean(g) PROVE Atomic'
  BY <1>11 DEF Clean, state, lock, Exit
<1>12. ASSUME NEW g \in Goroutines, Get(g) PROVE Atomic'
  <2>1. call[g].key \in Keys \ got[g].seen
    BY <1>12, CallingFields DEF Get, Nothing
  <2>2. /\ got[g].entries = Part(payload, got[g].seen) =>
             got'[g].entries = Part(payload, got'[g].seen)
        /\ \A h \in Goroutines \ {g}: got'[h] = got[h]
    BY <1>12, <2>1, LookStep DEF Get
  <2>. QED  BY <1>12, <2>2, ExitStage DEF Get, state, lock
<1>13. ASSUME NEW g \in Goroutines, Data(g) PROVE Atomic'
  <2>1. /\ got[g].entries = Part(payload, got[g].seen) =>
             got'[g].entries = Part(payload, got'[g].seen)
        /\ \A h \in Goroutines \ {g}: got'[h] = got[h]
    BY <1>13, LookStep DEF Data, Copy
  <2>. QED  BY <1>13, <2>1, ExitStage DEF Data, state, lock
<1>14. ASSUME NEW g \in Goroutines, ValidateAfter(g) PROVE Atomic'
  BY <1>14 DEF ValidateAfter, state, lock, Seen, Refreshing
<1>15. ASSUME NEW g \in Goroutines, ValidateBefore(g) PROVE Atomic'
  BY <1>15 DEF ValidateBefore, state, lock, Seen, Refreshing, InTime
<1>16. ASSUME NEW g \in Goroutines, EncodeAfter(g) PROVE Atomic'
  BY <1>16 DEF EncodeAfter, state, lock, Seen, Refreshing
<1>17. ASSUME NEW g \in Goroutines, EncodeBefore(g) PROVE Atomic'
  BY <1>17 DEF EncodeBefore, state, lock, Seen, Refreshing
<1>18. ASSUME NEW g \in Goroutines, EncodeEntries(g) PROVE Atomic'
  BY <1>18 DEF EncodeEntries, state, lock, Copy, Look
<1>19. ASSUME NEW g \in Goroutines, Return(g) PROVE Atomic'
  BY <1>19 DEF Return, state, lock, Forget
<1>20. CASE UNCHANGED vars
  BY <1>20 DEF vars, state, lock
<1>. QED  BY <1>1, <1>2, <1>3, <1>4, <1>5, <1>6, <1>7, <1>8, <1>9, <1>10, <1>11, <1>12, <1>13, <1>14, <1>15, <1>16, <1>17, <1>18, <1>19, <1>20 DEF Next, Continue

(* A goroutine that has read without the lock, undisturbed so far.         *)
Undisturbed(g) ==
    /\ Inside = {}
    /\ Is(g, "validate") =>
        /\ pc[g] = "before" => version = Version /\ after < call[g].now
        /\ pc[g] = "done" =>
             (got[g].verdict = "valid" <=>
                 /\ version = Version
                 /\ after < call[g].now /\ call[g].now < before)
    /\ Is(g, "marshal") =>
        /\ pc[g] # "after" => got[g].after = after
        /\ pc[g] \in {"entries", "done"} =>
             got[g].before = before /\ got[g].entries = Part(payload, got[g].seen)
        /\ pc[g] = "before" => got[g].entries = Part(payload, got[g].seen)
        /\ pc[g] = "done" => got[g].entries = payload

Quiet ==
    /\ \A g \in Unlocked: ~disturbed[g] => Undisturbed(g)
    /\ crashed => \E g \in Unlocked: disturbed[g]

LEMMA QuietStep == TypeInv /\ Shape /\ Locks /\ Quiet /\ [Next]_vars => Quiet'
<1>. SUFFICES ASSUME TypeInv /\ Shape /\ Locks /\ Quiet, [Next]_vars PROVE Quiet'
  OBVIOUS
<1>. USE DEF TypeInv, Shape, Locks, Quiet, Undisturbed, Unlocked, Stages, Inside, At, Goto, Is, Writers, Readers
<1>1. ASSUME NEW g \in Goroutines, NEW c \in Calls, Begin(g, c) PROVE Quiet'
  <2>1. c.op \in Writers \cup Readers \cup {"validate", "marshal"}
    BY CallFields
  <2>2. pc'[g] \in {"lock", "rlock", "after"}
    BY <1>1, <2>1 DEF Begin, Entry
  <2>3. Inside' = Inside
    BY <1>1, <2>2 DEF Begin
  <2>4. crashed' = FALSE /\ disturbed'[g] = (Inside # {})
    BY <1>1 DEF Begin
  <2>5. ASSUME NEW h \in Unlocked', ~disturbed'[h] PROVE Undisturbed(h)'
    <3>1. CASE h = g
      BY <1>1, <2>2, <2>3, <2>4, <2>5, <3>1 DEF Begin
    <3>2. CASE h # g
      <4>1. h \in Unlocked /\ ~disturbed[h] /\ Undisturbed(h)
        BY <1>1, <2>5, <3>2 DEF Begin
      <4>2. pc'[h] = pc[h] /\ call'[h] = call[h] /\ got'[h] = got[h]
        BY <1>1, <2>5, <3>2 DEF Begin
      <4>. QED  BY <1>1, <2>3, <4>1, <4>2 DEF Begin, state
    <3>. QED  BY <3>1, <3>2
  <2>. HIDE DEF Undisturbed
  <2>. QED  BY <2>4, <2>5
<1>2. ASSUME NEW g \in Goroutines, Lock(g) PROVE Quiet'
  BY <1>2 DEF Lock, state, lock
<1>3. ASSUME NEW g \in Goroutines, Locked(g) PROVE Quiet'
  BY <1>3 DEF Locked, state, lock
<1>4. ASSUME NEW g \in Goroutines, Unlock(g) PROVE Quiet'
  BY <1>4 DEF Unlock, state, lock, Forget
<1>5. ASSUME NEW g \in Goroutines, RLock(g) PROVE Quiet'
  BY <1>5 DEF RLock, state, lock
<1>6. ASSUME NEW g \in Goroutines, RUnlock(g) PROVE Quiet'
  BY <1>6 DEF RUnlock, state, lock, Forget
<1>7. ASSUME NEW g \in Goroutines, RefreshAfter(g) PROVE Quiet'
  BY <1>7 DEF RefreshAfter, state, lock
<1>8. ASSUME NEW g \in Goroutines, RefreshBefore(g) PROVE Quiet'
  BY <1>8 DEF RefreshBefore, state, lock, Exit
<1>9. ASSUME NEW g \in Goroutines, Set(g) PROVE Quiet'
  <2>1. g \in Inside /\ Exit(g) = "unlock"
    BY <1>9, ExitStage DEF Set
  <2>2. \A h \in Unlocked: disturbed[h]
    BY <2>1
  <2>3. Iterating \subseteq Unlocked
    BY DEF Iterating
  <2>4. Unlocked' = Unlocked /\ disturbed' = disturbed
    BY <1>9, <2>1 DEF Set, MapWrite, state
  <2>5. crashed' => crashed \/ Iterating # {}
    BY <1>9 DEF Set, MapWrite
  <2>. HIDE DEF Unlocked, Inside
  <2>. QED  BY <2>2, <2>3, <2>4, <2>5 DEF Quiet
<1>10. ASSUME NEW g \in Goroutines, Del(g) PROVE Quiet'
  <2>1. g \in Inside /\ Exit(g) = "unlock"
    BY <1>10, ExitStage DEF Del
  <2>2. \A h \in Unlocked: disturbed[h]
    BY <2>1
  <2>3. Iterating \subseteq Unlocked
    BY DEF Iterating
  <2>4. Unlocked' = Unlocked /\ disturbed' = disturbed
    BY <1>10, <2>1 DEF Del, MapWrite, state
  <2>5. crashed' => crashed \/ Iterating # {}
    BY <1>10 DEF Del, MapWrite
  <2>. HIDE DEF Unlocked, Inside
  <2>. QED  BY <2>2, <2>3, <2>4, <2>5 DEF Quiet
<1>11. ASSUME NEW g \in Goroutines, Clean(g) PROVE Quiet'
  BY <1>11 DEF Clean, state, lock, Exit
<1>12. ASSUME NEW g \in Goroutines, Get(g) PROVE Quiet'
  BY <1>12 DEF Get, state, lock, Look, Exit
<1>13. ASSUME NEW g \in Goroutines, Data(g) PROVE Quiet'
  <2>1. \A h \in Goroutines \ {g}: got'[h] = got[h] /\ pc'[h] = pc[h]
    BY <1>13, LookStep DEF Data, Copy
  <2>2. pc'[g] \in {"in", "runlock"}
    BY <1>13, ExitStage DEF Data
  <2>. QED  BY <1>13, <2>1, <2>2 DEF Data, state
<1>14. ASSUME NEW g \in Goroutines, ValidateAfter(g) PROVE Quiet'
  <2>1. Inside = {} => Seen(after, "in") = {after}
    BY DEF Seen, Refreshing
  <2>2. got[g] = Nothing /\ Nothing.verdict = "none"
    BY <1>14 DEF ValidateAfter, Nothing
  <2>3. \A h \in Goroutines \ {g}: got'[h] = got[h] /\ pc'[h] = pc[h]
    BY <1>14 DEF ValidateAfter
  <2>4. pc'[g] \in {"before", "done"} /\ Inside' = Inside
    BY <1>14 DEF ValidateAfter
  <2>5. got'[g].verdict # "valid" /\ (got'[g].verdict = "none" \/ pc'[g] = "done")
    BY <1>14, <2>2 DEF ValidateAfter, GotRecords
  <2>. QED  BY <1>14, <2>1, <2>3, <2>4, <2>5 DEF ValidateAfter, state
<1>15. ASSUME NEW g \in Goroutines, ValidateBefore(g) PROVE Quiet'
  BY <1>15 DEF ValidateBefore, state, lock, Seen, Refreshing, InTime
<1>16. ASSUME NEW g \in Goroutines, EncodeAfter(g) PROVE Quiet'
  <2>1. Inside = {} => Seen(after, "in") = {after}
    BY DEF Seen, Refreshing
  <2>2. got[g] \in GotRecords /\ got[g] = Nothing
    BY <1>16 DEF EncodeAfter
  <2>3. /\ Inside = {} => got'[g].after = after
        /\ got'[g].entries = Nothing.entries /\ got'[g].seen = Nothing.seen
    BY <1>16, <2>1, <2>2 DEF EncodeAfter, GotRecords
  <2>4. got'[g].entries = Part(payload, got'[g].seen)
    BY <2>3, PartOfNothing
  <2>5. \A h \in Goroutines \ {g}: got'[h] = got[h] /\ pc'[h] = pc[h]
    BY <1>16 DEF EncodeAfter
  <2>6. pc'[g] = "before" /\ Inside' = Inside
    BY <1>16 DEF EncodeAfter
  <2>. QED  BY <1>16, <2>3, <2>4, <2>5, <2>6 DEF EncodeAfter, state
<1>17. ASSUME NEW g \in Goroutines, EncodeBefore(g) PROVE Quiet'
  BY <1>17 DEF EncodeBefore, state, lock, Seen, Refreshing
<1>18. ASSUME NEW g \in Goroutines, EncodeEntries(g) PROVE Quiet'
  <2>1. \A h \in Goroutines \ {g}: got'[h] = got[h] /\ pc'[h] = pc[h]
    BY <1>18, LookStep DEF EncodeEntries, Copy
  <2>2. /\ got'[g].after = got[g].after /\ got'[g].before = got[g].before
        /\ got[g].entries = Part(payload, got[g].seen) =>
             got'[g].entries = Part(payload, got'[g].seen)
    BY <1>18, LookStep DEF EncodeEntries, Copy
  <2>3. Part(payload, Keys) = payload
    BY PayloadIs DEF Part
  <2>4. /\ pc'[g] \in {"entries", "done"} /\ Inside' = Inside
        /\ pc'[g] = "done" => got' = got /\ got[g].seen = Keys
    BY <1>18 DEF EncodeEntries
  <2>. QED  BY <1>18, <2>1, <2>2, <2>3, <2>4 DEF EncodeEntries, state
<1>19. ASSUME NEW g \in Goroutines, Return(g) PROVE Quiet'
  BY <1>19 DEF Return, state, lock, Forget
<1>20. CASE UNCHANGED vars
  BY <1>20 DEF vars, state, lock
<1>. QED  BY <1>1, <1>2, <1>3, <1>4, <1>5, <1>6, <1>7, <1>8, <1>9, <1>10, <1>11, <1>12, <1>13, <1>14, <1>15, <1>16, <1>17, <1>18, <1>19, <1>20 DEF Next, Continue

LEMMA InitTypes == Init => TypeInv /\ Shape /\ Locks /\ Atomic /\ Quiet
<1>. SUFFICES ASSUME Init PROVE TypeInv /\ Shape /\ Locks /\ Atomic /\ Quiet
  OBVIOUS
<1>1. /\ version \in Int /\ payload \in Payloads /\ <<after, before>> \in Windows
      /\ after \in Times /\ before \in Times
  <2>1. PICK c \in Givens: /\ version = c.version /\ payload = c.payload
                           /\ after = c.window[1] /\ before = c.window[2]
    BY DEF Init
  <2>2. c.version \in Int /\ c.payload \in Payloads /\ c.window \in Windows
    BY ContainerAssumption
  <2>3. c.window[1] \in Times /\ c.window[2] \in Times /\ <<c.window[1], c.window[2]>> = c.window
    BY <2>2, ContainerAssumption
  <2>. QED  BY <2>1, <2>2, <2>3
<1>2. writer = Nobody /\ readers = {} /\ crashed = FALSE /\ calls = 0
  BY DEF Init
<1>3. \A g \in Goroutines: pc[g] = "idle" /\ got[g] = Nothing
  BY DEF Init
<1>4. TypeInv
  <2>1. /\ pc \in [Goroutines -> Stages] /\ disturbed \in [Goroutines -> BOOLEAN]
        /\ call \in [Goroutines -> Calls \cup {NoCall}]
        /\ got \in [Goroutines -> GotRecords]
    BY NothingTyped DEF Init, Stages
  <2>2. 0 \in 0..MaxCalls
    BY ContainerAssumption
  <2>. QED  BY <1>1, <1>2, <2>1, <2>2 DEF TypeInv
<1>5. Shape
  BY <1>3 DEF Init, Shape, Nothing, EmptyMap
<1>6. Locks
  BY <1>2, <1>3 DEF Locks, Inside
<1>7. Atomic
  BY <1>1, <1>2, <1>3 DEF Atomic, HalfDone
<1>8. Quiet
  BY <1>2, <1>3 DEF Quiet, Unlocked
<1>. QED  BY <1>4, <1>5, <1>6, <1>7, <1>8

(* The inductive invariant.                                                *)
ContainerInv == TypeInv /\ Shape /\ Locks /\ Atomic /\ Quiet

LEMMA ContainerInvariant == Spec => []ContainerInv
<1>1. Init => ContainerInv
  BY InitTypes DEF ContainerInv
<1>2. ContainerInv /\ [Next]_vars => ContainerInv'
  BY TypeStep, ShapeStep, LockStep, AtomicStep, QuietStep DEF ContainerInv
<1>. QED  BY <1>1, <1>2, PTL DEF Spec

(* The variables have their types, and payloads never hold a key or value  *)
(* that nobody has set.                                                    *)
THEOREM TypeCorrect == Spec => []TypeOK
<1>1. ContainerInv => TypeOK
  <2>. SUFFICES ASSUME ContainerInv PROVE TypeOK
    OBVIOUS
  <2>1. \A g \in Goroutines:
          /\ {got[g].after, got[g].before} \subseteq Times \cup {0}
          /\ got[g].entries \in Payloads /\ got[g].seen \subseteq Keys
          /\ got[g].verdict \in {"none", "valid", "invalid", "incompatible"}
    BY DEF ContainerInv, TypeInv, GotRecords
  <2>. QED  BY <2>1 DEF ContainerInv, TypeInv, TypeOK, Stages
<1>. QED  BY ContainerInvariant, <1>1, PTL

LEMMA InvAtomic == ContainerInv => MethodsAreAtomic
<1>. SUFFICES ASSUME ContainerInv PROVE MethodsAreAtomic
  OBVIOUS
<1>1. ASSUME Inside = {} PROVE <<after, before>> \in Windows
  <2>1. \A g \in Goroutines: ~HalfDone(g)
    BY <1>1 DEF HalfDone, Inside, Is, Writers
  <2>. QED  BY <2>1 DEF ContainerInv, Atomic
<1>. QED  BY <1>1 DEF ContainerInv, Atomic, MethodsAreAtomic

(* However many goroutines call the methods of a container, each call is   *)
(* one atomic step for the others: nobody inside sees half a Refresh, and  *)
(* what Data copies is the payload of one moment.                          *)
THEOREM MethodsAtomic == Spec => []MethodsAreAtomic
  BY ContainerInvariant, InvAtomic, PTL

LEMMA InvQuiet == ContainerInv => UnlockedNeedQuiet
<1>. SUFFICES ASSUME ContainerInv PROVE UnlockedNeedQuiet
  OBVIOUS
<1>1. ASSUME NEW g \in Unlocked, pc[g] = "done", ~disturbed[g]
      PROVE  /\ Is(g, "validate") =>
                  (got[g].verdict = "valid" <=>
                      /\ version = Version
                      /\ after < call[g].now /\ call[g].now < before)
             /\ Is(g, "marshal") =>
                  <<got[g].after, got[g].before, got[g].entries>>
                      = <<after, before, payload>>
  BY <1>1 DEF ContainerInv, Quiet, Undisturbed
<1>. QED  BY <1>1 DEF ContainerInv, Quiet, UnlockedNeedQuiet

(* Without the lock a result is right only if no writer was inside in the  *)
(* meantime, and nothing else can make the runtime stop the process.       *)
THEOREM QuietNeeded == Spec => []UnlockedNeedQuiet
  BY ContainerInvariant, InvQuiet, PTL

-----------------------------------------------------------------------------
(* Refinement: the steps of Container are steps of AtomicContainer, or     *)
(* none that its state shows.                                              *)

LEMMA RefineInit == Init => A!Init
<1>. SUFFICES ASSUME Init PROVE A!Init
  OBVIOUS
<1>. USE DEF Init
<1>1. \A g \in Goroutines: pc[g] = "idle" /\ ~HalfDone(g)
  BY DEF HalfDone
<1>2. window \in Windows /\ payload \in Payloads
  <2>1. PICK c \in Givens: /\ payload = c.payload
                           /\ after = c.window[1] /\ before = c.window[2]
    OBVIOUS
  <2>2. c.window \in Windows /\ c.window \in Times \X Times /\ c.payload \in Payloads
    BY ContainerAssumption
  <2>3. window = <<after, before>>
    BY <1>1 DEF window
  <2>4. <<c.window[1], c.window[2]>> = c.window
    BY <2>2
  <2>. QED  BY <2>1, <2>2, <2>3, <2>4
<1>3. answer = [g \in Goroutines |-> A!NotYet]
  BY <1>1 DEF answer, A!NotYet, EmptyMap, A!EmptyMap
<1>. QED  BY <1>2, <1>3 DEF A!Init, NoCall, A!NoCall

(* What is seen of a goroutine that does nothing itself.                   *)
LEMMA OthersKept ==
    ASSUME TypeInv, NEW g \in Goroutines, call' \in [Goroutines -> Calls \cup {NoCall}],
           \A h \in Goroutines \ {g}:
             /\ call'[h] = call[h] /\ got'[h] = got[h]
             /\ pc'[h] = pc[h] \/ (pc[h] = "parked" /\ pc'[h] = "in")
    PROVE  /\ answer' = [answer EXCEPT ![g] = answer'[g]]
           /\ \A h \in Goroutines \ {g}: HalfDone(h)' <=> HalfDone(h)
<1>1. \A h \in Goroutines \ {g}: HalfDone(h)' <=> HalfDone(h)
  BY DEF HalfDone, Is
<1>2. \A h \in Goroutines \ {g}: answer'[h] = answer[h]
  BY <1>1 DEF answer
<1>3. /\ DOMAIN answer = Goroutines /\ answer' = [h \in Goroutines |-> answer'[h]]
      /\ answer = [h \in Goroutines |-> answer[h]]
  BY DEF answer
<1>. HIDE DEF answer
<1>. QED  BY <1>1, <1>2, <1>3

(* The window that others see is that of the Refresh which is half done,   *)
(* of which there is one at most.                                          *)
LEMMA WindowIs ==
    ASSUME Locks
    PROVE  /\ \A g \in Goroutines: HalfDone(g) => window = call[g].window
           /\ (\A g \in Goroutines: ~HalfDone(g)) => window = <<after, before>>
<1>1. \A g \in Goroutines: HalfDone(g) => writer = g
  BY DEF Locks, HalfDone, Inside, Is, Writers
<1>. QED  BY <1>1 DEF window

LEMMA RefineStep == ContainerInv /\ ContainerInv' /\ [Next]_vars => [A!Next]_(A!avars)
<1>. SUFFICES ASSUME ContainerInv, ContainerInv', [Next]_vars PROVE [A!Next]_(A!avars)
  OBVIOUS
<1>1. /\ \A g \in Goroutines: HalfDone(g) => window = call[g].window
      /\ (\A g \in Goroutines: ~HalfDone(g)) => window = <<after, before>>
  BY WindowIs DEF ContainerInv
<1>2. /\ \A g \in Goroutines: HalfDone(g)' => window' = call'[g].window
      /\ (\A g \in Goroutines: ~HalfDone(g)') => window' = <<after', before'>>
  <2>1. \A g \in Goroutines: HalfDone(g)' => writer' = g
    BY DEF ContainerInv, Locks, HalfDone, Inside, Is, Writers
  <2>. QED  BY <2>1 DEF window
<1>3. /\ TypeInv /\ Shape /\ Locks /\ Atomic /\ TypeInv'
      /\ \A g \in Goroutines: ~HalfDone(g) \/ g \in Inside
  BY DEF ContainerInv, HalfDone, Inside, Is, Writers
<1>. DEFINE Answered(g) == pc[g] \in {"unlock", "runlock"} \/ HalfDone(g)
            Told(g) == IF pc[g] = "runlock" THEN got[g].entries ELSE EmptyMap
<1>4. \A g \in Goroutines: /\ answer[g] = [done |-> Answered(g), entries |-> Told(g)]
                           /\ answer'[g] = [done |-> Answered(g)', entries |-> Told(g)']
                           /\ answer[g].done = Answered(g)
                           /\ Answered(g) \in BOOLEAN /\ Answered(g)' \in BOOLEAN
  BY DEF answer, HalfDone, Is
<1>5. ASSUME NEW g \in Goroutines, \A h \in Goroutines \ {g}:
               /\ call'[h] = call[h] /\ got'[h] = got[h]
               /\ pc'[h] = pc[h] \/ (pc[h] = "parked" /\ pc'[h] = "in")
      PROVE  /\ answer' = [answer EXCEPT ![g] = answer'[g]]
             /\ \A h \in Goroutines \ {g}: HalfDone(h)' <=> HalfDone(h)
  BY <1>3, <1>5, OthersKept DEF TypeInv
<1>. HIDE DEF Answered, Told
(* The window is what it was, if nobody begins or ends a Refresh.          *)
<1>6. ASSUME UNCHANGED <<after, before>>, \A h \in Goroutines: HalfDone(h)' <=> HalfDone(h),
             \A h \in Goroutines: HalfDone(h) => call'[h] = call[h]
      PROVE  window' = window
  BY <1>1, <1>2, <1>6
(* A step that shows nothing.                                              *)
<1>7. ASSUME NEW g \in Goroutines, UNCHANGED <<payload, after, before, call>>,
             HalfDone(g)' <=> HalfDone(g), Answered(g)' <=> Answered(g), Told(g)' = Told(g),
             \A h \in Goroutines \ {g}: got'[h] = got[h] /\ pc'[h] = pc[h]
      PROVE  UNCHANGED A!avars
  <2>1. /\ answer' = [answer EXCEPT ![g] = answer'[g]]
        /\ \A h \in Goroutines: HalfDone(h)' <=> HalfDone(h)
    BY <1>5, <1>7
  <2>2. answer'[g] = answer[g]
    BY <1>4, <1>7
  <2>3. answer' = answer
    BY <2>1, <2>2 DEF answer
  <2>4. window' = window
    BY <1>6, <1>7, <2>1
  <2>. QED  BY <1>7, <2>3, <2>4 DEF A!avars
(* The moment of a method.                                                 *)
<1>8. ASSUME NEW g \in Goroutines, ~Answered(g), Answered(g)', call' = call,
             \A h \in Goroutines \ {g}: got'[h] = got[h] /\ pc'[h] = pc[h],
             NEW ops, call[g].op \in ops, NEW entries, Told(g)' = entries
      PROVE  A!Moment(g, ops, entries)
  <2>1. answer' = [answer EXCEPT ![g] = answer'[g]]
    BY <1>5, <1>8
  <2>2. ~answer[g].done /\ answer'[g] = [done |-> TRUE, entries |-> entries]
    <3>1. Answered(g)' = TRUE
      BY <1>8 DEF Answered
    <3>. QED  BY <1>4, <1>8, <3>1
  <2>. QED  BY <1>8, <2>1, <2>2 DEF A!Moment
(* A call returns.                                                         *)
<1>9. ASSUME NEW g \in Goroutines, Answered(g) \/ call[g].op \in {"validate", "marshal"},
             pc'[g] = "idle", Forget(g), UNCHANGED state, ~HalfDone(g),
             \A h \in Goroutines \ {g}: pc'[h] = pc[h] \/ (pc[h] = "parked" /\ pc'[h] = "in")
      PROVE  A!Return(g)
  <2>1. /\ call' = [call EXCEPT ![g] = NoCall] /\ got' = [got EXCEPT ![g] = Nothing]
        /\ \A h \in Goroutines \ {g}: call'[h] = call[h] /\ got'[h] = got[h]
    BY <1>3, <1>9 DEF Forget, TypeInv
  <2>2. /\ answer' = [answer EXCEPT ![g] = answer'[g]]
        /\ \A h \in Goroutines \ {g}: HalfDone(h)' <=> HalfDone(h)
    BY <1>5, <1>9, <2>1
  <2>3. ~HalfDone(g)' /\ answer'[g] = A!NotYet
    <3>1. ~HalfDone(g)' /\ Answered(g)' = FALSE /\ Told(g)' = A!EmptyMap
      BY <1>9 DEF HalfDone, Answered, Told, EmptyMap, A!EmptyMap
    <3>. QED  BY <1>4, <3>1 DEF A!NotYet
  <2>4. window' = window
    BY <1>6, <1>9, <2>1, <2>2, <2>3 DEF state
  <2>5. answer[g].done \/ call[g].op \in {"validate", "marshal"}
    BY <1>4, <1>9
  <2>. QED  BY <1>9, <2>1, <2>2, <2>3, <2>4, <2>5 DEF A!Return, NoCall, A!NoCall, state
<1>. USE DEF At, Goto, Is
<1>10. \A g \in Goroutines: call[g].op \in Writers /\ pc[g] = "in" =>
         Exit(g) = "unlock" /\ \A h \in Goroutines: ~HalfDone(h)
  <2>. SUFFICES ASSUME NEW g \in Goroutines, call[g].op \in Writers, pc[g] = "in"
                PROVE  Exit(g) = "unlock" /\ \A h \in Goroutines: ~HalfDone(h)
    OBVIOUS
  <2>1. g \in Inside
    BY DEF Inside
  <2>2. \A h \in Inside: h = g
    BY <1>3, <2>1 DEF Locks, Inside
  <2>. QED  BY <1>3, <2>1, <2>2, ExitStage DEF HalfDone, Locks
<1>11. ASSUME NEW g \in Goroutines, NEW c \in Calls, Begin(g, c) PROVE A!Ask(g, c)
  <2>1. /\ pc[g] = "idle" /\ call[g] = NoCall /\ call' = [call EXCEPT ![g] = c]
        /\ pc'[g] \in {"lock", "rlock", "after"} /\ got' = got /\ UNCHANGED state
        /\ \A h \in Goroutines \ {g}: pc'[h] = pc[h] /\ call'[h] = call[h]
    BY <1>3, <1>11 DEF Begin, Entry, Shape, TypeInv
  <2>2. /\ answer' = [answer EXCEPT ![g] = answer'[g]]
        /\ \A h \in Goroutines \ {g}: HalfDone(h)' <=> HalfDone(h)
    BY <1>5, <2>1
  <2>3. ~HalfDone(g) /\ ~HalfDone(g)'
    BY <2>1 DEF HalfDone
  <2>4. answer'[g] = answer[g]
    <3>1. (Answered(g)' <=> Answered(g)) /\ Told(g)' = Told(g)
      BY <2>1, <2>3 DEF Answered, Told
    <3>. QED  BY <1>4, <3>1
  <2>5. answer' = answer
    BY <2>2, <2>4 DEF answer
  <2>6. window' = window
    BY <1>6, <2>1, <2>2, <2>3 DEF state
  <2>. QED  BY <2>1, <2>5, <2>6 DEF A!Ask, NoCall, A!NoCall, state
<1>12. ASSUME NEW g \in Goroutines, Lock(g) \/ Locked(g) \/ RLock(g) PROVE UNCHANGED A!avars
  <2>1. /\ pc[g] \in {"lock", "drain", "rlock"} /\ pc'[g] \in {"drain", "in", "parked"}
        /\ UNCHANGED <<state, call, got>> /\ \A h \in Goroutines \ {g}: pc'[h] = pc[h]
    BY <1>3, <1>12 DEF Lock, Locked, RLock, TypeInv
  <2>. QED  BY <1>7, <2>1 DEF HalfDone, Answered, Told, state
<1>13. ASSUME NEW g \in Goroutines, Unlock(g) PROVE A!Return(g)
  BY <1>3, <1>9, <1>13 DEF Unlock, Answered, HalfDone, TypeInv
<1>14. ASSUME NEW g \in Goroutines, RUnlock(g) PROVE A!Return(g)
  BY <1>3, <1>9, <1>14 DEF RUnlock, Answered, HalfDone, TypeInv
<1>15. ASSUME NEW g \in Goroutines, Return(g) PROVE A!Return(g)
  BY <1>3, <1>9, <1>15 DEF Return, Shape, HalfDone, TypeInv
<1>16. ASSUME NEW g \in Goroutines, RefreshAfter(g) PROVE A!Refresh(g)
  <2>1. /\ pc[g] = "in" /\ call[g].op = "refresh" /\ pc'[g] = "before" /\ got' = got
        /\ call' = call /\ payload' = payload /\ \A h \in Goroutines \ {g}: pc'[h] = pc[h]
    BY <1>3, <1>16 DEF RefreshAfter, TypeInv
  <2>2. HalfDone(g)' /\ ~Answered(g) /\ Answered(g)' /\ Told(g)' = A!EmptyMap
    BY <2>1 DEF HalfDone, Answered, Told, EmptyMap, A!EmptyMap
  <2>3. A!Moment(g, {"refresh"}, A!EmptyMap)
    BY <1>8, <2>1, <2>2
  <2>4. window' = call[g].window
    BY <1>2, <2>1, <2>2
  <2>. QED  BY <2>1, <2>3, <2>4 DEF A!Refresh
<1>17. ASSUME NEW g \in Goroutines, RefreshBefore(g) PROVE UNCHANGED A!avars
  <2>1. /\ pc[g] = "before" /\ call[g].op = "refresh" /\ UNCHANGED <<call, got, after, payload>>
        /\ before' = call[g].window[2] /\ \A h \in Goroutines \ {g}: pc'[h] = pc[h]
        /\ pc'[g] = "unlock"
    BY <1>3, <1>17, ExitStage DEF RefreshBefore, TypeInv, Writers
  <2>2. HalfDone(g) /\ ~HalfDone(g)' /\ g \in Inside
    BY <2>1 DEF HalfDone, Inside, Writers
  <2>3. /\ answer' = [answer EXCEPT ![g] = answer'[g]]
        /\ \A h \in Goroutines \ {g}: HalfDone(h)' <=> HalfDone(h)
    BY <1>5, <2>1
  <2>4. \A h \in Goroutines: ~HalfDone(h)'
    BY <1>3, <2>2, <2>3 DEF Locks
  <2>5. window' = window
    <3>1. call[g].window \in Windows /\ call[g].window \in Times \X Times
      BY <2>1, <1>3, CallingFields, ContainerAssumption
    <3>2. <<call[g].window[1], call[g].window[2]>> = call[g].window
      BY <3>1
    <3>3. after = call[g].window[1]
      BY <1>3, <2>2 DEF Atomic
    <3>. QED  BY <1>1, <1>2, <2>1, <2>2, <2>4, <3>2, <3>3
  <2>6. answer'[g] = answer[g]
    <3>1. Answered(g)' = TRUE /\ Answered(g) = TRUE /\ Told(g)' = Told(g)
      BY <2>1, <2>2 DEF Answered, Told
    <3>. QED  BY <1>4, <3>1
  <2>7. answer' = answer
    BY <2>3, <2>6 DEF answer
  <2>. QED  BY <2>1, <2>5, <2>7 DEF A!avars
(* What a writer of the map does, if the runtime does not stop it.         *)
<1>18. ASSUME NEW g \in Goroutines, NEW map, NEW op \in Writers \ {"refresh"}, pc[g] = "in",
              Is(g, op), payload' = map, Goto(g, Exit(g)), UNCHANGED <<after, before, call, got>>
       PROVE  A!Moment(g, {op}, A!EmptyMap) /\ window' = window
  <2>1. pc'[g] = "unlock" /\ \A h \in Goroutines \ {g}: pc'[h] = pc[h]
    BY <1>3, <1>10, <1>18 DEF TypeInv
  <2>2. ~Answered(g) /\ Answered(g)' /\ Told(g)' = A!EmptyMap
    BY <1>18, <2>1 DEF HalfDone, Answered, Told, EmptyMap, A!EmptyMap
  <2>3. \A h \in Goroutines: HalfDone(h)' <=> HalfDone(h)
    BY <1>18, <2>1 DEF HalfDone
  <2>. QED  BY <1>6, <1>8, <1>18, <2>1, <2>2, <2>3
<1>19. ASSUME NEW g \in Goroutines, NEW map, MapWrite(g, map)
       PROVE  \/ payload' = map /\ Goto(g, Exit(g)) /\ UNCHANGED <<after, before, call, got>>
              \/ UNCHANGED A!avars
  <2>1. CASE UNCHANGED <<payload, pc, after, before, call, got>>
    BY <1>7, <2>1 DEF HalfDone, Answered, Told
  <2>. QED  BY <1>19, <2>1 DEF MapWrite, state
<1>20. ASSUME NEW g \in Goroutines, Set(g) PROVE A!Set(g) \/ UNCHANGED A!avars
  <2>. DEFINE map == [k \in DOMAIN payload \cup {call[g].key} |->
                        IF k = call[g].key THEN call[g].value ELSE payload[k]]
  <2>1. MapWrite(g, map) /\ pc[g] = "in" /\ Is(g, "set") /\ "set" \in Writers \ {"refresh"}
    BY <1>20 DEF Set, Writers
  <2>. HIDE DEF map
  <2>2. \/ payload' = map /\ A!Moment(g, {"set"}, A!EmptyMap) /\ window' = window
        \/ UNCHANGED A!avars
    BY <1>18, <1>19, <2>1
  <2>. QED  BY <2>2 DEF A!Set, map
<1>21. ASSUME NEW g \in Goroutines, Del(g) PROVE A!Del(g) \/ UNCHANGED A!avars
  <2>. DEFINE map == [k \in DOMAIN payload \ {call[g].key} |-> payload[k]]
  <2>1. pc[g] = "in" /\ Is(g, "del") /\ "del" \in Writers \ {"refresh"}
    BY <1>21 DEF Del, Writers
  <2>2. CASE MapWrite(g, map)
    <3>. HIDE DEF map
    <3>1. \/ payload' = map /\ A!Moment(g, {"del"}, A!EmptyMap) /\ window' = window
          \/ UNCHANGED A!avars
      BY <1>18, <1>19, <2>1, <2>2
    <3>. QED  BY <3>1 DEF A!Del, map
  <2>3. CASE /\ call[g].key \notin DOMAIN payload /\ Goto(g, Exit(g))
             /\ UNCHANGED <<state, call, got>>
    <3>1. payload = map
      <4>1. payload \in [DOMAIN payload -> Values]
        BY <1>3, PayloadIs DEF TypeInv
      <4>. QED  BY <2>3, <4>1
    <3>2. payload' = map
      BY <2>3, <3>1 DEF state
    <3>. HIDE DEF map
    <3>3. A!Moment(g, {"del"}, A!EmptyMap) /\ window' = window
      BY <1>18, <2>1, <2>3, <3>2 DEF state
    <3>. QED  BY <3>2, <3>3 DEF A!Del, map
  <2>. QED  BY <1>21, <2>2, <2>3 DEF Del
<1>22. ASSUME NEW g \in Goroutines, Clean(g) PROVE A!Clean(g)
  <2>1. "clean" \in Writers \ {"refresh"}
    BY DEF Writers
  <2>. QED  BY <1>18, <1>22, <2>1 DEF Clean, A!Clean, EmptyMap, A!EmptyMap
(* What a reader does that has read all it wants.                          *)
<1>23. ASSUME NEW g \in Goroutines, NEW op \in Readers, pc[g] = "in", Is(g, op),
              Goto(g, Exit(g)), UNCHANGED <<state, call>>,
              \A h \in Goroutines \ {g}: got'[h] = got[h]
       PROVE  A!Moment(g, {op}, got'[g].entries) /\ window' = window
  <2>1. pc'[g] = "runlock" /\ \A h \in Goroutines \ {g}: pc'[h] = pc[h]
    BY <1>3, <1>23, ExitStage DEF TypeInv
  <2>2. ~Answered(g) /\ Answered(g)' /\ Told(g)' = got'[g].entries
    BY <1>23, <2>1 DEF HalfDone, Answered, Told
  <2>3. \A h \in Goroutines: HalfDone(h)' <=> HalfDone(h)
    BY <1>23, <2>1 DEF HalfDone
  <2>. QED  BY <1>6, <1>8, <1>23, <2>1, <2>2, <2>3 DEF state
<1>24. ASSUME NEW g \in Goroutines, Get(g) PROVE A!Get(g)
  <2>1. pc[g] = "in" /\ Is(g, "get") /\ got[g] = Nothing /\ "get" \in Readers
    BY <1>3, <1>24 DEF Get, Shape, Readers
  <2>2. call[g].key \in Keys \ got[g].seen /\ got[g].seen = {}
    BY <1>3, <1>24, <2>1, CallingFields DEF Nothing
  <2>3. /\ got'[g].entries = Part(payload, {call[g].key})
        /\ \A h \in Goroutines \ {g}: got'[h] = got[h]
    <3>1. DOMAIN got[g].entries \subseteq got[g].seen
      BY <1>3 DEF Shape
    <3>2. got[g].entries = Part(payload, got[g].seen)
      BY <2>1, PartOfNothing
    <3>3. /\ Look(g, call[g].key) /\ payload \in Payloads
          /\ got \in [Goroutines -> GotRecords]
      BY <1>3, <1>24 DEF Get, TypeInv
    <3>4. /\ \A h \in Goroutines \ {g}: got'[h] = got[h]
          /\ got'[g].seen = got[g].seen \cup {call[g].key}
          /\ got'[g].entries = Part(payload, got'[g].seen)
      BY <2>2, <3>1, <3>2, <3>3, LookStep
    <3>5. got'[g].seen = {call[g].key}
      BY <2>2, <3>4
    <3>. QED  BY <3>4, <3>5
  <2>4. A!Moment(g, {"get"}, got'[g].entries) /\ window' = window
    BY <1>23, <1>24, <2>1, <2>3 DEF Get
  <2>. QED  BY <1>24, <2>3, <2>4 DEF A!Get, Get, Part, state
<1>25. ASSUME NEW g \in Goroutines, Data(g) PROVE A!Data(g) \/ UNCHANGED A!avars
  <2>1. pc[g] = "in" /\ Is(g, "data") /\ UNCHANGED <<state, call>> /\ "data" \in Readers
    BY <1>25 DEF Data, Readers
  <2>2. ASSUME NEW k \in Keys, Copy(g, k), UNCHANGED pc PROVE UNCHANGED A!avars
    <3>1. \A h \in Goroutines \ {g}: got'[h] = got[h]
      BY <1>3, <2>2 DEF Copy, Look, TypeInv
    <3>. QED  BY <1>7, <2>1, <2>2, <3>1 DEF HalfDone, Answered, Told, state
  <2>3. CASE got[g].seen = Keys /\ Goto(g, Exit(g)) /\ UNCHANGED got
    <3>1. got[g].entries = payload
      <4>1. g \in readers
        BY <1>3, <2>1 DEF Locks
      <4>2. got[g].entries = Part(payload, Keys)
        BY <1>3, <2>3, <4>1 DEF Atomic
      <4>3. payload \in [DOMAIN payload -> Values] /\ DOMAIN payload \subseteq Keys
        BY <1>3, PayloadIs DEF TypeInv
      <4>. QED  BY <4>2, <4>3 DEF Part
    <3>2. A!Moment(g, {"data"}, got'[g].entries) /\ window' = window
      BY <1>23, <2>1, <2>3
    <3>. QED  BY <2>1, <2>3, <3>1, <3>2 DEF A!Data, state
  <2>. QED  BY <1>25, <2>2, <2>3 DEF Data
<1>26. ASSUME NEW g \in Goroutines, ValidateAfter(g) \/ ValidateBefore(g) \/ EncodeAfter(g)
                                    \/ EncodeBefore(g) \/ EncodeEntries(g)
       PROVE  UNCHANGED A!avars
  <2>1. /\ pc[g] \in {"after", "before", "entries"} /\ pc'[g] \in {"before", "entries", "done"}
        /\ UNCHANGED <<state, call>> /\ call[g].op # "refresh"
        /\ \A h \in Goroutines \ {g}: pc'[h] = pc[h] /\ got'[h] = got[h]
    BY <1>3, <1>26 DEF ValidateAfter, ValidateBefore, EncodeAfter, EncodeBefore, EncodeEntries,
                       Copy, Look, TypeInv, Shape
  <2>. QED  BY <1>7, <2>1 DEF HalfDone, Answered, Told, state
<1>27. CASE UNCHANGED vars
  BY <1>27 DEF vars, state, A!avars, window, answer, HalfDone
<1>28. ASSUME NEW g \in Goroutines,
              (\E c \in Calls: A!Ask(g, c)) \/ A!Refresh(g) \/ A!Set(g) \/ A!Del(g)
              \/ A!Clean(g) \/ A!Get(g) \/ A!Data(g) \/ A!Return(g)
       PROVE  A!Next
  BY <1>28 DEF A!Next
<1>. QED  BY <1>11, <1>12, <1>13, <1>14, <1>15, <1>16, <1>17, <1>20, <1>21, <1>22, <1>24, <1>25,
             <1>26, <1>27, <1>28 DEF Next, Continue

(* Any number of goroutines that call the methods of a container in any    *)
(* order see what they would see if each call took effect at one moment.   *)
THEOREM ContainerRefines == Spec => ImplementsAtomic
<1>1. ContainerInv /\ ContainerInv' /\ [Next]_vars => [A!Next]_(A!avars)
  BY RefineStep
<1>. QED  BY RefineInit, <1>1, ContainerInvariant, PTL DEF Spec, ImplementsAtomic, A!Spec
=============================================================================
