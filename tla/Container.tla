----------------------------- MODULE Container ------------------------------
(***************************************************************************)
(* pkg/crypto/container: a container shared by goroutines.  Its methods    *)
(* hold the RWMutex, for writing or for reading; Validate and Marshal are  *)
(* functions and read its fields one after another without it.             *)
(*                                                                         *)
(* A time is a number.  A field that is read while it is being written is  *)
(* a data race: time.Time is three words, and any time may be seen.        *)
(***************************************************************************)
EXTENDS Integers, FiniteSets

CONSTANTS
    Goroutines,
    Calls,         \* what they may call, a subset of AllCalls
    Keys, Values,  \* of payloads
    Times,         \* numbers
    Windows,       \* pairs of times that callers pass for after and before
    Version,       \* the version this program writes and accepts
    Givens,        \* containers: made by New, or of another version
    Nobody,        \* not a goroutine
    MaxCalls       \* bound: calls made

Payloads == UNION {[K -> Values]: K \in SUBSET Keys}

Writers == {"refresh", "set", "del", "clean"}
Readers == {"get", "data"}

AllCalls ==
    [op: {"refresh"}, window: Windows]
    \cup [op: {"set"}, key: Keys, value: Values]
    \cup [op: {"del", "get"}, key: Keys]
    \cup [op: {"clean", "data", "marshal"}]
    \cup [op: {"validate"}, now: Times]

ASSUME ContainerAssumption ==
    /\ Times \subseteq Int /\ Windows \subseteq Times \X Times
    /\ Calls \subseteq AllCalls
    /\ Givens \subseteq [version: Int, window: Windows, payload: Payloads]
    /\ Nobody \notin Goroutines /\ MaxCalls \in Nat

VARIABLES
    version, after, before, payload,  \* the container
    writer,     \* who has announced itself to the RWMutex for writing, or Nobody
    readers,    \* who holds it for reading
    pc,         \* where each goroutine is
    call,       \* what it is calling
    got,        \* what it has read, and the verdict of Validate
    disturbed,  \* has a writer been inside while it was reading without lock?
    crashed,    \* the Go runtime has stopped the process
    calls

state == <<version, after, before, payload>>
lock == <<writer, readers>>
vars == <<state, lock, pc, call, got, disturbed, crashed, calls>>

EmptyMap == [k \in {} |-> k]
NoCall == [op |-> "none"]
Nothing == [after |-> 0, before |-> 0, entries |-> EmptyMap, seen |-> {}, verdict |-> "none"]

(* New: a window, and a copy of the payload.                               *)
Init ==
    /\ \E c \in Givens:
        /\ version = c.version /\ payload = c.payload
        /\ after = c.window[1] /\ before = c.window[2]
    /\ writer = Nobody /\ readers = {}
    /\ pc = [g \in Goroutines |-> "idle"]
    /\ call = [g \in Goroutines |-> NoCall]
    /\ got = [g \in Goroutines |-> Nothing]
    /\ disturbed = [g \in Goroutines |-> FALSE]
    /\ crashed = FALSE /\ calls = 0

(* The call is over, and its locals are gone.                              *)
Forget(g) == call' = [call EXCEPT ![g] = NoCall] /\ got' = [got EXCEPT ![g] = Nothing]

At(g, stage) == ~crashed /\ pc[g] = stage
Goto(g, stage) == pc' = [pc EXCEPT ![g] = stage]
Is(g, op) == call[g].op = op

Unlocked == {g \in Goroutines: pc[g] \in {"after", "before", "entries", "done"}
                               /\ call[g].op \in {"validate", "marshal"}}
Inside == {g \in Goroutines: call[g].op \in Writers /\ pc[g] \in {"in", "before", "unlock"}}

-----------------------------------------------------------------------------
(* Variant: Refresh takes the lock for reading.                            *)
EntryRefreshShared(op) ==
    IF op \in Writers \ {"refresh"} THEN "lock"
    ELSE IF op \in Readers \cup {"refresh"} THEN "rlock" ELSE "after"

Entry(op) ==
    IF op \in Writers THEN "lock" ELSE IF op \in Readers THEN "rlock" ELSE "after"

Begin(g, c) ==
    /\ At(g, "idle") /\ calls < MaxCalls /\ calls' = calls + 1
    /\ call' = [call EXCEPT ![g] = c] /\ Goto(g, Entry(c.op))
    /\ disturbed' = [disturbed EXCEPT ![g] = Inside # {}]
    /\ UNCHANGED <<state, lock, got, crashed>>

(* sync.RWMutex: a writer announces itself, so that no reader enters after *)
(* it, and waits for the readers inside.                                   *)
Lock(g) ==
    /\ At(g, "lock") /\ writer = Nobody
    /\ writer' = g /\ Goto(g, "drain")
    /\ UNCHANGED <<state, readers, call, got, disturbed, crashed, calls>>

Locked(g) ==
    /\ At(g, "drain") /\ readers = {}
    /\ Goto(g, "in")
    /\ disturbed' = [h \in Goroutines |-> disturbed[h] \/ h \in Unlocked]
    /\ UNCHANGED <<state, lock, call, got, crashed, calls>>

RLock(g) ==
    /\ At(g, "rlock")
    /\ \/ writer = Nobody /\ readers' = readers \cup {g} /\ Goto(g, "in")
       \/ writer # Nobody /\ Goto(g, "parked") /\ UNCHANGED readers
    /\ UNCHANGED <<state, writer, call, got, disturbed, crashed, calls>>

(* All readers that were parked meanwhile enter before the next writer.    *)
Unlock(g) ==
    /\ At(g, "unlock")
    /\ writer' = Nobody
    /\ readers' = {h \in Goroutines: pc[h] = "parked"}
    /\ pc' = [h \in Goroutines |->
                IF h = g THEN "idle" ELSE IF pc[h] = "parked" THEN "in" ELSE pc[h]]
    /\ Forget(g)
    /\ UNCHANGED <<state, disturbed, crashed, calls>>

RUnlock(g) ==
    /\ At(g, "runlock")
    /\ readers' = readers \ {g} /\ Goto(g, "idle") /\ Forget(g)
    /\ UNCHANGED <<state, writer, disturbed, crashed, calls>>

-----------------------------------------------------------------------------
Exit(g) == IF g \in readers THEN "runlock" ELSE "unlock"

(* Refresh assigns the two times one after the other.                      *)
RefreshAfter(g) ==
    /\ At(g, "in") /\ Is(g, "refresh")
    /\ after' = call[g].window[1] /\ Goto(g, "before")
    /\ UNCHANGED <<version, before, payload, lock, call, got, disturbed, crashed, calls>>

RefreshBefore(g) ==
    /\ At(g, "before") /\ Is(g, "refresh")
    /\ before' = call[g].window[2] /\ Goto(g, Exit(g))
    /\ UNCHANGED <<version, after, payload, lock, call, got, disturbed, crashed, calls>>

Iterating == {h \in Goroutines: pc[h] = "entries" /\ Is(h, "marshal")}

(* A write to the map.  If Marshal is iterating over it the runtime may    *)
(* notice, which is fatal, or not.                                         *)
MapWrite(g, map) ==
    /\ \/ payload' = map /\ Goto(g, Exit(g)) /\ UNCHANGED crashed
       \/ Iterating # {} /\ crashed' = TRUE /\ UNCHANGED <<payload, pc>>
    /\ UNCHANGED <<version, after, before, lock, call, got, disturbed, calls>>

(* Variant: the map is made before it is written, without a look whether   *)
(* there is one.                                                           *)
SetMakesMap(g) ==
    /\ At(g, "in") /\ Is(g, "set")
    /\ MapWrite(g, [k \in {call[g].key} |-> call[g].value])

Set(g) ==
    /\ At(g, "in") /\ Is(g, "set")
    /\ MapWrite(g, [k \in DOMAIN payload \cup {call[g].key} |->
                      IF k = call[g].key THEN call[g].value ELSE payload[k]])

(* Variant: returns early, without unlocking, when there is nothing to do. *)
DelKeepsLock(g) ==
    /\ At(g, "in") /\ Is(g, "del") /\ call[g].key \in DOMAIN payload
    /\ MapWrite(g, [k \in DOMAIN payload \ {call[g].key} |-> payload[k]])

(* Variant: the entry is not deleted but set to nil.                       *)
DelSetsNil(g) ==
    /\ At(g, "in") /\ Is(g, "del")
    /\ MapWrite(g, [k \in DOMAIN payload |->
                      IF k = call[g].key THEN "nil" ELSE payload[k]])

Del(g) ==
    /\ At(g, "in") /\ Is(g, "del")
    /\ \/ /\ call[g].key \in DOMAIN payload
          /\ MapWrite(g, [k \in DOMAIN payload \ {call[g].key} |-> payload[k]])
       \/ /\ call[g].key \notin DOMAIN payload /\ Goto(g, Exit(g))
          /\ UNCHANGED <<state, lock, call, got, disturbed, crashed, calls>>

(* Clean puts a new map in the place of the old one.                       *)
Clean(g) ==
    /\ At(g, "in") /\ Is(g, "clean")
    /\ payload' = EmptyMap /\ Goto(g, Exit(g))
    /\ UNCHANGED <<version, after, before, lock, call, got, disturbed, crashed, calls>>

(* One entry of the map is looked at.                                      *)
Look(g, k) ==
    got' = [got EXCEPT
              ![g].seen = @ \cup {k},
              ![g].entries = [e \in DOMAIN @ \cup ({k} \cap DOMAIN payload) |->
                                IF e = k THEN payload[k] ELSE @[e]]]

Get(g) ==
    /\ At(g, "in") /\ Is(g, "get")
    /\ Look(g, call[g].key) /\ Goto(g, Exit(g))
    /\ UNCHANGED <<state, lock, call, disturbed, crashed, calls>>

Copy(g, k) == k \notin got[g].seen /\ Look(g, k)

(* Data copies the map, entry by entry.                                    *)
Data(g) ==
    /\ At(g, "in") /\ Is(g, "data")
    /\ \/ \E k \in Keys: Copy(g, k) /\ UNCHANGED pc
       \/ got[g].seen = Keys /\ Goto(g, Exit(g)) /\ UNCHANGED got
    /\ UNCHANGED <<state, lock, call, disturbed, crashed, calls>>

-----------------------------------------------------------------------------
Refreshing(stage) == {h \in Goroutines: Is(h, "refresh") /\ pc[h] = stage}

(* What is seen of a field without the lock.                               *)
Seen(field, stage) == IF Refreshing(stage) = {} THEN {field} ELSE Times

(* Validate has taken the time; it compares the version and ValidAfter.    *)
ValidateAfter(g) ==
    /\ At(g, "after") /\ Is(g, "validate")
    /\ \/ /\ version # Version /\ Goto(g, "done")
          /\ got' = [got EXCEPT ![g].verdict = "incompatible"]
       \/ /\ version = Version
          /\ \E t \in Seen(after, "in"):
               \/ call[g].now > t /\ Goto(g, "before") /\ UNCHANGED got
               \/ /\ ~(call[g].now > t) /\ Goto(g, "done")
                  /\ got' = [got EXCEPT ![g].verdict = "invalid"]
    /\ UNCHANGED <<state, lock, call, disturbed, crashed, calls>>

(* Variant: the last moment of the window is taken to be inside.           *)
InTimeClosed(now, t) == now <= t

InTime(now, t) == now < t

(* Then ValidBefore.                                                       *)
ValidateBefore(g) ==
    /\ At(g, "before") /\ Is(g, "validate") /\ Goto(g, "done")
    /\ \E t \in Seen(before, "before"):
         got' = [got EXCEPT ![g].verdict =
                   IF InTime(call[g].now, t) THEN "valid" ELSE "invalid"]
    /\ UNCHANGED <<state, lock, call, disturbed, crashed, calls>>

(* Marshal encodes the fields in their order,                              *)
EncodeAfter(g) ==
    /\ At(g, "after") /\ Is(g, "marshal") /\ Goto(g, "before")
    /\ \E t \in Seen(after, "in"): got' = [got EXCEPT ![g].after = t]
    /\ UNCHANGED <<state, lock, call, disturbed, crashed, calls>>

EncodeBefore(g) ==
    /\ At(g, "before") /\ Is(g, "marshal") /\ Goto(g, "entries")
    /\ \E t \in Seen(before, "before"): got' = [got EXCEPT ![g].before = t]
    /\ UNCHANGED <<state, lock, call, disturbed, crashed, calls>>

(* and the map entry by entry.                                             *)
EncodeEntries(g) ==
    /\ At(g, "entries")
    /\ \/ \E k \in Keys: Copy(g, k) /\ UNCHANGED pc
       \/ got[g].seen = Keys /\ Goto(g, "done") /\ UNCHANGED got
    /\ UNCHANGED <<state, lock, call, disturbed, crashed, calls>>

Return(g) ==
    /\ At(g, "done") /\ Goto(g, "idle") /\ Forget(g)
    /\ UNCHANGED <<state, lock, disturbed, crashed, calls>>

-----------------------------------------------------------------------------
Continue(g) ==
    \/ Lock(g) \/ Locked(g) \/ Unlock(g) \/ RLock(g) \/ RUnlock(g)
    \/ RefreshAfter(g) \/ RefreshBefore(g) \/ Set(g) \/ Del(g) \/ Clean(g)
    \/ Get(g) \/ Data(g) \/ ValidateAfter(g) \/ ValidateBefore(g)
    \/ EncodeAfter(g) \/ EncodeBefore(g) \/ EncodeEntries(g) \/ Return(g)

Next == \E g \in Goroutines: (\E c \in Calls: Begin(g, c)) \/ Continue(g)

Spec == Init /\ [][Next]_vars

-----------------------------------------------------------------------------
(* The types of the variables.                                             *)
TypeOK ==
    /\ version \in Int /\ {after, before} \subseteq Times
    /\ payload \in Payloads
    /\ writer \in Goroutines \cup {Nobody} /\ readers \subseteq Goroutines
    /\ pc \in [Goroutines -> {"idle", "lock", "drain", "rlock", "parked", "in", "after",
                              "before", "entries", "done", "unlock", "runlock"}]
    /\ call \in [Goroutines -> Calls \cup {NoCall}]
    /\ \A g \in Goroutines:
        /\ {got[g].after, got[g].before} \subseteq Times \cup {0}
        /\ got[g].entries \in Payloads /\ got[g].seen \subseteq Keys
        /\ got[g].verdict \in {"none", "valid", "invalid", "incompatible"}
    /\ disturbed \in [Goroutines -> BOOLEAN]
    /\ crashed \in BOOLEAN /\ calls \in 0..MaxCalls

Part(map, K) == [k \in DOMAIN map \cap K |-> map[k]]

(* What the methods promise each other: whenever nobody is inside for      *)
(* writing, the two times are those of one Refresh or New, never of two;   *)
(* and what Get or Data has read so far is what the payload still is, so   *)
(* that Data's copy is the payload of one moment.                          *)
MethodsAreAtomic ==
    /\ Inside = {} => <<after, before>> \in Windows
    /\ \A g \in readers: got[g].entries = Part(payload, got[g].seen)

(* What the functions without lock can promise: the verdict of Validate    *)
(* and what Marshal has encoded are right unless a writer was inside in    *)
(* the meantime, and only then can the runtime stop the process.           *)
UnlockedNeedQuiet ==
    /\ \A g \in Unlocked: pc[g] = "done" /\ ~disturbed[g] =>
        /\ Is(g, "validate") =>
             (got[g].verdict = "valid" <=>
                 /\ version = Version
                 /\ after < call[g].now /\ call[g].now < before)
        /\ Is(g, "marshal") =>
             <<got[g].after, got[g].before, got[g].entries>> = <<after, before, payload>>
    /\ crashed => \E g \in Unlocked: disturbed[g]

-----------------------------------------------------------------------------
(* The abstract view of the container: a Refresh has its moment when it    *)
(* assigns the first of the two times, the other writers when they write,  *)
(* and a reader when it has read all it wants.                             *)
HalfDone(g) == Is(g, "refresh") /\ pc[g] = "before"

window ==
    IF \E g \in Goroutines: HalfDone(g)
      THEN call[CHOOSE g \in Goroutines: HalfDone(g)].window
      ELSE <<after, before>>

answer ==
    [g \in Goroutines |->
       [done |-> pc[g] \in {"unlock", "runlock"} \/ HalfDone(g),
        entries |-> IF pc[g] = "runlock" THEN got[g].entries ELSE EmptyMap]]

A == INSTANCE AtomicContainer WITH asked <- call

(* The container implements AtomicContainer: what goroutines can observe   *)
(* of Refresh, Set, Del, Clean, Get and Data is what calls would do that   *)
(* take effect at one moment each.                                         *)
ImplementsAtomic == A!Spec
=============================================================================
