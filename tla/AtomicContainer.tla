--------------------------- MODULE AtomicContainer ---------------------------
(***************************************************************************)
(* What a container promises to the goroutines that share it, without      *)
(* locks or half-done calls: between its call and its return every method  *)
(* takes effect, and finds its answer, at one single moment.  Nothing is   *)
(* promised here of the functions that take no lock, but that they do not  *)
(* change the container.                                                   *)
(***************************************************************************)
CONSTANTS Goroutines, Calls, Payloads, Windows

VARIABLES
    window,   \* the two times of the container
    payload,  \* and its entries
    asked,    \* what each goroutine is calling
    answer    \* what its method has answered, once it took effect

avars == <<window, payload, asked, answer>>

NoCall == [op |-> "none"]
EmptyMap == [k \in {} |-> k]
NotYet == [done |-> FALSE, entries |-> EmptyMap]

Init ==
    /\ window \in Windows /\ payload \in Payloads
    /\ asked = [g \in Goroutines |-> NoCall]
    /\ answer = [g \in Goroutines |-> NotYet]

Ask(g, c) ==
    /\ asked[g] = NoCall
    /\ asked' = [asked EXCEPT ![g] = c]
    /\ UNCHANGED <<window, payload, answer>>

(* The moment of a method, which has not had it yet.                       *)
Moment(g, ops, entries) ==
    /\ asked[g].op \in ops /\ ~answer[g].done
    /\ answer' = [answer EXCEPT ![g] = [done |-> TRUE, entries |-> entries]]
    /\ UNCHANGED asked

Refresh(g) ==
    /\ Moment(g, {"refresh"}, EmptyMap)
    /\ window' = asked[g].window
    /\ UNCHANGED payload

Set(g) ==
    /\ Moment(g, {"set"}, EmptyMap)
    /\ payload' = [k \in DOMAIN payload \cup {asked[g].key} |->
                     IF k = asked[g].key THEN asked[g].value ELSE payload[k]]
    /\ UNCHANGED window

Del(g) ==
    /\ Moment(g, {"del"}, EmptyMap)
    /\ payload' = [k \in DOMAIN payload \ {asked[g].key} |-> payload[k]]
    /\ UNCHANGED window

Clean(g) ==
    /\ Moment(g, {"clean"}, EmptyMap)
    /\ payload' = EmptyMap
    /\ UNCHANGED window

Get(g) ==
    /\ Moment(g, {"get"}, [k \in DOMAIN payload \cap {asked[g].key} |-> payload[k]])
    /\ UNCHANGED <<window, payload>>

Data(g) ==
    /\ Moment(g, {"data"}, payload)
    /\ UNCHANGED <<window, payload>>

Return(g) ==
    /\ answer[g].done \/ asked[g].op \in {"validate", "marshal"}
    /\ asked' = [asked EXCEPT ![g] = NoCall]
    /\ answer' = [answer EXCEPT ![g] = NotYet]
    /\ UNCHANGED <<window, payload>>

Next ==
    \E g \in Goroutines:
        \/ \E c \in Calls: Ask(g, c)
        \/ Refresh(g) \/ Set(g) \/ Del(g) \/ Clean(g) \/ Get(g) \/ Data(g)
        \/ Return(g)

Spec == Init /\ [][Next]_avars
=============================================================================
