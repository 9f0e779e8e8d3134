----------------------------- MODULE Semaphore ------------------------------
(***************************************************************************)
(* pkg/sync: a counting semaphore that is a channel of empty structs.      *)
(* Post never blocks, Wait receives; a Post while somebody is asleep in    *)
(* Wait hands its token over, even with a limit of 0.                      *)
(***************************************************************************)
EXTENDS Integers, FiniteSets

CONSTANTS
    Callers,     \* goroutines
    Arguments,   \* pairs that NewSemaphore may be given: initial and limit
    MaxPosts     \* bound: tokens posted

ASSUME SemaphoreAssumption ==
    /\ IsFiniteSet(Callers)
    /\ Arguments \subseteq Int \X Nat /\ MaxPosts \in Nat

VARIABLES
    initial, limit,  \* the arguments of NewSemaphore, chosen once
    left,            \* what the loop of the constructor has not put in yet
    tokens,          \* the length of the channel
    asleep,          \* who is blocked in Wait
    taken, posted    \* tokens that went out and came in after the constructor

semVars == <<initial, limit, left, tokens, asleep, taken, posted>>

(* NewSemaphore has made the channel.                                      *)
SemInit ==
    /\ \E a \in Arguments: initial = a[1] /\ limit = a[2]
    /\ left = initial /\ tokens = 0
    /\ asleep = {} /\ taken = 0 /\ posted = 0

(* One round of the constructor.  It blocks on a full channel, for ever,   *)
(* as nobody else has the semaphore yet; with a negative number always.    *)
Fill ==
    /\ left # 0 /\ tokens < limit
    /\ left' = left - 1 /\ tokens' = tokens + 1
    /\ UNCHANGED <<initial, limit, asleep, taken, posted>>

Made == left = 0

Take ==
    /\ tokens > 0 /\ tokens' = tokens - 1 /\ taken' = taken + 1
    /\ UNCHANGED <<initial, limit, left, asleep, posted>>

(* Wait receives a token, or sleeps until one is handed over.              *)
Wait(g) ==
    /\ Made /\ g \notin asleep
    /\ \/ Take
       \/ /\ tokens = 0 /\ asleep' = asleep \cup {g}
          /\ UNCHANGED <<initial, limit, left, tokens, taken, posted>>

(* TryWait returns false when there is none.                               *)
TryWait(g) ==
    /\ Made /\ g \notin asleep
    /\ \/ Take
       \/ tokens = 0 /\ UNCHANGED semVars

(* Variant: Post only looks at the channel's capacity.                     *)
PostNoHandover(g) ==
    /\ Made /\ g \notin asleep /\ posted < MaxPosts
    /\ \/ /\ tokens < limit /\ tokens' = tokens + 1 /\ posted' = posted + 1
          /\ UNCHANGED <<initial, limit, left, asleep, taken>>
       \/ tokens = limit /\ UNCHANGED semVars

(* Post hands a token to a sleeper, or puts it into the channel, or fails. *)
Post(g) ==
    /\ Made /\ g \notin asleep /\ posted < MaxPosts
    /\ \/ \E w \in asleep:
            /\ asleep' = asleep \ {w}
            /\ taken' = taken + 1 /\ posted' = posted + 1
            /\ UNCHANGED <<initial, limit, left, tokens>>
       \/ /\ asleep = {} /\ tokens < limit
          /\ tokens' = tokens + 1 /\ posted' = posted + 1
          /\ UNCHANGED <<initial, limit, left, asleep, taken>>
       \/ asleep = {} /\ tokens = limit /\ UNCHANGED semVars

SemNext == Fill \/ \E g \in Callers: Wait(g) \/ TryWait(g) \/ Post(g)

SemSpec == SemInit /\ [][SemNext]_semVars

-----------------------------------------------------------------------------
(* The types of the semaphore's variables.                                 *)
SemTypeOK ==
    /\ initial \in Int /\ limit \in Nat /\ left \in Int
    /\ tokens \in Nat
    /\ asleep \subseteq Callers
    /\ taken \in Nat /\ posted \in 0..MaxPosts

(* No token is lost or made up, the channel never holds more than its      *)
(* limit, nobody sleeps while there is a token, and the constructor        *)
(* returns if, and only if, it was asked for at least 0 and at most limit  *)
(* tokens: full with some left to put in, it hangs.                        *)
TokensAccounted ==
    /\ tokens <= limit
    /\ asleep # {} => tokens = 0
    /\ Made => initial \in 0..limit /\ tokens + taken = initial + posted
    /\ ~Made /\ tokens = limit => initial \notin 0..limit
=============================================================================
