-------------------------- MODULE SemaphoreProofs ---------------------------
(***************************************************************************)
(* The semaphore for any arguments of its constructor, any goroutines and  *)
(* any number of posts.                                                    *)
(***************************************************************************)
EXTENDS Semaphore, TLAPS

(* Before the constructor returns it has put in what left does not count,  *)
(* and nobody else has touched the channel.                                *)
SemInv ==
    /\ SemTypeOK
    /\ tokens <= limit /\ (asleep # {} => tokens = 0)
    /\ tokens + taken + left = initial + posted
    /\ ~Made => taken = 0 /\ posted = 0 /\ asleep = {}
    /\ Made => initial <= limit
    /\ initial >= 0 => left >= 0
    /\ initial < 0 => left < 0

LEMMA SemInvInit == SemInit => SemInv
<1>. SUFFICES ASSUME SemInit PROVE SemInv
  OBVIOUS
<1>1. initial \in Int /\ limit \in Nat
  <2>1. PICK a \in Arguments: initial = a[1] /\ limit = a[2]
    BY DEF SemInit
  <2>2. a \in Int \X Nat
    BY SemaphoreAssumption
  <2>. QED  BY <2>1, <2>2
<1>2. left = initial /\ tokens = 0 /\ asleep = {} /\ taken = 0 /\ posted = 0
  BY DEF SemInit
<1>. QED  BY <1>1, <1>2, SemaphoreAssumption DEF SemInv, SemTypeOK, Made

LEMMA SemInvNext == SemInv /\ [SemNext]_semVars => SemInv'
<1>. SUFFICES ASSUME SemInv, [SemNext]_semVars PROVE SemInv'
  OBVIOUS
<1>. USE SemaphoreAssumption DEF SemInv, SemTypeOK, Made
<1>1. CASE Fill
  <2>1. /\ left # 0 /\ tokens < limit /\ left' = left - 1 /\ tokens' = tokens + 1
        /\ initial' = initial /\ limit' = limit /\ asleep' = asleep
        /\ taken' = taken /\ posted' = posted
    BY <1>1 DEF Fill
  <2>2. taken = 0 /\ posted = 0 /\ asleep = {}
    BY <2>1
  <2>3. tokens' + left' = initial /\ tokens' <= limit
    BY <2>1, <2>2
  <2>4. (initial >= 0 => left' >= 0) /\ (initial < 0 => left' < 0)
    BY <2>1
  <2>. QED  BY <2>1, <2>2, <2>3, <2>4
<1>2. ASSUME NEW g \in Callers, Wait(g) PROVE SemInv'
  BY <1>2 DEF Wait, Take
<1>3. ASSUME NEW g \in Callers, TryWait(g) PROVE SemInv'
  BY <1>3 DEF TryWait, Take, semVars
<1>4. ASSUME NEW g \in Callers, Post(g) PROVE SemInv'
  <2>1. CASE \E w \in asleep:
               /\ asleep' = asleep \ {w}
               /\ taken' = taken + 1 /\ posted' = posted + 1
               /\ UNCHANGED <<initial, limit, left, tokens>>
    BY <1>4, <2>1 DEF Post
  <2>2. CASE /\ asleep = {} /\ tokens < limit
             /\ tokens' = tokens + 1 /\ posted' = posted + 1
             /\ UNCHANGED <<initial, limit, left, asleep, taken>>
    BY <1>4, <2>2 DEF Post
  <2>3. CASE UNCHANGED semVars
    BY <2>3 DEF semVars
  <2>. QED  BY <1>4, <2>1, <2>2, <2>3 DEF Post
<1>5. CASE UNCHANGED semVars
  BY <1>5 DEF semVars
<1>. QED  BY <1>1, <1>2, <1>3, <1>4, <1>5 DEF SemNext

LEMMA SemInvariant == SemSpec => []SemInv
  BY SemInvInit, SemInvNext, PTL DEF SemSpec

LEMMA InvTokens == SemInv => TokensAccounted
<1>. SUFFICES ASSUME SemInv PROVE TokensAccounted
  OBVIOUS
<1>1. tokens <= limit /\ (asleep # {} => tokens = 0)
  BY DEF SemInv
<1>2. ASSUME Made PROVE initial \in 0..limit /\ tokens + taken = initial + posted
  BY <1>2 DEF Made, SemInv, SemTypeOK
<1>3. ASSUME ~Made, tokens = limit PROVE initial \notin 0..limit
  <2>1. tokens + left = initial /\ left # 0
    BY <1>3 DEF Made, SemInv, SemTypeOK
  <2>2. initial >= 0 => left > 0
    BY <2>1 DEF SemInv, SemTypeOK
  <2>. QED  BY <1>3, <2>1, <2>2 DEF SemInv, SemTypeOK
<1>. QED  BY <1>1, <1>2, <1>3 DEF TokensAccounted

(* Whatever the constructor is given, no token is lost or made up, the     *)
(* channel never holds more than its limit and nobody sleeps beside a      *)
(* token; and the constructor hangs exactly outside 0..limit.              *)
THEOREM TokensSafe == SemSpec => []TokensAccounted
  BY SemInvariant, InvTokens, PTL
=============================================================================
