----------------------------- MODULE FileProofs -----------------------------
(***************************************************************************)
(* The file handlers for any number of requests and files, all sizes and   *)
(* all machines.  The invariant ties the stage of a request to its buffer, *)
(* to the mutex of its file and to its reply.                              *)
(***************************************************************************)
EXTENDS File, FiniteSetTheorems, TLAPS

(* Stages in which a request holds the mutex of its file, and a buffer.    *)
Holding == {"open", "view", "decrypt", "opened"}
Buffered == {"view", "decrypt", "opened", "bytes", "write"}

BufferInv == \A r \in Reqs: buf[r] = IF at[r] \in Buffered THEN "alive" ELSE "none"

MutexInv == \A r \in Reqs: at[r] \in Holding => mu[req[r].file] = r

(* The reply of a read, decided when the handler returns.                  *)
readReply(r) == [status |-> "OK", lo |-> req[r].off, hi |-> End(r)]

RequestInv ==
    \A r \in Reqs:
        /\ at[r] # "idle" => req[r].kind \in Kinds /\ req[r].file \in Files
        /\ at[r] \in Holding \cup {"lock"} => req[r].kind \in {"getattr", "read"}
        /\ at[r] = "answer" => req[r].kind \notin {"getattr", "read"}
        /\ req[r].kind = "read" =>
            req[r].len > 0 /\ (host.trims => req[r].off < Size[req[r].file])

ReplyInv ==
    \A r \in Reqs:
        /\ at[r] \in {"bytes", "write"} =>
            req[r].kind = "read" /\ reply[r] = readReply(r)
        /\ at[r] = "answered" /\ reply[r].status = "OK" =>
            /\ req[r].kind = "read" => reply[r] = readReply(r)
            /\ req[r].kind = "getattr" => reply[r].hi = Size[req[r].file]

CountInv == (host.trims => leaked = 0) /\ lost = 2 * errors

FileInv == TypeOK /\ BufferInv /\ MutexInv /\ RequestInv /\ ReplyInv /\ CountInv

-----------------------------------------------------------------------------
(* The end of a read is a length, and behind its offset on a kernel that   *)
(* trims.                                                                  *)
LEMMA EndType ==
    ASSUME FileInv, NEW r \in Reqs, at[r] # "idle"
    PROVE  /\ End(r) \in Nat /\ Size[req[r].file] \in Nat
           /\ req[r].off \in Nat /\ req[r].len \in Nat
           /\ host.trims /\ req[r].kind = "read" => req[r].off < End(r)
<1>1. req[r].off \in Nat /\ req[r].len \in Nat
  <2>1. req[r].off \in 0..MaxOffset /\ req[r].len \in 0..MaxLen
    BY DEF FileInv, TypeOK
  <2>. QED  BY <2>1, ConstantsAssumption
<1>2. Size[req[r].file] \in Nat
  BY ConstantsAssumption DEF FileInv, RequestInv
<1>3. host.trims /\ req[r].kind = "read" => req[r].off < Size[req[r].file] /\ req[r].len > 0
  BY DEF FileInv, RequestInv
<1>. QED  BY <1>1, <1>2, <1>3 DEF End

(* A panic changes nothing but crash.                                      *)
LEMMA PanicKeepsInv ==
    ASSUME FileInv, NEW why \in {"nil enclave", "mlock", "slice out of range"}, Panic(why)
    PROVE  FileInv'
<1>. USE DEF FileInv, Panic
<1>1. TypeOK'  BY DEF TypeOK
<1>2. BufferInv' /\ MutexInv' /\ RequestInv'  BY DEF BufferInv, MutexInv, RequestInv
<1>3. ReplyInv' /\ CountInv'  BY DEF ReplyInv, readReply, End, CountInv
<1>. QED  BY <1>1, <1>2, <1>3

LEMMA FileInit == Init => FileInv
  BY ConstantsAssumption DEF Init, FileInv, TypeOK, BufferInv, MutexInv, RequestInv,
     ReplyInv, CountInv, Idle, NoReply, Buffered, Holding

LEMMA FileNext == FileInv /\ [Next]_vars => FileInv'
<1>. SUFFICES ASSUME FileInv, [Next]_vars PROVE FileInv'
  OBVIOUS
<1>. USE ConstantsAssumption DEF FileInv
<1>1. ASSUME NEW r \in Reqs, Issue(r) PROVE FileInv'
  <2>1. PICK f \in Files, k \in Kinds:
          /\ Step(r, "idle", IF k \in {"getattr", "read"} THEN "lock" ELSE "answer")
          /\ \/ /\ k = "read"
                /\ \E o \in Offsets(f), n \in 1..MaxLen:
                     req' = [req EXCEPT ![r] = [kind |-> k, file |-> f, off |-> o, len |-> n]]
             \/ /\ k # "read"
                /\ req' = [req EXCEPT ![r] = [kind |-> k, file |-> f, off |-> 0, len |-> 0]]
          /\ UNCHANGED <<host, mu, buf, reply, leaked, lost, errors, crash>>
    BY <1>1 DEF Issue
  <2>2. PICK o \in 0..MaxOffset, n \in 0..MaxLen:
          /\ req' = [req EXCEPT ![r] = [kind |-> k, file |-> f, off |-> o, len |-> n]]
          /\ k = "read" => n > 0 /\ (host.trims => o < Size[f])
    BY <2>1 DEF Offsets
  <2>. USE <2>1, <2>2 DEF Step
  <2>3. TypeOK'  BY DEF TypeOK, Kinds
  <2>4. BufferInv' /\ MutexInv'  BY DEF TypeOK, BufferInv, MutexInv, Buffered, Holding
  <2>5. RequestInv'  BY DEF TypeOK, RequestInv, Holding
  <2>6. ReplyInv' /\ CountInv'  BY DEF TypeOK, ReplyInv, readReply, End, CountInv
  <2>. QED  BY <2>3, <2>4, <2>5, <2>6
<1>2. ASSUME NEW r \in Reqs, Answer(r) PROVE FileInv'
  <2>. USE <1>2 DEF Answer, Step
  <2>1. TypeOK'  BY DEF TypeOK
  <2>2. BufferInv' /\ MutexInv'  BY DEF TypeOK, BufferInv, MutexInv, Buffered, Holding
  <2>3. RequestInv'  BY DEF TypeOK, RequestInv, Holding
  <2>4. ReplyInv' /\ CountInv'
    BY DEF TypeOK, ReplyInv, readReply, End, CountInv, RequestInv
  <2>. QED  BY <2>1, <2>2, <2>3, <2>4
<1>3. ASSUME NEW r \in Reqs, Lock(r) PROVE FileInv'
  <2>. USE <1>3 DEF Lock, Step
  <2>1. TypeOK'  BY DEF TypeOK
  <2>2. BufferInv'  BY DEF TypeOK, BufferInv, Buffered
  <2>3. MutexInv'  BY DEF TypeOK, MutexInv, RequestInv, Holding
  <2>4. RequestInv'  BY DEF TypeOK, RequestInv, Holding
  <2>5. ReplyInv' /\ CountInv'  BY DEF TypeOK, ReplyInv, readReply, End, CountInv
  <2>. QED  BY <2>1, <2>2, <2>3, <2>4, <2>5
<1>4. ASSUME NEW r \in Reqs, OpenBuffer(r) PROVE FileInv'
  <2>1. CASE \E why \in {"nil enclave", "mlock"}: Panic(why)
    BY <2>1, PanicKeepsInv
  <2>2. CASE /\ Step(r, "open", "view") /\ buf' = [buf EXCEPT ![r] = "alive"]
             /\ UNCHANGED <<host, req, mu, reply, leaked, lost, errors, crash>>
    <3>. USE <2>2 DEF Step
    <3>1. TypeOK'  BY DEF TypeOK
    <3>2. BufferInv'  BY DEF TypeOK, BufferInv, Buffered
    <3>3. MutexInv'  BY DEF TypeOK, MutexInv, Holding
    <3>4. RequestInv'  BY DEF TypeOK, RequestInv, Holding
    <3>5. ReplyInv'  BY DEF TypeOK, ReplyInv, readReply, End
    <3>6. CountInv'  BY DEF TypeOK, CountInv
    <3>. QED  BY <3>1, <3>2, <3>3, <3>4, <3>5, <3>6
  <2>. QED  BY <1>4, <2>1, <2>2 DEF OpenBuffer
<1>5. ASSUME NEW r \in Reqs, ViewKey(r) PROVE FileInv'
  <2>1. CASE \E why \in {"mlock"}: Panic(why)
    BY <2>1, PanicKeepsInv
  <2>2. CASE /\ Step(r, "view", "decrypt")
             /\ UNCHANGED <<host, req, mu, buf, reply, leaked, lost, errors, crash>>
    <3>. USE <2>2 DEF Step
    <3>1. TypeOK'  BY DEF TypeOK
    <3>2. BufferInv'  BY DEF TypeOK, BufferInv, Buffered
    <3>3. MutexInv'  BY DEF TypeOK, MutexInv, Holding
    <3>4. RequestInv'  BY DEF TypeOK, RequestInv, Holding
    <3>5. ReplyInv'  BY DEF TypeOK, ReplyInv, readReply, End
    <3>6. CountInv'  BY DEF TypeOK, CountInv
    <3>. QED  BY <3>1, <3>2, <3>3, <3>4, <3>5, <3>6
  <2>. QED  BY <1>5, <2>1, <2>2 DEF ViewKey
<1>6. ASSUME NEW r \in Reqs, Decrypt(r) PROVE FileInv'
  <2>1. CASE /\ Step(r, "decrypt", "opened")
             /\ UNCHANGED <<host, req, mu, buf, reply, leaked, lost, errors, crash>>
    <3>. USE <2>1 DEF Step
    <3>1. TypeOK'  BY DEF TypeOK
    <3>2. BufferInv'  BY DEF TypeOK, BufferInv, Buffered
    <3>3. MutexInv'  BY DEF TypeOK, MutexInv, Holding
    <3>4. RequestInv'  BY DEF TypeOK, RequestInv, Holding
    <3>5. ReplyInv'  BY DEF TypeOK, ReplyInv, readReply, End
    <3>6. CountInv'  BY DEF TypeOK, CountInv
    <3>. QED  BY <3>1, <3>2, <3>3, <3>4, <3>5, <3>6
  <2>2. CASE /\ errors < MaxErrors /\ errors' = errors + 1
             /\ Step(r, "decrypt", "answered")
             /\ Unlock(r)
             /\ buf' = [buf EXCEPT ![r] = "none"] /\ lost' = lost + 2
             /\ reply' = [reply EXCEPT ![r].status = "EIO"]
             /\ UNCHANGED <<host, req, leaked, crash>>
    <3>. USE <2>2 DEF Step, Unlock
    <3>1. TypeOK'
      <4>1. errors' \in 0..MaxErrors /\ lost' \in Nat
        BY DEF TypeOK
      <4>2. reply' \in [Reqs -> [status: {"none", "OK", "EIO", "ENOSYS"}, lo: Nat, hi: Nat]]
        BY DEF TypeOK
      <4>3. mu' \in [Files -> Reqs \cup {None}]
        BY DEF TypeOK
      <4>. QED  BY <4>1, <4>2, <4>3 DEF TypeOK
    <3>2. BufferInv'  BY DEF TypeOK, BufferInv, Buffered
    <3>3. MutexInv'  BY DEF TypeOK, MutexInv, RequestInv, Holding
    <3>4. RequestInv'  BY DEF TypeOK, RequestInv, Holding
    <3>5. ReplyInv'  BY DEF TypeOK, ReplyInv, readReply, End
    <3>6. CountInv'  BY DEF TypeOK, CountInv
    <3>. QED  BY <3>1, <3>2, <3>3, <3>4, <3>5, <3>6
  <2>. QED  BY <1>6, <2>1, <2>2 DEF Decrypt
<1>7. ASSUME NEW r \in Reqs, GetattrReturn(r) PROVE FileInv'
  <2>. USE <1>7 DEF GetattrReturn, Step, Unlock
  <2>1. TypeOK'  BY EndType DEF TypeOK
  <2>2. BufferInv'  BY DEF TypeOK, BufferInv, Buffered
  <2>3. MutexInv'  BY DEF TypeOK, MutexInv, RequestInv, Holding
  <2>4. RequestInv'  BY DEF TypeOK, RequestInv, Holding
  <2>5. ReplyInv' /\ CountInv'  BY DEF TypeOK, ReplyInv, readReply, End, CountInv
  <2>. QED  BY <2>1, <2>2, <2>3, <2>4, <2>5
<1>8. ASSUME NEW r \in Reqs, ReadReturn(r) PROVE FileInv'
  <2>. USE <1>8 DEF ReadReturn, Step, Unlock
  <2>1. TypeOK'  BY EndType DEF TypeOK
  <2>2. BufferInv'  BY DEF TypeOK, BufferInv, Buffered
  <2>3. MutexInv'  BY DEF TypeOK, MutexInv, RequestInv, Holding
  <2>4. RequestInv'  BY DEF TypeOK, RequestInv, Holding
  <2>5. ReplyInv' /\ CountInv'  BY DEF TypeOK, ReplyInv, readReply, End, CountInv
  <2>. QED  BY <2>1, <2>2, <2>3, <2>4, <2>5
<1>9. ASSUME NEW r \in Reqs, Bytes(r) PROVE FileInv'
  <2>1. CASE \E why \in {"slice out of range"}: Panic(why)
    BY <2>1, PanicKeepsInv
  <2>2. CASE /\ Step(r, "bytes", "write")
             /\ UNCHANGED <<host, req, mu, buf, reply, leaked, lost, errors, crash>>
    <3>. USE <2>2 DEF Step
    <3>1. TypeOK'  BY DEF TypeOK
    <3>2. BufferInv'  BY DEF TypeOK, BufferInv, Buffered
    <3>3. MutexInv'  BY DEF TypeOK, MutexInv, Holding
    <3>4. RequestInv'  BY DEF TypeOK, RequestInv, Holding
    <3>5. ReplyInv'  BY DEF TypeOK, ReplyInv, readReply, End
    <3>6. CountInv'  BY DEF TypeOK, CountInv
    <3>. QED  BY <3>1, <3>2, <3>3, <3>4, <3>5, <3>6
  <2>. QED  BY <1>9, <2>1, <2>2 DEF Bytes
<1>10. ASSUME NEW r \in Reqs, WriteReply(r) PROVE FileInv'
  <2>. USE <1>10 DEF WriteReply, Step
  <2>1. TypeOK'  BY DEF TypeOK
  <2>2. BufferInv'  BY DEF TypeOK, BufferInv, Buffered
  <2>3. MutexInv'  BY DEF TypeOK, MutexInv, Holding
  <2>4. RequestInv'  BY DEF TypeOK, RequestInv, Holding
  <2>5. ReplyInv'  BY DEF TypeOK, ReplyInv, readReply, End
  <2>6. CountInv'
    <3>1. host.trims => reply[r].lo < reply[r].hi
      <4>1. at[r] = "write"
        OBVIOUS
      <4>2. req[r].kind = "read" /\ reply[r] = readReply(r)
        BY <4>1 DEF ReplyInv
      <4>3. reply[r].lo = req[r].off /\ reply[r].hi = End(r)
        BY <4>2 DEF readReply
      <4>. QED  BY <4>1, <4>2, <4>3, EndType
    <3>. QED  BY <3>1 DEF TypeOK, CountInv
  <2>. QED  BY <2>1, <2>2, <2>3, <2>4, <2>5, <2>6
<1>11. ASSUME NEW r \in Reqs, Deliver(r) PROVE FileInv'
  <2>. USE <1>11 DEF Deliver, Step, Idle, NoReply
  <2>1. TypeOK'  BY DEF TypeOK
  <2>2. BufferInv'  BY DEF TypeOK, BufferInv, Buffered
  <2>3. MutexInv'  BY DEF TypeOK, MutexInv, Holding
  <2>4. RequestInv'  BY DEF TypeOK, RequestInv, Holding
  <2>5. ReplyInv' /\ CountInv'  BY DEF TypeOK, ReplyInv, readReply, End, CountInv
  <2>. QED  BY <2>1, <2>2, <2>3, <2>4, <2>5
<1>12. CASE Collect
  <2>. USE <1>12 DEF Collect
  <2>1. TypeOK'  BY DEF TypeOK
  <2>2. BufferInv' /\ MutexInv' /\ RequestInv'  BY DEF BufferInv, MutexInv, RequestInv
  <2>3. ReplyInv' /\ CountInv'  BY DEF TypeOK, ReplyInv, readReply, End, CountInv
  <2>. QED  BY <2>1, <2>2, <2>3
<1>13. CASE UNCHANGED vars
  BY <1>13 DEF vars, TypeOK, BufferInv, MutexInv, RequestInv, ReplyInv, readReply, End, CountInv
<1>. QED
  BY <1>1, <1>2, <1>3, <1>4, <1>5, <1>6, <1>7, <1>8, <1>9, <1>10, <1>11, <1>12, <1>13
     DEF Next, Serve

LEMMA FileInvariant == Spec => []FileInv
  BY FileInit, FileNext, PTL DEF Spec

(* Every reachable state is well typed: no reply has a negative offset, no *)
(* mutex a holder that is no request.                                      *)
THEOREM TypeCorrect == Spec => []TypeOK
<1>1. FileInv => TypeOK  BY DEF FileInv
<1>. QED  BY FileInvariant, <1>1, PTL

(* Whatever overlaps, a client gets the bytes it asked for, as many as the *)
(* file has, and the size of the file.                                     *)
THEOREM ReplyCorrect == Spec => []ReplyIsContent
<1>1. FileInv => ReplyIsContent
  <2>. SUFFICES ASSUME FileInv, NEW r \in Reqs, at[r] = "answered", reply[r].status = "OK"
                PROVE  /\ req[r].kind = "read" =>
                           reply[r].lo .. (reply[r].hi - 1)
                             = {i \in req[r].off .. (req[r].off + req[r].len - 1) :
                                  i < Size[req[r].file]}
                       /\ req[r].kind = "getattr" => reply[r].hi = Size[req[r].file]
    BY DEF ReplyIsContent
  <2>1. CASE req[r].kind = "read"
    <3>1. reply[r].lo = req[r].off /\ reply[r].hi = End(r)
      <4>1. reply[r] = readReply(r)
        BY <2>1 DEF FileInv, ReplyInv
      <4>. QED  BY <4>1 DEF readReply
    <3>2. req[r].off \in Nat /\ req[r].len \in Nat /\ Size[req[r].file] \in Nat
      BY EndType DEF FileInv, TypeOK
    <3>3. End(r) = IF req[r].off + req[r].len > Size[req[r].file] THEN Size[req[r].file]
                   ELSE req[r].off + req[r].len
      BY DEF End
    <3>. QED  BY <2>1, <3>1, <3>2, <3>3
  <2>2. CASE req[r].kind # "read"
    BY <2>2 DEF FileInv, ReplyInv
  <2>. QED  BY <2>1, <2>2
<1>. QED  BY FileInvariant, <1>1, PTL

(* A request that was answered has no plaintext left, and on a kernel that *)
(* trims its reads none is left to the garbage collector.                  *)
THEOREM BuffersSafe == Spec => []BuffersFreed
<1>1. FileInv => BuffersFreed
  BY DEF FileInv, CountInv, BufferInv, Buffered, BuffersFreed
<1>. QED  BY FileInvariant, <1>1, PTL

-----------------------------------------------------------------------------
Alive == {r \in Reqs: buf[r] = "alive"}
Decrypting == {r \in Reqs: at[r] = "decrypt"}
Taken == {f \in Files: mu[f] # None}

(* Two requests never decrypt the same file at once: there are not more of *)
(* them than files.                                                        *)
LEMMA FewDecrypt ==
    ASSUME FileInv, NEW S \in SUBSET Files,
           \A r \in Decrypting: req[r].file \in S
    PROVE  /\ IsFiniteSet(S) /\ IsFiniteSet(Decrypting)
           /\ Cardinality(Decrypting) <= Cardinality(S)
<1>. DEFINE fileOf == [r \in Decrypting |-> req[r].file]
<1>1. IsFiniteSet(S)
  BY ConstantsAssumption, FS_Subset
<1>2. fileOf \in Injection(Decrypting, S)
  <2>1. fileOf \in [Decrypting -> S]
    OBVIOUS
  <2>2. \A a, b \in Decrypting: fileOf[a] = fileOf[b] => a = b
    BY DEF FileInv, MutexInv, Decrypting, Holding
  <2>. QED  BY <2>1, <2>2 DEF Injection, IsInjective
<1>. QED  BY <1>1, <1>2, FS_Injection

(* However many requests there are, at most one buffer each and one key    *)
(* for each file whose mutex is taken.                                     *)
THEOREM MemoryBounded == Spec => []LockedMemoryBounded
<1>1. FileInv => LockedMemoryBounded
  <2>. SUFFICES ASSUME FileInv PROVE LockedMemoryBounded
    OBVIOUS
  <2>1. \A r \in Decrypting: req[r].file \in Taken
    BY ConstantsAssumption DEF FileInv, TypeOK, MutexInv, RequestInv, Decrypting, Taken, Holding
  <2>2. IsFiniteSet(Taken) /\ Cardinality(Decrypting) <= Cardinality(Taken)
    BY <2>1, FewDecrypt DEF Taken
  <2>3. Alive \subseteq inFlight /\ IsFiniteSet(inFlight)
    BY ConstantsAssumption, FS_Subset DEF FileInv, BufferInv, Buffered, Alive, inFlight
  <2>4. Cardinality(Alive) <= Cardinality(inFlight)
    BY <2>3, FS_Subset
  <2>5. IsFiniteSet(Alive) /\ IsFiniteSet(Decrypting)
    BY ConstantsAssumption, FS_Subset DEF Alive, Decrypting
  <2>6. /\ Cardinality(Alive) \in Nat /\ Cardinality(Decrypting) \in Nat
        /\ Cardinality(inFlight) \in Nat /\ Cardinality(Taken) \in Nat
    BY <2>2, <2>3, <2>5, FS_CardinalityType
  <2>7. leaked \in Nat /\ errors \in Nat /\ lost = 2 * errors
    <3>1. leaked \in Nat /\ errors \in 0..MaxErrors /\ lost = 2 * errors
      BY DEF FileInv, TypeOK, CountInv
    <3>. QED  BY <3>1, ConstantsAssumption
  <2>. QED  BY <2>2, <2>4, <2>6, <2>7 DEF LockedMemoryBounded, Locked, Alive, Decrypting, Taken
<1>. QED  BY FileInvariant, <1>1, PTL

(* With Ample memory there is room for one more buffer or key, whenever a  *)
(* request is about to ask for it: it holds a mutex, so that all others    *)
(* are busy with other files.                                              *)
LEMMA RoomForOne ==
    ASSUME FileInv, Ample, NEW r \in Reqs, at[r] \in {"open", "view"}
    PROVE  ~(Locked >= host.lockLimit)
<1>. DEFINE others == Files \ {req[r].file}
<1>1. req[r].file \in Files /\ mu[req[r].file] = r
  BY DEF FileInv, RequestInv, MutexInv, Holding
<1>2. \A a \in Decrypting: req[a].file \in others
  BY <1>1 DEF FileInv, RequestInv, MutexInv, Decrypting, Holding
<1>3. IsFiniteSet(Decrypting) /\ Cardinality(Decrypting) <= Cardinality(others)
  BY <1>2, FewDecrypt
<1>4. Cardinality(others) = Cardinality(Files) - 1
  BY <1>1, ConstantsAssumption, FS_RemoveElement
<1>5. IsFiniteSet(Alive) /\ Cardinality(Alive) <= Cardinality(Reqs)
  BY ConstantsAssumption, FS_Subset DEF Alive
<1>6. /\ Cardinality(Alive) \in Nat /\ Cardinality(Decrypting) \in Nat
      /\ Cardinality(Reqs) \in Nat /\ Cardinality(Files) \in Nat
  BY <1>3, <1>5, ConstantsAssumption, FS_CardinalityType
<1>7. leaked = 0 /\ errors \in 0..MaxErrors /\ lost = 2 * errors
  BY DEF FileInv, TypeOK, CountInv, Ample
<1>8. host.lockLimit \in Nat
  BY ConstantsAssumption DEF FileInv, TypeOK
<1>9. host.lockLimit >= Cardinality(Reqs) + Cardinality(Files) + 2 * MaxErrors
  BY DEF Ample
<1>. QED
  BY <1>3, <1>4, <1>5, <1>6, <1>7, <1>8, <1>9, ConstantsAssumption
     DEF Locked, Alive, Decrypting

LEMMA NoCrashNext == FileInv /\ NoCrashWhenAmple /\ [Next]_vars => NoCrashWhenAmple'
<1>. SUFFICES ASSUME FileInv, NoCrashWhenAmple, [Next]_vars PROVE NoCrashWhenAmple'
  OBVIOUS
<1>0. host' = host
  <2>1. ASSUME NEW r \in Reqs, Issue(r) \/ Deliver(r) PROVE host' = host
    BY <2>1 DEF Issue, Deliver
  <2>2. ASSUME NEW r \in Reqs, Serve(r) PROVE host' = host
    BY <2>2 DEF Serve, Answer, Lock, OpenBuffer, ViewKey, Decrypt, GetattrReturn, ReadReturn,
                Bytes, WriteReply, Panic
  <2>3. CASE Collect \/ UNCHANGED vars
    BY <2>3 DEF Collect, vars
  <2>. QED  BY <2>1, <2>2, <2>3 DEF Next
<1>. SUFFICES ASSUME Ample PROVE crash' \in {"none", "nil enclave"}
  BY <1>0 DEF NoCrashWhenAmple, Ample
<1>1. crash \in {"none", "nil enclave"}
  BY DEF NoCrashWhenAmple
<1>2. ASSUME NEW r \in Reqs, OpenBuffer(r) PROVE crash' \in {"none", "nil enclave"}
  <2>1. at[r] = "open" => ~(Locked >= host.lockLimit)
    BY RoomForOne
  <2>. QED  BY <1>1, <1>2, <2>1 DEF OpenBuffer, Panic
<1>3. ASSUME NEW r \in Reqs, ViewKey(r) PROVE crash' \in {"none", "nil enclave"}
  <2>1. at[r] = "view" => ~(Locked >= host.lockLimit)
    BY RoomForOne
  <2>. QED  BY <1>1, <1>3, <2>1 DEF ViewKey, Panic
<1>4. ASSUME NEW r \in Reqs, Bytes(r) PROVE crash' \in {"none", "nil enclave"}
  <2>1. CASE at[r] = "bytes"
    <3>1. req[r].kind = "read" /\ reply[r] = readReply(r)
      BY <2>1 DEF FileInv, ReplyInv
    <3>2. reply[r].lo = req[r].off /\ reply[r].hi = End(r)
      BY <3>1 DEF readReply
    <3>3. reply[r].lo \in Nat /\ reply[r].hi \in Nat /\ reply[r].lo < reply[r].hi
      BY <2>1, <3>1, <3>2, EndType DEF Ample
    <3>4. buf[r] = "alive"
      BY <2>1 DEF FileInv, BufferInv, Buffered
    <3>5. ~(buf[r] # "alive" \/ reply[r].lo > reply[r].hi)
      BY <3>3, <3>4
    <3>. QED  BY <1>1, <1>4, <3>5 DEF Bytes
  <2>2. CASE at[r] # "bytes"
    BY <1>1, <1>4, <2>2 DEF Bytes, Step
  <2>. QED  BY <2>1, <2>2
<1>5. ASSUME NEW r \in Reqs,
             Issue(r) \/ Answer(r) \/ Lock(r) \/ Decrypt(r) \/ GetattrReturn(r)
             \/ ReadReturn(r) \/ WriteReply(r) \/ Deliver(r)
      PROVE  crash' \in {"none", "nil enclave"}
  BY <1>1, <1>5 DEF Issue, Answer, Lock, Decrypt, GetattrReturn, ReadReturn, WriteReply, Deliver
<1>6. CASE Collect \/ UNCHANGED vars
  BY <1>1, <1>6 DEF Collect, vars
<1>. QED  BY <1>2, <1>3, <1>4, <1>5, <1>6 DEF Next, Serve

(* Files with a content never take the daemon down, for any number of      *)
(* them, when the memory that may be locked is Ample: no buffer is used    *)
(* after it was destroyed, no slice is out of range, no mlock fails.       *)
THEOREM NoCrash == Spec => []NoCrashWhenAmple
<1>1. Init => NoCrashWhenAmple
  BY DEF Init, NoCrashWhenAmple
<1>. QED  BY FileInvariant, NoCrashNext, <1>1, PTL DEF Spec
=============================================================================
