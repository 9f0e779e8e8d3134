-------------------------------- MODULE File --------------------------------
(***************************************************************************)
(* The files of the mount: the handlers of pkg/fuse/file.go, called by the *)
(* FUSE library in a goroutine for each request of the kernel.             *)
(*                                                                         *)
(* The content of a file rests encrypted in a memguard enclave.  Opening   *)
(* it puts the plaintext into a buffer of locked memory, and the key of    *)
(* all enclaves into a second one for the time of the decryption.  Getattr *)
(* destroys its buffer under the mutex of the file; Read hands its buffer  *)
(* on, inside a readResult, to the library, which slices it, writes the    *)
(* reply and calls Done, after the mutex was released.  A failed mlock, a  *)
(* slice out of range and a nil enclave are panics that end the daemon.    *)
(***************************************************************************)
EXTENDS Integers, FiniteSets

CONSTANTS
    Reqs,         \* requests that may be in flight at the same time
    Files,        \* the files mounted
    Size,         \* [Files -> length of the plaintext]
    MaxLen,       \* bound: length of the buffer of a read
    MaxOffset,    \* bound: offset of a read that the kernel does not trim
    Hosts,        \* the machines under study: their kernel and RLIMIT_MEMLOCK
    MaxErrors,    \* bound: enclaves that fail to decrypt
    None          \* no request

ASSUME ConstantsAssumption ==
    /\ IsFiniteSet(Reqs) /\ IsFiniteSet(Files) /\ None \notin Reqs
    /\ Size \in [Files -> Nat]
    /\ MaxLen \in Nat \ {0} /\ MaxOffset \in Nat /\ MaxErrors \in Nat
    /\ Hosts \subseteq [trims: BOOLEAN, lockLimit: Nat]

VARIABLES
    host,    \* the machine, never changed: does its kernel ask only for what is
             \* before the end of a file, and how many buffers it lets be locked
    req,     \* [Reqs -> the request being served]
    at,      \* [Reqs -> where its goroutine is]
    mu,      \* [Files -> the request holding the mutex, or None]
    buf,     \* [Reqs -> is its buffer "none", "alive" or "destroyed"]
    reply,   \* [Reqs -> status and, as offsets, the slice or the size]
    leaked,  \* read buffers that only the garbage collector will free
    lost,    \* buffers of failed decryptions, which nothing frees
    errors,  \* decryptions that failed
    crash    \* the panic that ended the daemon, or "none"

vars == <<host, req, at, mu, buf, reply, leaked, lost, errors, crash>>

Kinds == {"getattr", "read", "open", "write", "setattr", "flush"}
Idle == [kind |-> "none", file |-> None, off |-> 0, len |-> 0]
NoReply == [status |-> "none", lo |-> 0, hi |-> 0]

Init ==
    /\ host \in Hosts
    /\ req = [r \in Reqs |-> Idle] /\ at = [r \in Reqs |-> "idle"]
    /\ mu = [f \in Files |-> None]
    /\ buf = [r \in Reqs |-> "none"] /\ reply = [r \in Reqs |-> NoReply]
    /\ leaked = 0 /\ lost = 0 /\ errors = 0
    /\ crash = "none"

Locked ==
    Cardinality({r \in Reqs: buf[r] = "alive"})
    + Cardinality({r \in Reqs: at[r] = "decrypt"}) + leaked + lost

Panic(why) ==
    crash' = why /\ UNCHANGED <<host, req, at, mu, buf, reply, leaked, lost, errors>>

Step(r, from, to) ==
    crash = "none" /\ at[r] = from /\ at' = [at EXCEPT ![r] = to]

-----------------------------------------------------------------------------
(* A request arrives.  The offsets of a read depend on the kernel: recent  *)
(* ones do not read at or beyond the size that Getattr told them.          *)
Offsets(f) == IF host.trims THEN {o \in 0..MaxOffset: o < Size[f]} ELSE 0..MaxOffset

Issue(r) ==
    \E f \in Files, k \in Kinds:
        /\ Step(r, "idle", IF k \in {"getattr", "read"} THEN "lock" ELSE "answer")
        /\ \/ /\ k = "read"
              /\ \E o \in Offsets(f), n \in 1..MaxLen:
                   req' = [req EXCEPT ![r] = [kind |-> k, file |-> f, off |-> o, len |-> n]]
           \/ /\ k # "read"
              /\ req' = [req EXCEPT ![r] = [kind |-> k, file |-> f, off |-> 0, len |-> 0]]
        /\ UNCHANGED <<host, mu, buf, reply, leaked, lost, errors, crash>>

(* The handlers without state: Open, Flush, Write and Setattr.             *)
Answer(r) ==
    /\ Step(r, "answer", "answered")
    /\ reply' = [reply EXCEPT ![r].status =
                    IF req[r].kind \in {"open", "flush"} THEN "OK" ELSE "ENOSYS"]
    /\ UNCHANGED <<host, req, mu, buf, leaked, lost, errors, crash>>

-----------------------------------------------------------------------------
(* Variant: content.Open() without the mutex.                              *)
LockNothing(r) ==
    /\ Step(r, "lock", "open")
    /\ UNCHANGED <<host, req, mu, buf, reply, leaked, lost, errors, crash>>

(* What Read and Getattr begin with: the mutex and content.Open().         *)
Lock(r) ==
    /\ Step(r, "lock", "open")
    /\ mu[req[r].file] = None
    /\ mu' = [mu EXCEPT ![req[r].file] = r]
    /\ UNCHANGED <<host, req, buf, reply, leaked, lost, errors, crash>>

(* The enclave of an empty plaintext is nil.                               *)
OpenBuffer(r) ==
    \/ /\ Step(r, "open", "view")
       /\ Size[req[r].file] > 0 /\ Locked < host.lockLimit
       /\ buf' = [buf EXCEPT ![r] = "alive"]
       /\ UNCHANGED <<host, req, mu, reply, leaked, lost, errors, crash>>
    \/ /\ crash = "none" /\ at[r] = "open" /\ Size[req[r].file] = 0
       /\ Panic("nil enclave")
    \/ /\ crash = "none" /\ at[r] = "open" /\ Size[req[r].file] > 0 /\ Locked >= host.lockLimit
       /\ Panic("mlock")

ViewKey(r) ==
    \/ /\ Step(r, "view", "decrypt")
       /\ Locked < host.lockLimit
       /\ UNCHANGED <<host, req, mu, buf, reply, leaked, lost, errors, crash>>
    \/ /\ crash = "none" /\ at[r] = "view" /\ Locked >= host.lockLimit
       /\ Panic("mlock")

Unlock(r) == mu' = [mu EXCEPT ![req[r].file] = None]

(* Variant: the mutex is not released by a defer but before the last       *)
(* return only.                                                            *)
DecryptKeepsMutex(r) ==
    \/ /\ Step(r, "decrypt", "opened")
       /\ UNCHANGED <<host, req, mu, buf, reply, leaked, lost, errors, crash>>
    \/ /\ errors < MaxErrors /\ errors' = errors + 1
       /\ Step(r, "decrypt", "answered")
       /\ buf' = [buf EXCEPT ![r] = "none"] /\ lost' = lost + 2
       /\ reply' = [reply EXCEPT ![r].status = "EIO"]
       /\ UNCHANGED <<host, req, mu, leaked, crash>>

(* The key is destroyed once the content is decrypted.  If decrypting      *)
(* fails both buffers are forgotten, and the handler answers EIO.          *)
Decrypt(r) ==
    \/ /\ Step(r, "decrypt", "opened")
       /\ UNCHANGED <<host, req, mu, buf, reply, leaked, lost, errors, crash>>
    \/ /\ errors < MaxErrors /\ errors' = errors + 1
       /\ Step(r, "decrypt", "answered")
       /\ Unlock(r)
       /\ buf' = [buf EXCEPT ![r] = "none"] /\ lost' = lost + 2
       /\ reply' = [reply EXCEPT ![r].status = "EIO"]
       /\ UNCHANGED <<host, req, leaked, crash>>

-----------------------------------------------------------------------------
(* Variant: Getattr does not destroy its buffer.                           *)
GetattrKeepsBuffer(r) ==
    /\ req[r].kind = "getattr"
    /\ Step(r, "opened", "answered")
    /\ reply' = [reply EXCEPT ![r] = [status |-> "OK", lo |-> 0, hi |-> Size[req[r].file]]]
    /\ Unlock(r)
    /\ UNCHANGED <<host, req, buf, leaked, lost, errors, crash>>

(* Getattr copies the attributes and the size, destroys the buffer and     *)
(* unlocks.                                                                *)
GetattrReturn(r) ==
    /\ req[r].kind = "getattr"
    /\ Step(r, "opened", "answered")
    /\ reply' = [reply EXCEPT ![r] = [status |-> "OK", lo |-> 0, hi |-> Size[req[r].file]]]
    /\ buf' = [buf EXCEPT ![r] = "none"]
    /\ Unlock(r)
    /\ UNCHANGED <<host, req, leaked, lost, errors, crash>>

(* Variant: the length of the buffer is taken for the end.                 *)
EndAtLength(r) ==
    IF req[r].len > Size[req[r].file] THEN Size[req[r].file] ELSE req[r].len

End(r) ==
    LET end == req[r].off + req[r].len IN
    IF end > Size[req[r].file] THEN Size[req[r].file] ELSE end

(* Variant: Read destroys its buffer when it returns, as Getattr does.     *)
ReadDestroysBuffer(r) ==
    /\ req[r].kind = "read"
    /\ Step(r, "opened", "bytes")
    /\ reply' = [reply EXCEPT ![r] = [status |-> "OK", lo |-> req[r].off, hi |-> End(r)]]
    /\ buf' = [buf EXCEPT ![r] = "destroyed"]
    /\ Unlock(r)
    /\ UNCHANGED <<host, req, leaked, lost, errors, crash>>

(* Read unlocks and returns a readResult that keeps the buffer alive.      *)
ReadReturn(r) ==
    /\ req[r].kind = "read"
    /\ Step(r, "opened", "bytes")
    /\ reply' = [reply EXCEPT ![r] = [status |-> "OK", lo |-> req[r].off, hi |-> End(r)]]
    /\ Unlock(r)
    /\ UNCHANGED <<host, req, buf, leaked, lost, errors, crash>>

(* The library takes the bytes: a slice [offset:end] of the buffer, whose  *)
(* data are nil once it is destroyed.                                      *)
Bytes(r) ==
    \/ /\ Step(r, "bytes", "write")
       /\ buf[r] = "alive" /\ reply[r].lo <= reply[r].hi
       /\ UNCHANGED <<host, req, mu, buf, reply, leaked, lost, errors, crash>>
    \/ /\ crash = "none" /\ at[r] = "bytes"
       /\ buf[r] # "alive" \/ reply[r].lo > reply[r].hi
       /\ Panic("slice out of range")

(* The library writes the reply and calls Done; a reply without data       *)
(* leaves by an earlier return, without Done.                              *)
WriteReply(r) ==
    /\ Step(r, "write", "answered")
    /\ buf' = [buf EXCEPT ![r] = "none"]
    /\ leaked' = IF reply[r].lo = reply[r].hi THEN leaked + 1 ELSE leaked
    /\ UNCHANGED <<host, req, mu, reply, lost, errors, crash>>

(* The kernel has the reply and passes it on.                              *)
Deliver(r) ==
    /\ Step(r, "answered", "idle")
    /\ req' = [req EXCEPT ![r] = Idle] /\ reply' = [reply EXCEPT ![r] = NoReply]
    /\ UNCHANGED <<host, mu, buf, leaked, lost, errors, crash>>

(* Variant: the finalizer also runs for buffers that Done destroyed.       *)
CollectTwice ==
    /\ crash = "none"
    /\ leaked' = leaked - 1
    /\ UNCHANGED <<host, req, at, mu, buf, reply, lost, errors, crash>>

(* A finalizer destroys a buffer that nobody refers to.                    *)
Collect ==
    /\ crash = "none" /\ leaked > 0
    /\ leaked' = leaked - 1
    /\ UNCHANGED <<host, req, at, mu, buf, reply, lost, errors, crash>>

Serve(r) ==
    \/ Answer(r) \/ Lock(r) \/ OpenBuffer(r) \/ ViewKey(r) \/ Decrypt(r)
    \/ GetattrReturn(r) \/ ReadReturn(r) \/ Bytes(r) \/ WriteReply(r)

Next ==
    \/ \E r \in Reqs: Issue(r) \/ Serve(r) \/ Deliver(r)
    \/ Collect

Spec == Init /\ [][Next]_vars

(* Goroutines run, and the mutex is handed to the goroutine that has       *)
(* waited for long: sync.Mutex has a starvation mode.                      *)
FairSpec == Spec /\ \A r \in Reqs: WF_vars(Serve(r)) /\ SF_vars(Lock(r))

-----------------------------------------------------------------------------
(* The types of the variables.                                             *)
TypeOK ==
    /\ host \in Hosts
    /\ req \in [Reqs -> [kind: Kinds \cup {"none"}, file: Files \cup {None},
                         off: 0..MaxOffset, len: 0..MaxLen]]
    /\ at \in [Reqs -> {"idle", "answer", "lock", "open", "view", "decrypt",
                        "opened", "bytes", "write", "answered"}]
    /\ mu \in [Files -> Reqs \cup {None}]
    /\ buf \in [Reqs -> {"none", "alive", "destroyed"}]
    /\ reply \in [Reqs -> [status: {"none", "OK", "EIO", "ENOSYS"}, lo: Nat, hi: Nat]]
    /\ leaked \in Nat /\ lost \in Nat /\ errors \in 0..MaxErrors
    /\ crash \in {"none", "nil enclave", "mlock", "slice out of range"}

(* Room for a buffer and a view of the key for every request and file, and *)
(* for what failed decryptions lose.                                       *)
Ample ==
    /\ host.trims
    /\ host.lockLimit >= Cardinality(Reqs) + Cardinality(Files) + 2 * MaxErrors

(* Files with a content never take the daemon down: their buffers live     *)
(* until they were sliced and written, although the mutex is gone by then, *)
(* and Ample memory is enough for all of them.                             *)
NoCrashWhenAmple == Ample => crash \in {"none", "nil enclave"}

(* "view decrypted contents of any .gpg file": no file takes the daemon    *)
(* down, whatever its content.                                             *)
NeverCrashes == crash = "none"

(* What a client is given is the content: of a read the bytes from its     *)
(* offset on, as many as it asked for and the file has; of Getattr the     *)
(* size, so that nothing is cut off or made up at the end of a file.       *)
ReplyIsContent ==
    \A r \in Reqs: at[r] = "answered" /\ reply[r].status = "OK" =>
        LET size == Size[req[r].file]
            slice == reply[r].lo .. (reply[r].hi - 1)
        IN  /\ req[r].kind = "read" =>
                 slice = {i \in req[r].off .. (req[r].off + req[r].len - 1) : i < size}
            /\ req[r].kind = "getattr" => reply[r].hi = size

(* Plaintext stays in memory only while a request is being served, if the  *)
(* kernel never asks for nothing: a request that was answered has no       *)
(* buffer, and none is left to the collector.                              *)
BuffersFreed ==
    /\ host.trims => leaked = 0
    /\ \A r \in Reqs: at[r] \in {"idle", "answered"} => buf[r] = "none"

inFlight == {r \in Reqs: at[r] \notin {"idle", "answered"}}

(* However many requests pile up, the mutexes keep the views of the key    *)
(* down to one for each file that is being opened.                         *)
LockedMemoryBounded ==
    Locked <= Cardinality(inFlight) + Cardinality({f \in Files: mu[f] # None})
              + leaked + 2 * errors

(* Every request is answered: no mutex stays locked, not even when an      *)
(* enclave fails to open.                                                  *)
RequestsAnswered ==
    \A r \in Reqs: (at[r] # "idle") ~> (at[r] = "answered" \/ crash # "none")
=============================================================================
