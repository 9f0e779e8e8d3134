# A TLA+ verification of gpgfs

gpgfs mounts a directory of `.gpg` files as a read-only file system of their
plaintexts. `gpgfs mount` reads a key, mounts, decrypts everything once into
memory and serves it until it is told to stop; a systemd unit keeps it running.
This directory holds TLA+ models of it, TLC configurations that check them on
small instances, and proofs that TLAPS checks for all instances.

All paths below are relative to `src/`.

## The system

| component | state | operations | interacts with |
|---|---|---|---|
| process lifecycle, `cli/cli.go` (`Before`, `MountAction`, `Run`) | WaitGroup `running`, channels `done`, `errc` (1 slot), `sig` (1 slot), the context of `--duration` | build the components in the order the container resolves them, select loop, wait, exit | everything below |
| profilers, `cli/pprof.go` | two files | write and `os.Exit` when the context ends | the context |
| config, `pkg/config` | the configuration | `Load` (sources, environment, defaults), `Validate`, `Update` from etcd watchers | every command loads it, `config push` twice |
| bus, `pkg/bus` | `bus.Config` (1 slot) | send, drain | watchers, main loop |
| telemetry server, `pkg/telemetry` | a listener | `ListenAndServe`, `Shutdown` | `errc`, `done`, `running` |
| server and middleware, `pkg/server` | four metrics, the gauge of scrapes, echo's response beside what is on the wire | logger, telemetry, recover, body limit, handler, error handler, two timeouts | concurrent requests, which count each other's metrics |
| fuse, `pkg/fuse/fuse.go` | the inode tree | `New`, `Mount`, `Preload` | kernel requests from `Mount` on |
| files, `pkg/fuse/file.go` | a mutex and an enclave for each file | `Getattr`, `Read` and stateless handlers | FUSE library, memguard |
| keys, `pkg/fuse/key.go` | none | parse or convert a key, encrypt, decrypt | preload, message tools |
| tools in `cli/cli.go` | locked buffers | convert keys, encrypt and decrypt messages, show, validate and push configurations | files and standard streams, somebody who edits them |
| systemd unit, `nix/service.nix` | the unit's state | restart on failure | exit code, READY |
| container, `pkg/crypto/container` | a validity window and a map under an RWMutex | `Refresh`, `Set`, `Del`, `Clean`, `Get`, `Data`; `Validate` and `Marshal` without the lock | goroutines of whoever uses the library |
| semaphore, `pkg/sync` | a channel of tokens | `NewSemaphore`, `Post`, `Wait`, `TryWait` | goroutines of whoever uses the library |
| secretbox, reflect, CORS, errors | none | libraries not used by the program | - |

What is hard about it: the order in which goroutines are started, counted and
told to stop; what happens to the mountpoint on each of the many ways out of the
process, and to the next process then; a tree that is served while it is being
built; the order of the walk deciding between names that collide; plaintext
buffers that outlive the lock and the handler that made them, in memory of
which there is little; metrics that are updated one by one while others read
them one by one; methods with a lock beside functions without one. `PROJECT.json` lists these hazards line by line.

What makes the components correct:

* lifecycle: the WaitGroup is never driven negative; exit code 0 after `Wait`
  means the unmounter has finished; READY means the whole tree; a stop signal
  ends the process; the mountpoint is never mounted over or given up unasked;
* preload: the tree is the one the source directory stands for, whatever else
  is in it, and only ever grows; a file is lost only to another one; no panic,
  but for files named `.gpg`, `..gpg` or `...gpg`;
* files: replies are the content; no request takes the daemon down, keeps a
  mutex or keeps plaintext; locked memory is bounded;
* tools: exit code 0 can be trusted; an encrypted message can be decrypted; a
  command that fails spoils one file at most;
* server: every request ends, is answered once (or twice after a panic that
  follows the answer) and, if it is answered, counted in all metrics alike; only
  the Prometheus library fails without a line in the log; a scrape shows
  whatever was answered before it;
* container and semaphore: methods are atomic for each other; no token is lost.

## Modules

| module | models | state and actions |
|---|---|---|
| `Daemon` | `MountAction`, `Before`, `pprof.go` | one variable for each channel, goroutine and counter; `pc` is the stage of the main goroutine; one action for each provider, each case of the select, each goroutine's step |
| `Lifecycle` | nothing: the abstract specification | phase, mountpoint, whether a release was tried |
| `Service` | `nix/service.nix` around `Daemon` | `Restart` starts a new process that inherits the mountpoint only |
| `DaemonProofs` | - | theorems about `Daemon` |
| `Preload` | `Fuse.Preload` | the walk (`todo`, `path`), the callback (`state`, `rest`, `parent`, `mode`) and the inode tree |
| `File` | `file.go` with the part of go-fuse and memguard around it | where each request is, mutexes, buffers, replies |
| `Telemetry` | `pkg/server` around the handler of `pkg/telemetry` | where each request is, the error its chain returned, echo's status, what was sent, the metrics, what a scrape has collected |
| `Tools` | the key, message and configuration commands with `key.go` | the files, the stage of the command, its key, what is left of its input, the configuration it loads, locked buffers |
| `Config` | `Load`, `Default` and `Validate` | operators: overlay, defaults, validation |
| `AtomicContainer` | nothing: the abstract specification | window and payload, what each goroutine asks and has been answered |
| `Container` | `pkg/crypto/container` | the fields, the RWMutex, where each goroutine is in its call and what it has read |
| `Semaphore` | `pkg/sync` | the channel's length, who sleeps in `Wait`, the constructor's loop |
| `Shared` | a container and a semaphore used by the same goroutines | the variables of both |
| `DaemonProofs`, `FileProofs`, `PreloadProofs`, `ToolsProofs`, `TelemetryProofs`, `ContainerProofs`, `SemaphoreProofs`, `SharedProofs` | - | theorems about the module of that name, `DaemonProofs` also about `Service` |
| `MCDaemon`, `MCService`, `MCPreload`, `MCFile`, `MCTools`, `MCTelemetry`, `MCShared` | - | values of the constants for TLC |

Definitions called "Variant" are deliberately wrong versions of the definition
below them; `PROJECT.json` pairs each with the property that notices it.

### Daemon

The container (dig) builds the parameters of the last `Invoke` from left to
right, so that start-up is the sequence of stages `Startup`: context and
configuration, telemetry, `fuse.New`, `Mount`, `Preload`, the unmounter's
goroutine, `SdNotify`, `running.Add`, and last `signal.Notify`. The first
`Invoke` (`Graph`) ignores its error, and the configuration is then loaded a
second time. Each stage may fail while the bound `MaxFaults` lasts; a failing
main goroutine ends the process at once, with whatever goroutines it started.

`Exit` is the only way out. A live mount then goes stale: the kernel keeps it
in the mount table and every access answers ENOTCONN. `TargetStats` is what
`fuse.New` meets in the next process.

`TelemetryFinalize` leaves the listener alone, because `Shutdown` of the router
closes the `http.Server` embedded in it and `ListenAndServe` serves another.
Before `signal.Notify` the Go runtime dies of TERM, QUIT and HUP and ignores
USR1; afterwards a signal that finds the channel full is dropped. INT and USR2
are treated by the code as TERM and USR1 and are left out.

Left out: the content of configurations, keys and files, and logging.

### Lifecycle and the refinement

`Lifecycle` says what somebody who uses the mountpoint may rely on: a process
serves only with a mountpoint that is not stale, ends cleanly only after it
tried to release it, may die at any time, and ends once it was asked to stop.
`Daemon` implements it with `phase` computed from `pc` and `exit` and
`released` from the unmounter. TLC checks the refinement with fairness
(`ImplementsLifecycle`), TLAPS proves its safety part for all constants.

### Preload

File names are numbers, their ranks in byte order; `Stem` maps the names that
end in `.gpg` to what `TrimSuffix` leaves, which may be the empty name (0), `.`
(`Dot`) or `..` (`DotDot`). A prefix of a name sorts before it, which is all the
assumption `StemAssumption` says of plain names, and all that the absence of
panics rests on: the directory `x` is visited before `x.gpg`. Every AddChild is
a step, since the tree is being served.

The three stems are what `Rel` and `Clean` take out of a path (`Cleaned`): `a/.gpg`
and `a/..gpg` are mounted as a file `a`, and so is `a/b/...gpg`; at the top
`.gpg` and `..gpg` are mounted as `.`, `...gpg` as `..`, names that nothing else
takes. Such a file may come before the directory whose name it takes: a/..gpg
beside a/b.gpg makes Preload panic, and when it comes later it is hidden. So
`PanicOnlyByDots` names all three, `ServedTree` is about plain names, and
`HiddenOnlyByAnother` is about any names.

Attributes are reduced to their outcome: absent, four ways to fail, an owner that
was found, a `mode` at the top of the file (which the YAML decoder does not apply,
since `*FuseAttr` is embedded without `inline`) and one under `fuseattr` (which
it does). `Reference` says which modes are right, independently of the code:
0400, or what `fuseattr` gives; for a `mode` at the top it leaves both open
(`ModesFor`), since `README.md:51-62` shows such a file as the way to set a mode.
The source is a directory other than `/`, does not change during the walk, and the enclave of
the key opens (its panic is an outcome of `PreloadReturn` in `Daemon`).

### File

Requests run concurrently, each through the steps of its handler and of the
library around it: lock, allocate the content's buffer, view the key, decrypt,
return, slice, write and `Done`. `Locked` counts locked buffers. `host` is the
machine, chosen once: `lockLimit` is its RLIMIT_MEMLOCK in that unit, and
`trims` tells kernels that ask for nothing
at or after the size they were told from older ones that do. The content is the
interval of its byte positions, so that a reply is right when it is the right
interval.

### Tools

One command runs at a time, on files that persist from one to the next. A
content is a sequence of items: PEM blocks, OpenPGP keys, texts, ciphertexts.
Every command opens its input, then its output with `O_TRUNC`, and only then
reads: message commands the key, all of them the input. `convert` goes through
the PEM blocks of its input and ignores everything else; each key it has
converted stays in a locked buffer until the action returns, since the `defer`
is in the loop. `WriteMessage` is the single write of a message command, whose
error is returned; the errors of `convert`'s writes are ignored (`dropped`). `Kind`
says of every key that `NewKeyFromSSH` understands what it is; of those only RSA
keys can encrypt or decrypt: the entity it builds has no subkey, and an EdDSA key
has no encryption of its own. `First` and `Rest` are `pem.Decode`: the block it
finds and what it leaves. A ciphertext may be there from the start (the file
`old` of the run); `Plaintexts` are what such were made from.

The configuration commands read everything before they write. `show`, `validate`
and `push` make the container load and validate the configuration (stage
"provide"); `validate` and `push` then load it again ("load"), and in between
`Edit` may change a source. The second load of `push` validates; that of
`validate` calls `config.Validate` on the whole configuration, which finds no
rule there and accepts what it read. A source is a file that holds a document,
that is empty, or that does not decode. A document gives values to some fields,
and a zero value cannot be told from a missing one: `Defaults` fills both.

`SuccessIsComplete` compares what was written with `Effective`, which is stated
without the loading order of the code: the last source that names a field, or
the environment, or the default. `OneFileSpoiled` compares the files with what
the command found (`before`).

What the model shows and no property forbids: a command that fails has emptied
its output already. `test/secrets/msg-ed25519.gpg`, a file of no bytes, is what
`message encrypt` leaves when its key is `test/ssh-key-ed25519`.

### Telemetry

Each request is a goroutine of net/http that goes down the chain built by
`server.New` and back: `Receive` is the way down to the handler or to the refusal
of the body limit or the router, `Count` and `Logger` are the way back up,
`Answer` is echo's error handler. The client is prompt, slow to send or slow to
read, and its path is or is not UTF-8. What is worth the model is that the
response is two things: the handler of the Prometheus library writes to the raw
connection (`sent`), and echo's `status` stays 200. So the metrics, which take
`status` when the chain returns, show 200 for every refusal (404, 405 and 413
are answered after they were counted) and for the library's own 500, which is
what the run `telemetry_codes` finds.
A scrape (`Collect`) takes the metrics one at a time in any order, and `Count`
updates them one at a time, in the order of the code; each is atomic, as the
library makes it.

`log` keeps who has logged something; `Level` is the level of such a line and
`Shown` what the configuration lets through, which is info and above by default.
The library's `ErrorLog` is an adapter whose `Println` is `Print` of the logger, of
level debug: its 500 and its failing writes leave nothing but the request's own
line, which says it succeeded. A write that times out may not be reported at all,
as the last one is left to the deferred `Close` of the gzip writer or to the
flush of net/http (`WriteTimeout`). net/http has a logger of its own, which is
always on and sees the panic of a label.

Left out: header names, log fields, durations and sizes (the metrics count
requests).

### Container, Semaphore and Shared

`Container` gives each method the steps between which another goroutine can
see a difference: entering the RWMutex (a writer announces itself, then waits
for the readers; readers that come later are parked and enter before the next
writer), the two assignments of `Refresh`, every entry that `Data` or `Marshal`
copies. A field read while it is being written is a data race, so `Seen` is any
time; a map written while `Marshal` iterates over it may stop the process.
`UnlockedNeedQuiet` is what the functions without lock can promise: undisturbed
by writers, they are right, and both ends of the window are outside it.

`AtomicContainer` is the container without locks: between a call and its return
each method takes effect, and finds its answer, at one moment. `Container`
implements it (`ImplementsAtomic`): `Refresh` has its moment when it assigns the
first of the two times (`window` is the one it is writing until it has written
both), the other writers when they write, `Get` and `Data` when they have read
the last entry they want. `MethodsAreAtomic` says less: that nobody sees half a
write, but not what a call did.

`Semaphore` models the loop of the constructor, since its callers can make it
block: with more tokens than the limit, or fewer than none, and only then, it
never returns (`TokensAccounted`).
A `Post` hands its token to a sleeper if there is one, which is what the channel
does and the reason why limit 0 works at all.

`Shared` composes them: a goroutine makes calls of both in any order, one at a
time.

## Runs

| run | instance | shows |
|---|---|---|
| `daemon` | telemetry and watchers on or off, and every combination of `--duration`, `--profile` and `--trace`; 2 signals, 2 updates, 2 faults; mountpoint free or stale | all invariants, the refinement with fairness, a stop signal and `--duration` end the process (`StopRequestsEndProcess`), watchers are not blocked |
| `service` | telemetry on or off, 2 signals, 2 faults over all restarts | a failure that leaves the mountpoint free is recovered from |
| `preload` | 4989 trees over the names `...gpg`, `..gpg`, `.gpg`, `a`, `a.gpg`, `b`, `b.gpg`, up to three levels deep | the served tree is the reference tree and only grows; a file is lost only to another one; only files of the first three names make Preload panic |
| `file` | 2 requests, files of 2 and 0 bytes, reads of up to 2 bytes at offsets up to 3, 1 failing enclave; a recent kernel with 6 buffers and an old one with 4 | right replies, no buffer left, the memory bound, no crash where memory is ample, every request is answered or the daemon is down |
| `tools` | 2 commands out of 171, three kinds of key, three chains, two documents of configuration, 3 locked buffers, 1 failing system call or edit by somebody else, kills | exit code 0 means complete, a failure spoils one file, what was encrypted can be decrypted, only long chains panic, commands end |
| `telemetry` | 2 requests of seven kinds (scrape, not found, method not allowed, with a body, not UTF-8, slow to send, slow to read), 3 metrics, 1 panic of the handler, failing collectors, the default log level | the metrics agree with the requests and with each other, a scrape shows what was answered before it, one answer, only the library fails silently, requests end |
| `shared` | 2 goroutines, 3 calls, two keys, two windows, a container of this version and of another; a semaphore with limit 0, with limit 1, and asked for -1 tokens or for 2 with limit 1 | methods are atomic, implement `AtomicContainer` and return, functions without lock are right when undisturbed, no token is lost |

Bounds. Two signals are one more than the channel holds; two updates likewise
for the bus; two faults let one failure meet another (a failed unmount after a
failed telemetry server); counters restart from nothing in a new process except
these. Trees of three levels with two names contain every relation two paths
can have: the same directory, one below a namesake of the other, two levels
apart; the twelve files of `DotFiles`, any of which may be missing, put each of the
three stems at every level, beside a plain file and without one. Two requests contend for one mutex or hold two; `lockLimit` 6 is exactly
one buffer and one view for each request and file and two lost in a failed
decryption, 4 is too little for that, so that the panics happen as well;
offsets reach one beyond the end. Two commands let one work on what the other
made, such as decrypting a file that was just encrypted or emptied; a chain of
three keys needs one buffer more than there is; one fault or edit falls into any
step, also between the two loads or two destinations. Of two requests one can
scrape while the other is between any two metrics, in a scrape sent before or
after the other's answer; the fourth metric is left out of the run because three
already have a first, a middle and a last (the theorems hold for any number).
Three calls of two goroutines are a writer, a second writer behind it and a
function without lock across both; the window of one `Refresh` ends inside the
other, so that a mixture of two is seen. Where a theorem states a property too, it holds
beyond these bounds.

Fairness. Main goroutine, goroutines and timers are weakly fair: the scheduler
runs what can run, and `select` picks at random among its ready cases, so a
ready case is not passed over for ever. `Unmount` is not assumed to end, nor
anything of the outside. In `File` the mutex is strongly fair: `sync.Mutex`
hands itself to a waiter that starves. In `Tools` the process runs and files
come to an end; standard input need not (`InputIsFile`). In `Telemetry` the
goroutine of a request runs and its timeouts expire, both of which are always
set: a timeout that is not positive is replaced by the default. In `Shared` the
goroutines run; that no writer starves comes from the RWMutex, which is modelled
with its announcement, and needs no strong fairness.

Runs that TLC refutes, each about a sentence of the repository:

| run | sentence | what happens |
|---|---|---|
| `daemon_duration` | `cli/cli.go:855` "wait for other running components to finish" | with `--duration` they are never told to finish; the grace timer ends the process with code 1 and the mount stays |
| `service_recovers` | `nix/service.nix:63` `Restart = "on-failure"` | after a failure with a live mount no restart gets past the stat of the target |
| `preload_any` | `README.md:31` "view decrypted contents of any `.gpg` file" | `a.gpg` is dropped beside a directory `a` that holds a secret |
| `file_empty` | `README.md:31` | a file with an empty plaintext ends the daemon when looked at |
| `telemetry_codes` | `pkg/server/middleware/telemetry_middleware.go:40` "How many HTTP requests processed, partitioned by status code" | a request that is refused with 404, 405 or 413 is counted under 200, and so is the 500 of a failing collector |

Seen while modelling, without a run:

* the finalizer of the telemetry server stops nothing, since `Shutdown` of the
  router closes another `http.Server` than the one that serves;
* a panic after the answer sends a second body (`OneAnswer`), and the failures of
  the Prometheus library are invisible at the default log level
  (`OnlyLibraryFailsSilently`);
* `pkg/fuse/file.go:116` "buf resources freed by readResult.Done()" is not so
  when the reply is empty: a read at the end of the file, which only a kernel that
  does not trim sends, leaves its buffer to the garbage collector. `BuffersFreed`
  says that no other kernel causes this;
* a `mode` at the top of a `.yml` file, as in `README.md:61`, is not applied, so
  that the file keeps 0400;
* `config validate` reports an edit between its loads as valid; `key convert` ends
  with code 0 when its writes fail; a key or message command whose output is its
  input works on the empty file it has just made. `SuccessIsComplete` leaves out
  these runs (`edited`, `dropped`, `InPlace`): it says nothing against them;
* `Validate` and `Marshal` race with the writers of a container, and
  `UnlockedNeedQuiet` excuses whatever a disturbed call says;
* `Unmarshal` into a container that is not empty merges the maps, and into one
  that `New` did not make it leaves the lock nil.

## Proofs

`DaemonProofs` assumes only that `Options` is a set of option records and that
the bounds are natural numbers.

`WaitGroupNeverNegative` is not inductive: it does not say why `Done` comes
after `Add`. `IInv` adds that the counter is exactly what is owed (the finalizer
while it waits, plus the unmounter from `RunningAdd` on, minus it when it has
finished), that `done` is closed only in stage "wait", that both goroutines act
only when it is closed, and what each stage of start-up has left behind. So when
a goroutine calls `Done` the process is in stage "wait", where the unmounter is
counted and the counter at least 1; and when `Wait` returns, the unmounter has
finished, which gives `CleanExitReleasesMount`. `UpdatesAccounted` bounds the
senders by the updates published, without which the type invariant is not
inductive. The end of a process is one lemma (`ExitType`, `ExitProtocol`,
`ExitRefines`) that carries the error path of every action.

Proved: `TypeCorrect`, `InductiveInvariant`, `WaitGroupSafe`, `CleanExitSafe`,
`ReadySafe`, `MountSafe` (an action property) and `Refinement`. The same
invariant is kept by `Restart`, since a new process begins as `Init` says but for
the mountpoint, which is free or stale (`ServiceInvariant`). So `ServiceSafe`: what holds of one
process holds of all that systemd starts in turn. `OutageIsPermanent` turns the
counterexample of `service_recovers` into a theorem: a stale mountpoint stays
stale (the only step that mounts is behind the stat of the target), and a
process that meets one is never ready and never in its loop.

`FileProofs`: `FileInv` gives every stage of a request its buffer (alive from
allocation to the write, `BufferInv`), its mutex (`MutexInv`, which
makes the files of the requests that hold one distinct) and, once
the handler has returned, its reply (`ReplyInv`). `ReplyCorrect` and
`BuffersSafe` follow at once; `MemoryBounded` counts: buffers inject into
requests in flight, views of the key into locked mutexes. `NoCrash` then shows
that the bound is below the limit at the two places that allocate.

`PreloadProofs`: `PreloadInv` ties the inodes to the walk. `Inodes`: every inode
is a directory or the file of a loadable path; `Position`: parent, what is left
of the path and the path are one path; `Ordered`: what was mounted precedes what
is being mounted and both precede what is to come. A file above the one being
mounted would have a stem that is a component of the path, so its directory
would sort before it (`NotInTheWay`), unless its stem is one that `Clean` takes
away. That is `PanicsOnlyByDots`; `TreeSound` and `GrowOnly` use the same facts.
`ServedSound` compares the tree with `Reference`, which looks at all paths at
once and knows no order. `ServedInv` says of the walk half done what the
reference says of it finished: a file was mounted with the mode of what is beside
it (`ModeRight`); whatever can be loaded and is behind the walk is there
(`Visited`); an inode is a directory exactly if the reference says so
(`Directories`), for which one needs that no other path leads to the same inode
(`InodePathInjective`) and, from the order again, that a directory was there
before the file of its name. `HiddenSound` needs less: what is at the path of a file
that is not mounted is there for another one (`Directories`, `Visited`), so it holds for any names. The
assumptions are that the names are numbered in an order where stems come first,
and that source trees are what the module calls `Trees`.

`TelemetryProofs`: what happens to a request is a matter of its own goroutine
(`Outcomes`), which gives `AnsweredOnce` and `OnlyLibrarySilent`: the lemmas
`RefusalTyped` and `SlowReaderKept` say which errors a chain returns and that a
slow reader stays one, `LoudIsWritten` that lines of level error
come out wherever errors are shown.
What requests have in common are counters, and the invariant says of each which
set of requests it is the cardinality of (`Counts`, `Gauge`); `Views` says that a
scrape has seen at least those that were over when it was sent. So `MetricsExact`
and `AnsweredVisible` hold for any number of requests and metrics.

`ContainerProofs`: `Locks` is the discipline of the RWMutex: one writer, no
reader beside it. From it `Atomic` (the window is one window, except in the middle
of a `Refresh`; what a reader holds is still so) is inductive, and `Quiet` says
the same of the functions without lock for as long as they are not disturbed.
`ContainerRefines` goes through the actions: a step of a lock changes nothing that
`AtomicContainer` shows, the second assignment of a `Refresh` makes true what
`window` already said (there is only one `Refresh` half done, by `Locks`), and when
`Data` has seen every key, what it holds is the payload (by `Atomic`).
`SemaphoreProofs`: `SemInv` keeps the account of the tokens through the loop of
the constructor (`left`) as well, which also says when it hangs. `SharedProofs` composes them: a step of one
component leaves the other's variables alone, or counts a call, so that both
invariants hold together (`SharedSafe`) and the refinement survives
(`SharedRefines`). It assumes that the callers of both are
the same goroutines.

`ToolsProofs` proves every safety property of the run. Its assumptions: a
command is one of the tools, and a configuration command names files, not
standard streams; at least two buffers can be locked; contents are sequences, also those
that ciphertexts were made from (`ContentsAssumption`). For `EncryptedSafe` the
inductive invariant `KeyInv` says that from its truncation until the single
write the output of a message command is empty, and that from `ReadKey` on the
key is the first of its file: an empty file has no key, so the output is not the
file of the key, and the write leaves the key where it is.
`OneSpoiledAtMost` proves `OneFileSpoiled` from `SpoilInv`, which says at each
stage which name may be spoiled: none before something is truncated, then the
output until the end, or the destination of `push` until it is written; what is
written there was validated by the second load. `TypeCorrect` carries the bound
on locked buffers. For `PanicsOnLongChains` and `SuccessComplete`, `ContentsInv` says that
all contents that ever occur, nested ones too, are sequences over one universe;
`MessageInv` that until its output is opened a message command finds all files as they were and
from then on all but its output; `ConvertInv` that what is left of the input is a
suffix of it and that, unless writes were dropped, the output holds the keys of
what was consumed: the n-th item is the n-th key (`HoldsUpTo`, by `HoldsOneMore`).
Each block holds one buffer, so the panic is met only behind `LockLimit` - 1
keys, with one more to come. `ConfigInv` follows a load through its
sources: after n of them a field has the value of the last one among the first n that names it (`HasRead`,
`ReadOneMore`), so that after all of them and the environment it is `Effective`
(`LoadedIsEffective`); and what `push` has written up to here is the
configuration (`PushInv`), whichever destination is written twice.

Only model-checked: everything with fairness (`StopRequestsEndProcess`,
`UpdatesDoNotBlockWatchers`, the liveness part of the refinement,
`RestartRecoversFreeMount`, `PreloadEnds`, `RequestsAnswered`, `CommandEnds`,
`RequestsEnd`, `CallsEnd`), since TLAPS 1.4.5 does not reason about `ENABLED`.
Every invariant and every action property that a passing run checks is proved;
`IInv`, which is no run's property, is checked by the proof alone.

## Not modelled

* `pkg/crypto` (secretbox): a nonce and a ciphertext around a library, one
  sequential function each way, without state; nothing of it depends on an order.
* `pkg/reflect`: a recursive walk over Go values, sequential and without state;
  what it does is what Go's reflection does.
* The API documents (generated), CORS and swagger middleware (settings handed to
  libraries, not used by the daemon), error constructors, the format of log lines, build
  metadata: no state and no order.
* `container.Unmarshal` and the transformations of the marshalled bytes
  (encryption, compression, encoding): sequential, on a container nobody else
  has yet.
* etcd: a watcher delivers an update to the bus (`Daemon`); as a source or a
  destination of `config` it is only a file that can fail. Written key by key, a
  failing push can leave part of a configuration there, which `Tools` does not show.
* The OpenPGP, FUSE, Prometheus and memguard libraries beyond what `File`,
  `Preload`, `Tools` and `Telemetry` use of them.
