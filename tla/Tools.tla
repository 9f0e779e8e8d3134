------------------------------- MODULE Tools --------------------------------
(***************************************************************************)
(* The commands that end by themselves: key convert, message encrypt and   *)
(* decrypt; config show-default, show, validate and push.  They run one    *)
(* after another on the same files.  A key or message command opens its    *)
(* input, truncates its output, and only then reads key and input; a       *)
(* configuration command reads everything before it writes.                *)
(*                                                                         *)
(* A content is a sequence of items: PEM blocks, OpenPGP keys, texts,      *)
(* ciphertexts and documents of configuration.  What becomes of the bytes  *)
(* of an item is left to the OpenPGP library, or to that of YAML.          *)
(***************************************************************************)
EXTENDS Integers, Sequences, FiniteSets, Functions, Config

CONSTANTS
    Kind,         \* [keys that are understood -> "rsa" or "ed25519"]
    Disks,        \* initial file systems, functions from paths to contents
    Stdin,        \* the content of standard input
    Commands,     \* the command lines
    Edits,        \* contents that somebody else may give a configuration file
    Plaintexts,   \* what the messages that are already encrypted were made from
    LockLimit,    \* how many buffers RLIMIT_MEMLOCK lets the process lock
    MaxCommands,  \* bound: commands run
    MaxFaults     \* bound: failing system calls, and edits by others

Std == "-"
Pem(k) == [pem |-> k]
Pgp(k, type) == [pgp |-> k, type |-> type]
Enc(k, content) == [enc |-> k, of |-> content]
Doc(document) == [doc |-> document]

ConfigTools == {"show-default", "show", "validate", "push"}

ASSUME ConstantsAssumption ==
    /\ \A k \in DOMAIN Kind: Kind[k] \in {"rsa", "ed25519"}
    /\ \A d \in Disks: Std \notin DOMAIN d
    /\ \A c \in Commands:
        \/ c.tool \in {"convert", "encrypt", "decrypt"}
        \/ /\ c.tool \in ConfigTools
           /\ \A names \in {c.configs, c.outs}: names \in Seq(Range(names) \ {Std})
    /\ LockLimit \in Nat /\ LockLimit >= 2
    /\ MaxCommands \in Nat \ {0} /\ MaxFaults \in Nat

(* Every content is a sequence, what has been encrypted included.          *)
Found == {Stdin} \cup Edits \cup Plaintexts \cup UNION {Range(d) : d \in Disks}

ASSUME ContentsAssumption ==
    \A content \in Found:
        /\ content \in Seq(Range(content))
        /\ \A i \in DOMAIN content:
            "of" \in DOMAIN content[i] => content[i].of \in Plaintexts

VARIABLES
    file,     \* [paths that exist -> content]; at Std the output of the command
    cmd,      \* the command line, from Commands
    pc,       \* the stage of the command, or how it ended
    key,      \* the key of a message command
    chain,    \* the input that was read, of convert what is left of it;
              \* the sources to read or the destinations to write
    config,   \* the configuration that is being loaded
    held,     \* locked buffers that a defer destroys
    dropped,  \* convert has lost output without noticing
    before,   \* the file system when the command was started
    edited,   \* somebody else has changed a file meanwhile
    ran, faults

vars == <<file, cmd, pc, key, chain, config, held, dropped, before, edited, ran, faults>>

Ends == {"ok", "failed", "panic", "killed"}
NoKey == "none"

(* show, validate and push begin by loading the configuration: a logger,   *)
(* or the configuration itself, is what their actions ask the container    *)
(* for.                                                                    *)
Loads == {"show", "validate", "push"}
Entry(c) ==
    IF c.tool \in Loads THEN "provide" ELSE IF c.tool = "show-default" THEN "print" ELSE "input"
Sources(c) == IF c.tool \in Loads THEN c.configs ELSE << >>

Init ==
    /\ file \in Disks /\ before = file
    /\ cmd \in Commands /\ pc = Entry(cmd)
    /\ key = NoKey /\ chain = Sources(cmd) /\ config = Default
    /\ held = 0 /\ dropped = FALSE /\ edited = FALSE
    /\ ran = 1 /\ faults = 0

(* The action returns: its defers close the files and destroy the buffers. *)
End(how) ==
    /\ pc' = how /\ held' = 0
    /\ UNCHANGED <<file, cmd, key, chain, dropped, before, config, edited, ran>>

Return(how) == End(how) /\ UNCHANGED faults

(* A system call fails: no permission, a directory, a full disk.           *)
Fault == faults < MaxFaults /\ faults' = faults + 1 /\ End("failed")

(* Where the PEM blocks of a content are, and the key in the first of them.*)
PemsAt(content) == {i \in DOMAIN content: "pem" \in DOMAIN content[i]}
First(content) == CHOOSE i \in PemsAt(content): \A j \in PemsAt(content): i <= j
FirstKey(content) == content[First(content)].pem

(* What reading a name gives in a file system, nothing if there is no file.*)
Contents(disk, name) ==
    IF name = Std THEN Stdin ELSE IF name \in DOMAIN disk THEN disk[name] ELSE << >>

Exists(name) == name = Std \/ name \in DOMAIN file
Appended(name, item) == [file EXCEPT ![name] = Append(@, item)]

-----------------------------------------------------------------------------
(* Both names are opened before anything is read, the output with O_TRUNC. *)
OpenInput ==
    /\ pc = "input"
    /\ \/ /\ Exists(cmd.in) /\ pc' = "output"
          /\ UNCHANGED <<file, cmd, key, chain, held, dropped, before, config, edited, ran, faults>>
       \/ ~Exists(cmd.in) /\ Return("failed")

OpenOutput ==
    /\ pc = "output"
    /\ \/ /\ pc' = IF cmd.tool = "convert" THEN "read" ELSE "key"
          /\ file' = [p \in DOMAIN file \cup {cmd.out} |->
                        IF p = cmd.out THEN << >> ELSE file[p]]
          /\ UNCHANGED <<cmd, key, chain, held, dropped, before, config, edited, ran, faults>>
       \/ cmd.out # Std /\ Fault

(* os.ReadFile, NewKey and Open: the first PEM block of the content        *)
(* becomes an OpenPGP key in a locked buffer.                              *)
UseKey(content) ==
    \/ /\ PemsAt(content) # {} /\ FirstKey(content) \in DOMAIN Kind
       /\ pc' = "read" /\ key' = FirstKey(content) /\ held' = 1
       /\ UNCHANGED <<file, cmd, chain, dropped, before, config, edited, ran, faults>>
    \/ PemsAt(content) = {} /\ Return("failed")
    \/ PemsAt(content) # {} /\ FirstKey(content) \notin DOMAIN Kind /\ Return("failed")

(* Variant: the key is read before the output is opened.                   *)
ReadKeyEarly == pc = "key" /\ UseKey(Contents(before, cmd.key))

ReadKey == pc = "key" /\ UseKey(Contents(file, cmd.key))

ReadInput ==
    /\ pc = "read"
    /\ \/ /\ pc' = cmd.tool /\ chain' = Contents(file, cmd.in)
          /\ UNCHANGED <<file, cmd, key, held, dropped, before, config, edited, ran, faults>>
       \/ Fault

-----------------------------------------------------------------------------
(* A key that is not converted.                                            *)
Refused(k) == k \notin DOMAIN Kind \/ cmd.type \notin {"private", "public"}

(* What pem.Decode leaves behind the block it returns.                     *)
Rest == SubSeq(chain, First(chain) + 1, Len(chain))

(* A block was converted, with so many more buffers locked.  Errors of     *)
(* Fprint are not looked at.                                               *)
Converted(buffers) ==
    /\ held' = held + buffers /\ chain' = Rest
    /\ \/ /\ file' = Appended(cmd.out, Pgp(FirstKey(chain), cmd.type))
          /\ UNCHANGED <<dropped, faults>>
       \/ /\ faults < MaxFaults /\ faults' = faults + 1
          /\ dropped' = TRUE /\ UNCHANGED file
    /\ UNCHANGED <<cmd, pc, key, before, config, edited, ran>>

AtBlock(refused) ==
    pc = "convert" /\ PemsAt(chain) # {} /\ Refused(FirstKey(chain)) = refused

(* Variant: a block that is refused is tried again.                        *)
ConvertRetries ==
    \/ AtBlock(TRUE) /\ UNCHANGED vars
    \/ AtBlock(FALSE) /\ held + 2 > LockLimit /\ Return("panic")
    \/ AtBlock(FALSE) /\ held + 2 <= LockLimit /\ Converted(1)

(* Variant: the view of the memguard key is not destroyed.                 *)
ConvertKeepsView ==
    \/ AtBlock(TRUE) /\ Return("failed")
    \/ AtBlock(FALSE) /\ held + 2 > LockLimit /\ Return("panic")
    \/ AtBlock(FALSE) /\ held + 2 <= LockLimit /\ Converted(2)

(* Variant: a failed mlock is not a panic.                                 *)
ConvertUnlocked ==
    \/ AtBlock(TRUE) /\ Return("failed")
    \/ AtBlock(FALSE) /\ Converted(1)

(* One round of the loop.  The defer in it destroys the buffer only when   *)
(* the whole action returns; opening the next one takes a second buffer    *)
(* for a moment.                                                           *)
ConvertBlock ==
    \/ AtBlock(TRUE) /\ Return("failed")
    \/ AtBlock(FALSE) /\ held + 2 > LockLimit /\ Return("panic")
    \/ AtBlock(FALSE) /\ held + 2 <= LockLimit /\ Converted(1)

ConvertDone == pc = "convert" /\ PemsAt(chain) = {} /\ Return("ok")

(* The single write at the end of a message command; a failing one is      *)
(* taken to write nothing.                                                 *)
WriteMessage(content) ==
    \/ /\ file' = [file EXCEPT ![cmd.out] = content]
       /\ pc' = "ok" /\ held' = 0
       /\ UNCHANGED <<cmd, key, chain, dropped, before, config, edited, ran, faults>>
    \/ Fault

(* Only RSA keys can encrypt: an ed25519 key has no subkey that could.     *)
Encrypt ==
    /\ pc = "encrypt"
    /\ \/ Kind[key] = "rsa" /\ WriteMessage(<<Enc(key, chain)>>)
       \/ Kind[key] # "rsa" /\ Return("failed")

(* The whole input is one message, encrypted to the key.                   *)
Encrypted ==
    /\ Len(chain) = 1 /\ "of" \in DOMAIN Head(chain)
    /\ chain = <<Enc(key, Head(chain).of)>>

(* Variant: an error of Decrypt is not returned.                           *)
DecryptIgnoresError ==
    /\ pc = "decrypt"
    /\ WriteMessage(IF Encrypted THEN Head(chain).of ELSE << >>)

Decrypt ==
    /\ pc = "decrypt"
    /\ \/ Encrypted /\ WriteMessage(Head(chain).of)
       \/ ~Encrypted /\ Return("failed")

-----------------------------------------------------------------------------
(* config.Load: the sources overlay each other in their order,             *)
Loading == pc \in {"provide", "load"}

IsDocument(content) ==
    \/ content = << >>
    \/ Len(content) = 1 /\ "doc" \in DOMAIN Head(content)

ReadSource ==
    /\ Loading /\ chain # << >>
    /\ LET name == Head(chain)
           fits == name \in DOMAIN file /\ IsDocument(file[name])
       IN  \/ /\ fits /\ chain' = Tail(chain)
              /\ config' = IF file[name] = << >> THEN config
                           ELSE Overlay(config, Head(file[name]).doc)
              /\ UNCHANGED <<file, cmd, pc, key, held, dropped, before, edited, ran, faults>>
           \/ ~fits /\ Return("failed")
           \/ Fault

(* then the environment; then defaults and validation.                     *)
Loaded == Defaults(Overlay(config, Environ))

(* Variant: push leaves validation to the first load, as validate does.    *)
ValidatesOnce == pc = "provide"

(* The load of the container validates, and the second one of push.        *)
Validates == pc = "provide" \/ cmd.tool = "push"

LoadDone ==
    /\ Loading /\ chain = << >>
    /\ \/ /\ Validates => Validate(Loaded)
          /\ \/ /\ pc = "provide" /\ cmd.tool = "show"
                /\ pc' = "print" /\ config' = Loaded /\ UNCHANGED chain
             \/ /\ pc = "provide" /\ cmd.tool # "show"
                /\ pc' = "load" /\ config' = Default /\ chain' = cmd.configs
             \/ /\ pc = "load" /\ cmd.tool = "validate"
                /\ pc' = "ok" /\ config' = Loaded /\ UNCHANGED chain
             \/ /\ pc = "load" /\ cmd.tool = "push" /\ cmd.outs # << >>
                /\ pc' = "push" /\ config' = Loaded /\ chain' = cmd.outs
          /\ UNCHANGED <<file, cmd, key, held, dropped, before, edited, ran, faults>>
       \/ Validates /\ ~Validate(Loaded) /\ Return("failed")
       \/ pc = "load" /\ cmd.tool = "push" /\ cmd.outs = << >> /\ Return("failed")

Rewritten(name, content) ==
    [p \in DOMAIN file \cup {name} |-> IF p = name THEN content ELSE file[p]]

(* show-default and show write to standard output.                         *)
Show ==
    /\ pc = "print"
    /\ \/ /\ file' = Rewritten(Std, <<Doc(config)>>) /\ pc' = "ok"
          /\ UNCHANGED <<cmd, key, chain, config, held, dropped, before, edited, ran, faults>>
       \/ Fault

(* push takes one destination after another: ToFile truncates it,          *)
OpenDestination ==
    /\ pc = "push" /\ chain # << >>
    /\ \/ /\ file' = Rewritten(Head(chain), << >>) /\ pc' = "write"
          /\ UNCHANGED <<cmd, key, chain, config, held, dropped, before, edited, ran, faults>>
       \/ Fault

(* marshals and writes.                                                    *)
WriteDestination ==
    /\ pc = "write"
    /\ \/ /\ file' = Rewritten(Head(chain), <<Doc(config)>>)
          /\ pc' = "push" /\ chain' = Tail(chain)
          /\ UNCHANGED <<cmd, key, config, held, dropped, before, edited, ran, faults>>
       \/ Fault

PushDone == pc = "push" /\ chain = << >> /\ Return("ok")

-----------------------------------------------------------------------------
(* Somebody edits a configuration file while a command is running.         *)
Edit ==
    /\ cmd.tool \in Loads /\ pc \notin Ends
    /\ faults < MaxFaults /\ faults' = faults + 1
    /\ \E i \in DOMAIN cmd.configs, content \in Edits:
        /\ cmd.configs[i] \in DOMAIN file
        /\ file' = [file EXCEPT ![cmd.configs[i]] = content]
    /\ edited' = TRUE
    /\ UNCHANGED <<cmd, pc, key, chain, config, held, dropped, before, ran>>

Kill == pc \notin Ends /\ Return("killed")

(* The next command; its standard output is a new one.                     *)
Start ==
    /\ pc \in Ends /\ ran < MaxCommands /\ ran' = ran + 1
    /\ file' = [p \in DOMAIN file \ {Std} |-> file[p]] /\ before' = file'
    /\ cmd' \in Commands /\ pc' = Entry(cmd')
    /\ key' = NoKey /\ chain' = Sources(cmd') /\ config' = Default
    /\ held' = 0 /\ dropped' = FALSE /\ edited' = FALSE
    /\ UNCHANGED faults

Work ==
    \/ OpenInput \/ OpenOutput \/ ReadKey \/ ConvertBlock \/ ConvertDone
    \/ Encrypt \/ Decrypt
    \/ ReadSource \/ LoadDone \/ Show \/ OpenDestination \/ WriteDestination \/ PushDone

InputIsFile == cmd.tool \in ConfigTools \/ cmd.in # Std

Next == Work \/ ReadInput \/ Edit \/ Kill \/ Start

Spec == Init /\ [][Next]_vars

(* The process runs, and files come to an end; standard input need not.    *)
FairSpec == Spec /\ WF_vars(Work) /\ WF_vars(ReadInput /\ InputIsFile)

-----------------------------------------------------------------------------
(* The types of the variables.                                             *)
TypeOK ==
    /\ cmd \in Commands
    /\ pc \in {"input", "output", "key", "read", "convert", "encrypt", "decrypt",
              "provide", "load", "print", "push", "write"} \cup Ends
    /\ key \in DOMAIN Kind \cup {NoKey}
    /\ DOMAIN config = Fields
    /\ held \in 0..(LockLimit - 1) /\ {dropped, edited} \subseteq BOOLEAN
    /\ ran \in 1..MaxCommands /\ faults \in 0..MaxFaults
    /\ Std \notin DOMAIN before

(* Has the command written its result, of the files as it found them?      *)
MessageComplete ==
    LET input == Contents(before, cmd.in)
        output == file[cmd.out]
        UpTo(i) == Cardinality({j \in PemsAt(input): j <= i})
    IN  CASE cmd.tool = "convert" ->
               /\ Len(output) = Cardinality(PemsAt(input))
               /\ \A i \in PemsAt(input): output[UpTo(i)] = Pgp(input[i].pem, cmd.type)
          [] cmd.tool = "encrypt" ->
               output = <<Enc(FirstKey(Contents(before, cmd.key)), input)>>
          [] cmd.tool = "decrypt" ->
               input = <<Enc(FirstKey(Contents(before, cmd.key)), output)>>

InPlace == cmd.in = cmd.out /\ cmd.in # Std

(* The configuration of the files in question: the last word about a field *)
(* is that of the environment, else of the last file that names it, unless *)
(* it is the zero value.                                                   *)
Effective ==
    [f \in Fields |->
       LET naming == {i \in DOMAIN cmd.configs:
                        LET content == before[cmd.configs[i]]
                        IN  content # << >> /\ f \in DOMAIN content[1].doc}
           last == CHOOSE i \in naming: \A j \in naming: j <= i
           word == IF f \in DOMAIN Environ THEN Environ[f]
                   ELSE IF naming = {} THEN Zero
                   ELSE before[cmd.configs[last]][1].doc[f]
       IN  IF word = Zero THEN Fallback[f] ELSE word]

ConfigComplete ==
    /\ cmd.tool = "show-default" => file[Std] = <<Doc(Default)>>
    /\ cmd.tool \in Loads => Validate(Effective)
    /\ cmd.tool = "show" => file[Std] = <<Doc(Effective)>>
    /\ cmd.tool = "push" =>
        \A i \in DOMAIN cmd.outs: file[cmd.outs[i]] = <<Doc(Effective)>>

(* Exit code 0 means that the output holds the whole result: of every key  *)
(* in the chain, in order, of the message, or of the configuration, at     *)
(* every destination and even in place.  Not so when a key or message      *)
(* command is run in place, whose input is gone before it is read, nor     *)
(* when a write of convert fails, which it does not notice.                *)
SuccessIsComplete ==
    pc = "ok" =>
        IF cmd.tool \in ConfigTools THEN ~edited => ConfigComplete
        ELSE ~InPlace /\ ~dropped => MessageComplete

Unchanged(name) ==
    /\ name \in DOMAIN file <=> name \in DOMAIN before
    /\ name \in DOMAIN file => file[name] = before[name]

(* A command that fails or is killed, and even one that is still running,  *)
(* has spoiled at most one file, which it had just truncated.  The other   *)
(* destinations of a push are as they were or hold a valid configuration,  *)
(* also when the sources are edited between its two loads.                 *)
OneFileSpoiled ==
    \E spoiled \in DOMAIN file \cup {Std}:
        \A name \in (DOMAIN file \cup DOMAIN before) \ {spoiled, Std}:
            \/ Unchanged(name)
            \/ edited /\ file[name] \in Edits
            \/ /\ cmd.tool = "push" /\ name \in DOMAIN file
               /\ file[name] # << >> /\ Validate(file[name][1].doc)

(* A message that encrypt reported as encrypted can be decrypted: the key  *)
(* is still in its file.  With the key as the output both would be lost,   *)
(* and the order of opening and reading makes that command fail instead.   *)
EncryptedCanBeRead ==
    pc = "ok" /\ cmd.tool = "encrypt" =>
        /\ PemsAt(Contents(file, cmd.key)) # {}
        /\ FirstKey(Contents(file, cmd.key)) = key

(* Only a chain of keys as long as the memory can hold makes convert       *)
(* panic; the message commands never do.                                   *)
PanicOnlyOnLongChains ==
    pc = "panic" =>
        /\ cmd.tool = "convert"
        /\ Cardinality(PemsAt(Contents(before, cmd.in))) >= LockLimit

(* A command whose input is a file ends.                                   *)
CommandEnds == (pc \notin Ends /\ InputIsFile) ~> (pc \in Ends)
=============================================================================
