----------------------------- MODULE ToolsProofs ----------------------------
(***************************************************************************)
(* What encrypt reported as encrypted can be decrypted, for all commands,  *)
(* keys and file systems.  The output is empty from its truncation to the  *)
(* single write at the end, so that a key that was found in between is not *)
(* in the output, and the write does not touch it.                         *)
(*                                                                         *)
(* Then: no command spoils more than one file, whatever happens to it.     *)
(*                                                                         *)
(* Then, with types: exit code 0 means that the output is complete, and    *)
(* only a chain of keys as long as the memory can hold makes one panic.    *)
(***************************************************************************)
EXTENDS Tools, FiniteSetTheorems, SequenceTheorems, TLAPS

ConfigStages == {"provide", "load", "print", "push", "write"}

isMessage == cmd.tool \in {"encrypt", "decrypt"}

(* The key of the command is the first one of the file it was read from.   *)
keyInFile ==
    /\ PemsAt(Contents(file, cmd.key)) # {}
    /\ FirstKey(Contents(file, cmd.key)) = key

outputEmpty == cmd.out \in DOMAIN file /\ file[cmd.out] = << >>

KeyInv ==
    /\ cmd \in Commands
    /\ pc \in {"convert", "encrypt", "decrypt"} => pc = cmd.tool
    /\ pc \in ConfigStages => cmd.tool \in ConfigTools
    /\ pc \in {"input", "output", "key", "read"} => cmd.tool \notin ConfigTools
    /\ isMessage /\ pc \in {"key", "read", "encrypt", "decrypt"} => outputEmpty
    /\ isMessage /\ pc \in {"read", "encrypt"} => keyInFile
    /\ EncryptedCanBeRead

(* An empty content has no key.                                            *)
LEMMA NoPems == PemsAt(<< >>) = {}
  BY DEF PemsAt

(* The write of the output leaves the file of the key alone.               *)
LEMMA WriteKeepsKey ==
    ASSUME outputEmpty, keyInFile, NEW content,
           file' = [file EXCEPT ![cmd.out] = content], cmd' = cmd, key' = key
    PROVE  /\ PemsAt(Contents(file', cmd.key)) # {}
           /\ FirstKey(Contents(file', cmd.key)) = key
<1>1. CASE cmd.key = Std
  <2>1. Contents(file', cmd.key) = Contents(file, cmd.key)
    BY <1>1 DEF Contents
  <2>. QED  BY <2>1 DEF keyInFile
<1>2. CASE cmd.key # Std
  <2>1. Contents(file, cmd.key) # << >>
    BY NoPems DEF keyInFile
  <2>2. cmd.key \in DOMAIN file /\ cmd.key # cmd.out
    BY <1>2, <2>1 DEF Contents, outputEmpty
  <2>3. Contents(file', cmd.key) = Contents(file, cmd.key)
    BY <1>2, <2>2 DEF Contents
  <2>. QED  BY <2>3 DEF keyInFile
<1>. QED  BY <1>1, <1>2

(* A command that ends without a write reports nothing as encrypted.       *)
LEMMA ReturnKeepsInv ==
    ASSUME KeyInv, NEW how, End(how), how \in {"failed", "panic", "killed"}
           \/ (how = "ok" /\ cmd.tool # "encrypt")
    PROVE  KeyInv'
<1>1. pc' = how /\ UNCHANGED <<file, cmd, key>>
  BY DEF End
<1>2. pc' \notin {"input", "output", "convert", "encrypt", "decrypt", "key", "read"} \cup ConfigStages
  BY <1>1 DEF ConfigStages
<1>3. EncryptedCanBeRead'
  BY <1>1 DEF EncryptedCanBeRead
<1>. QED  BY <1>1, <1>2, <1>3 DEF KeyInv

LEMMA KeyInvInit == Init => KeyInv
  BY DEF Init, KeyInv, EncryptedCanBeRead, Entry, Loads, ConfigTools, ConfigStages

LEMMA KeyInvNext == KeyInv /\ [Next]_vars => KeyInv'
<1>. SUFFICES ASSUME KeyInv, [Next]_vars PROVE KeyInv'
  OBVIOUS
<1>. USE DEF KeyInv, Return, Fault, ConfigStages
<1>1. CASE OpenInput
  <2>1. CASE pc' = "output" /\ UNCHANGED <<file, cmd, key>>
    <3>1. cmd.tool \notin ConfigTools
      BY <1>1 DEF OpenInput
    <3>. QED  BY <2>1, <3>1 DEF EncryptedCanBeRead
  <2>2. CASE Return("failed")
    BY <2>2, ReturnKeepsInv
  <2>. QED  BY <1>1, <2>1, <2>2 DEF OpenInput
<1>2. CASE OpenOutput
  <2>1. CASE /\ pc' = IF cmd.tool = "convert" THEN "read" ELSE "key"
             /\ file' = [p \in DOMAIN file \cup {cmd.out} |->
                           IF p = cmd.out THEN << >> ELSE file[p]]
             /\ UNCHANGED <<cmd, key>>
    <3>1. outputEmpty'
      BY <2>1 DEF outputEmpty
    <3>2. isMessage' => pc' = "key"
      BY <2>1 DEF isMessage
    <3>3. cmd.tool \notin ConfigTools
      BY <1>2 DEF OpenOutput
    <3>. QED  BY <2>1, <3>1, <3>2, <3>3 DEF EncryptedCanBeRead
  <2>2. CASE Fault
    BY <2>2, ReturnKeepsInv
  <2>. QED  BY <1>2, <2>1, <2>2 DEF OpenOutput
<1>3. CASE ReadKey
  <2>. DEFINE content == Contents(file, cmd.key)
  <2>1. CASE /\ PemsAt(content) # {} /\ pc' = "read" /\ key' = FirstKey(content)
             /\ UNCHANGED <<file, cmd>>
    <3>1. keyInFile'
      BY <2>1 DEF keyInFile
    <3>2. isMessage' => outputEmpty'
      BY <1>3, <2>1 DEF ReadKey, isMessage, outputEmpty
    <3>3. cmd.tool \notin ConfigTools
      BY <1>3 DEF ReadKey
    <3>. QED  BY <2>1, <3>1, <3>2, <3>3 DEF EncryptedCanBeRead
  <2>2. CASE Return("failed")
    BY <2>2, ReturnKeepsInv
  <2>. QED  BY <1>3, <2>1, <2>2 DEF ReadKey, UseKey
<1>4. CASE ReadInput
  <2>1. CASE pc = "read" /\ pc' = cmd.tool /\ UNCHANGED <<file, cmd, key>>
    <3>1. isMessage' => outputEmpty' /\ keyInFile'
      BY <2>1 DEF isMessage, outputEmpty, keyInFile
    <3>2. pc' \in {"convert", "encrypt", "decrypt"}
      BY <2>1, ConstantsAssumption
    <3>. QED  BY <2>1, <3>1, <3>2 DEF EncryptedCanBeRead
  <2>2. CASE Fault
    BY <2>2, ReturnKeepsInv
  <2>. QED  BY <1>4, <2>1, <2>2 DEF ReadInput
<1>5. CASE ConvertBlock
  <2>1. CASE Return("failed") \/ Return("panic")
    BY <2>1, ReturnKeepsInv
  <2>2. CASE AtBlock(FALSE) /\ Converted(1)
    <3>1. pc = "convert" /\ cmd.tool = "convert" /\ UNCHANGED <<pc, cmd>>
      BY <2>2 DEF AtBlock, Converted
    <3>. QED  BY <3>1 DEF isMessage, EncryptedCanBeRead
  <2>. QED  BY <1>5, <2>1, <2>2 DEF ConvertBlock
<1>6. CASE ConvertDone
  <2>1. cmd.tool # "encrypt" /\ End("ok")
    BY <1>6 DEF ConvertDone
  <2>. QED  BY <2>1, ReturnKeepsInv
<1>7. CASE Encrypt
  <2>1. CASE Kind[key] = "rsa" /\ WriteMessage(<<Enc(key, chain)>>)
    <3>1. CASE /\ file' = [file EXCEPT ![cmd.out] = <<Enc(key, chain)>>]
               /\ pc' = "ok" /\ UNCHANGED <<cmd, key>>
      <4>1. outputEmpty /\ keyInFile
        BY <1>7 DEF Encrypt, isMessage
      <4>2. keyInFile'
        BY <3>1, <4>1, WriteKeepsKey DEF keyInFile
      <4>. QED  BY <3>1, <4>2 DEF EncryptedCanBeRead, keyInFile
    <3>2. CASE Fault
      BY <3>2, ReturnKeepsInv
    <3>. QED  BY <2>1, <3>1, <3>2 DEF WriteMessage
  <2>2. CASE Return("failed")
    BY <2>2, ReturnKeepsInv
  <2>. QED  BY <1>7, <2>1, <2>2 DEF Encrypt
<1>8. CASE Decrypt
  <2>1. CASE WriteMessage(Head(chain).of)
    <3>1. CASE pc' = "ok" /\ UNCHANGED cmd
      BY <1>8, <3>1 DEF Decrypt, EncryptedCanBeRead
    <3>2. CASE Fault
      BY <3>2, ReturnKeepsInv
    <3>. QED  BY <2>1, <3>1, <3>2 DEF WriteMessage
  <2>2. CASE Return("failed")
    BY <2>2, ReturnKeepsInv
  <2>. QED  BY <1>8, <2>1, <2>2 DEF Decrypt
<1>9. CASE Kill
  BY <1>9, ReturnKeepsInv DEF Kill
<1>10. CASE Start
  BY <1>10 DEF Start, EncryptedCanBeRead, Entry, Loads, ConfigTools, Ends
<1>11. CASE ReadSource \/ LoadDone \/ Show \/ OpenDestination \/ WriteDestination \/ PushDone
  <2>1. pc \in ConfigStages /\ UNCHANGED cmd
    BY <1>11 DEF ReadSource, LoadDone, Show, OpenDestination, WriteDestination, PushDone,
                 Loading, ConfigStages, End
  <2>2. pc' \in ConfigStages \cup {"ok", "failed"}
    BY <1>11, <2>1 DEF ReadSource, LoadDone, Show, OpenDestination, WriteDestination, PushDone,
                 Loading, ConfigStages, End
  <2>. QED  BY <2>1, <2>2 DEF ConfigStages, ConfigTools, isMessage, EncryptedCanBeRead
<1>12. CASE Edit
  <2>1. cmd.tool \in ConfigTools /\ UNCHANGED <<cmd, pc>>
    BY <1>12 DEF Edit, Loads, ConfigTools
  <2>. QED  BY <2>1 DEF ConfigTools, isMessage, EncryptedCanBeRead
<1>13. CASE UNCHANGED vars
  BY <1>13 DEF vars, EncryptedCanBeRead, isMessage, outputEmpty, keyInFile
<1>. QED  BY <1>1, <1>2, <1>3, <1>4, <1>5, <1>6, <1>7, <1>8, <1>9, <1>10, <1>11,
             <1>12, <1>13 DEF Next, Work

(* No sequence of commands makes encrypt succeed and lose its own key, and *)
(* the message with it: neither another output, nor a kill, nor a failing  *)
(* system call in between.                                                 *)
THEOREM EncryptedSafe == Spec => []EncryptedCanBeRead
<1>1. KeyInv => EncryptedCanBeRead
  BY DEF KeyInv
<1>. QED  BY KeyInvInit, KeyInvNext, <1>1, PTL DEF Spec

-----------------------------------------------------------------------------
(* A name that the command has not spoiled.                                *)
Sound(name) ==
    \/ Unchanged(name)
    \/ edited /\ name \in DOMAIN file /\ file[name] \in Edits
    \/ /\ cmd.tool = "push" /\ name \in DOMAIN file
       /\ file[name] # << >> /\ Validate(file[name][1].doc)

SoundBut(spoiled) == \A name: name \notin {spoiled, Std} => Sound(name)

Stages == Ends \cup ConfigStages
          \cup {"input", "output", "key", "read", "convert", "encrypt", "decrypt"}

(* What is spoiled is the output from its truncation on, or the            *)
(* destination that is just being written.                                 *)
SpoilInv ==
    /\ cmd \in Commands /\ pc \in Stages
    /\ pc \in {"convert", "encrypt", "decrypt"} => pc = cmd.tool
    /\ pc \in ConfigStages => cmd.tool \in ConfigTools
    /\ pc \in {"input", "output", "key", "read"} => cmd.tool \notin ConfigTools
    /\ pc \in {"push", "write"} => cmd.tool = "push" /\ Validate(config)
    /\ pc \in {"input", "output"} \cup (ConfigStages \ {"write"}) => SoundBut(Std)
    /\ pc \in {"key", "read", "convert", "encrypt", "decrypt"} =>
         cmd.out \in DOMAIN file /\ SoundBut(cmd.out)
    /\ pc = "write" => Head(chain) \in DOMAIN file /\ SoundBut(Head(chain))
    /\ pc \in Ends => \E spoiled \in DOMAIN file \cup {Std}: SoundBut(spoiled)

(* At every stage there is one file at most that is not sound.             *)
LEMMA OneSpoiled == SpoilInv => \E spoiled \in DOMAIN file \cup {Std}: SoundBut(spoiled)
  BY DEF SpoilInv, Stages, Ends, ConfigStages

(* A name that is not touched is as sound as before.                       *)
LEMMA SoundKept ==
    ASSUME UNCHANGED <<cmd, before, edited>>, NEW name, Sound(name),
           name \in DOMAIN file' <=> name \in DOMAIN file,
           name \in DOMAIN file => file'[name] = file[name]
    PROVE  Sound(name)'
  BY DEF Sound, Unchanged, Validate

LEMMA SoundSame ==
    ASSUME UNCHANGED <<file, cmd, before, edited>>, NEW spoiled, SoundBut(spoiled)
    PROVE  SoundBut(spoiled)'
  BY DEF SoundBut, Sound, Unchanged, Validate

LEMMA SpoilReturns ==
    ASSUME SpoilInv, NEW how \in Ends, End(how)
    PROVE  SpoilInv'
<1>1. PICK spoiled \in DOMAIN file \cup {Std}: SoundBut(spoiled)
  BY OneSpoiled
<1>2. UNCHANGED <<file, cmd, before, edited>> /\ pc' = how
  BY DEF End
<1>3. SoundBut(spoiled)'
  BY <1>1, <1>2, SoundSame
<1>. QED  BY <1>1, <1>2, <1>3 DEF SpoilInv, Stages, Ends, ConfigStages

LEMMA SpoilInvInit == Init => SpoilInv
<1>. SUFFICES ASSUME Init PROVE SpoilInv
  OBVIOUS
<1>1. SoundBut(Std)
  BY DEF Init, SoundBut, Sound, Unchanged
<1>. QED  BY <1>1 DEF Init, SpoilInv, Stages, Ends, ConfigStages, Entry, Loads, ConfigTools

LEMMA MessagesSpoilOne ==
    SpoilInv /\ (OpenInput \/ OpenOutput \/ ReadKey \/ ReadInput \/ ConvertBlock
                 \/ ConvertDone \/ Encrypt \/ Decrypt)
    => SpoilInv'
<1>. SUFFICES ASSUME SpoilInv,
                     OpenInput \/ OpenOutput \/ ReadKey \/ ReadInput \/ ConvertBlock
                     \/ ConvertDone \/ Encrypt \/ Decrypt
              PROVE  SpoilInv'
  OBVIOUS
<1>. USE DEF Return, Fault
<1>1. \A how \in Ends: End(how) => SpoilInv'
  BY SpoilReturns
<1>2. {"ok", "failed", "panic"} \subseteq Ends
  BY DEF Ends
<1>3. CASE OpenInput
  <2>1. CASE pc = "input" /\ pc' = "output" /\ UNCHANGED <<file, cmd, before, edited>>
    <3>1. SoundBut(Std)'
      BY <2>1, SoundSame DEF SpoilInv
    <3>. QED  BY <2>1, <3>1 DEF SpoilInv, Stages, Ends, ConfigStages
  <2>. QED  BY <1>1, <1>2, <1>3, <2>1 DEF OpenInput
<1>4. CASE OpenOutput
  <2>1. CASE /\ pc = "output" /\ pc' = IF cmd.tool = "convert" THEN "read" ELSE "key"
             /\ file' = [p \in DOMAIN file \cup {cmd.out} |->
                           IF p = cmd.out THEN << >> ELSE file[p]]
             /\ UNCHANGED <<cmd, before, edited>>
    <3>1. cmd.tool \notin ConfigTools
      BY <2>1 DEF SpoilInv
    <3>2. DOMAIN file' = DOMAIN file \cup {cmd.out}
      BY <2>1
    <3>3. SoundBut(cmd.out)'
      <4>. SUFFICES ASSUME NEW name, name \notin {cmd.out, Std} PROVE Sound(name)'
        BY <2>1 DEF SoundBut
      <4>1. Sound(name)
        BY <2>1 DEF SpoilInv, SoundBut
      <4>2. /\ name \in DOMAIN file' <=> name \in DOMAIN file
            /\ name \in DOMAIN file => file'[name] = file[name]
        BY <2>1
      <4>. QED  BY <2>1, <4>1, <4>2, SoundKept
    <3>. QED  BY <2>1, <3>1, <3>2, <3>3 DEF SpoilInv, Stages, Ends, ConfigStages
  <2>. QED  BY <1>1, <1>2, <1>4, <2>1 DEF OpenOutput
<1>5. CASE ReadKey \/ ReadInput
  <2>1. CASE /\ (pc = "key" /\ pc' = "read") \/ (pc = "read" /\ pc' = cmd.tool)
             /\ UNCHANGED <<file, cmd, before, edited>>
    <3>1. cmd.tool \notin ConfigTools /\ cmd.out \in DOMAIN file /\ SoundBut(cmd.out)
      BY <2>1 DEF SpoilInv
    <3>2. cmd.tool \in {"convert", "encrypt", "decrypt"}
      BY <3>1, ConstantsAssumption DEF SpoilInv
    <3>3. SoundBut(cmd.out)'
      BY <2>1, <3>1 DEF SoundBut, Sound, Unchanged, Validate
    <3>. QED  BY <2>1, <3>1, <3>2, <3>3 DEF SpoilInv, Stages, Ends, ConfigStages
  <2>2. CASE ReadKey
    <3>1. \/ pc = "key" /\ pc' = "read" /\ UNCHANGED <<file, cmd, before, edited>>
          \/ End("failed")
      BY <2>2 DEF ReadKey, UseKey
    <3>. QED  BY <1>1, <1>2, <2>1, <3>1
  <2>3. CASE ReadInput
    BY <1>1, <1>2, <2>1, <2>3 DEF ReadInput
  <2>. QED  BY <1>5, <2>2, <2>3
<1>6. CASE ConvertBlock \/ Encrypt \/ Decrypt
  <2>1. CASE /\ pc \in {"convert", "encrypt", "decrypt"} /\ pc' \in {pc, "ok"}
             /\ UNCHANGED <<cmd, before, edited>>
             /\ UNCHANGED file \/ \E content: file' = [file EXCEPT ![cmd.out] = content]
    <3>1. cmd.out \in DOMAIN file /\ SoundBut(cmd.out) /\ pc = cmd.tool
      BY <2>1 DEF SpoilInv
    <3>2. DOMAIN file' = DOMAIN file
      BY <2>1
    <3>3. \A name \in DOMAIN file: name # cmd.out => file'[name] = file[name]
      BY <2>1
    <3>4. SoundBut(cmd.out)'
      <4>. SUFFICES ASSUME NEW name, name \notin {cmd.out, Std} PROVE Sound(name)'
        BY <2>1 DEF SoundBut
      <4>1. Sound(name)
        BY <3>1 DEF SoundBut
      <4>. QED  BY <2>1, <3>2, <3>3, <4>1, SoundKept
    <3>. QED  BY <2>1, <3>1, <3>2, <3>4 DEF SpoilInv, Stages, Ends, ConfigStages
  <2>. QED  BY <1>1, <1>2, <1>6, <2>1
            DEF ConvertBlock, AtBlock, Converted, Appended, Encrypt, Decrypt, WriteMessage
<1>7. CASE ConvertDone
  BY <1>1, <1>2, <1>7 DEF ConvertDone
<1>. QED  BY <1>3, <1>4, <1>5, <1>6, <1>7

LEMMA ConfigsSpoilOne ==
    SpoilInv /\ (ReadSource \/ LoadDone \/ Show \/ OpenDestination \/ WriteDestination \/ PushDone)
    => SpoilInv'
<1>. SUFFICES ASSUME SpoilInv,
                     ReadSource \/ LoadDone \/ Show \/ OpenDestination \/ WriteDestination
                     \/ PushDone
              PROVE  SpoilInv'
  OBVIOUS
<1>. USE DEF Return, Fault
<1>1. \A how \in Ends: End(how) => SpoilInv'
  BY SpoilReturns
<1>2. {"ok", "failed"} \subseteq Ends
  BY DEF Ends
<1>3. CASE ReadSource
  <2>1. CASE /\ pc \in {"provide", "load"} /\ UNCHANGED <<file, cmd, pc, before, edited>>
    <3>1. SoundBut(Std)'
      BY <2>1, SoundSame DEF SpoilInv, ConfigStages
    <3>. QED  BY <2>1, <3>1 DEF SpoilInv, Stages, Ends, ConfigStages
  <2>2. \/ pc \in {"provide", "load"} /\ UNCHANGED <<file, cmd, pc, before, edited>>
        \/ End("failed")
    BY <1>3 DEF ReadSource, Loading
  <2>. QED  BY <1>1, <1>2, <2>1, <2>2
<1>4. CASE LoadDone
  <2>1. CASE /\ pc \in {"provide", "load"} /\ UNCHANGED <<file, cmd, before, edited>>
             /\ pc' \in {"print", "load", "ok"}
    <3>1. SoundBut(Std)'
      BY <2>1, SoundSame DEF SpoilInv, ConfigStages
    <3>. QED  BY <2>1, <3>1 DEF SpoilInv, Stages, Ends, ConfigStages
  <2>2. CASE /\ pc = "load" /\ cmd.tool = "push" /\ UNCHANGED <<file, cmd, before, edited>>
             /\ pc' = "push" /\ Validate(Loaded) /\ config' = Loaded
    <3>1. SoundBut(Std)'
      BY <2>2, SoundSame DEF SpoilInv, ConfigStages
    <3>2. Validate(config')
      BY <2>2
    <3>. QED  BY <2>2, <3>1, <3>2 DEF SpoilInv, Stages, Ends, ConfigStages
  <2>3. \/ /\ pc \in {"provide", "load"} /\ UNCHANGED <<file, cmd, before, edited>>
           /\ pc' \in {"print", "load", "ok"}
        \/ /\ pc = "load" /\ cmd.tool = "push" /\ UNCHANGED <<file, cmd, before, edited>>
           /\ pc' = "push" /\ Validate(Loaded) /\ config' = Loaded
        \/ End("failed")
    BY <1>4 DEF LoadDone, Loading, Validates
  <2>. QED  BY <1>1, <1>2, <2>1, <2>2, <2>3
<1>5. CASE Show
  <2>1. CASE /\ pc = "print" /\ pc' = "ok" /\ UNCHANGED <<cmd, before, edited>>
             /\ file' = Rewritten(Std, <<Doc(config)>>)
    <3>1. SoundBut(Std)'
      <4>. SUFFICES ASSUME NEW name, name # Std PROVE Sound(name)'
        BY DEF SoundBut
      <4>1. Sound(name)
        BY <2>1 DEF SpoilInv, SoundBut, ConfigStages
      <4>. QED  BY <2>1, <4>1, SoundKept DEF Rewritten
    <3>. QED  BY <2>1, <3>1 DEF SpoilInv, Stages, Ends, ConfigStages
  <2>. QED  BY <1>1, <1>2, <1>5, <2>1 DEF Show
<1>6. CASE OpenDestination
  <2>1. CASE /\ pc = "push" /\ pc' = "write" /\ UNCHANGED <<cmd, chain, config, before, edited>>
             /\ file' = Rewritten(Head(chain), << >>)
    <3>1. SoundBut(Head(chain))'
      <4>. SUFFICES ASSUME NEW name, name \notin {Head(chain), Std} PROVE Sound(name)'
        BY <2>1 DEF SoundBut
      <4>1. Sound(name)
        BY <2>1 DEF SpoilInv, SoundBut, ConfigStages
      <4>. QED  BY <2>1, <4>1, SoundKept DEF Rewritten
    <3>2. Head(chain)' \in DOMAIN file'
      BY <2>1 DEF Rewritten
    <3>3. cmd'.tool = "push" /\ Validate(config')
      BY <2>1 DEF SpoilInv
    <3>. QED  BY <2>1, <3>1, <3>2, <3>3 DEF SpoilInv, Stages, Ends, ConfigStages
  <2>. QED  BY <1>1, <1>2, <1>6, <2>1 DEF OpenDestination
<1>7. CASE WriteDestination
  <2>1. CASE /\ pc = "write" /\ pc' = "push" /\ UNCHANGED <<cmd, config, before, edited>>
             /\ file' = Rewritten(Head(chain), <<Doc(config)>>)
    <3>1. cmd.tool = "push" /\ Validate(config)
      BY <2>1 DEF SpoilInv
    <3>2. ASSUME NEW name, name = Head(chain) PROVE Sound(name)'
      <4>1. name \in DOMAIN file' /\ file'[name] = <<Doc(config)>>
        BY <2>1, <3>2 DEF Rewritten
      <4>2. file'[name] # << >> /\ file'[name][1].doc = config
        BY <4>1 DEF Doc
      <4>3. Validate(file'[name][1].doc)
        BY <3>1, <4>2
      <4>. QED  BY <2>1, <3>1, <4>1, <4>2, <4>3 DEF Sound, Validate
    <3>3. SoundBut(Std)'
      <4>. SUFFICES ASSUME NEW name, name # Std PROVE Sound(name)'
        BY DEF SoundBut
      <4>1. CASE name # Head(chain)
        <5>1. Sound(name)
          BY <2>1, <4>1 DEF SpoilInv, SoundBut
        <5>. QED  BY <2>1, <4>1, <5>1, SoundKept DEF Rewritten
      <4>. QED  BY <3>2, <4>1
    <3>. QED  BY <2>1, <3>1, <3>3 DEF SpoilInv, Stages, Ends, ConfigStages
  <2>. QED  BY <1>1, <1>2, <1>7, <2>1 DEF WriteDestination
<1>8. CASE PushDone
  BY <1>1, <1>2, <1>8 DEF PushDone
<1>. QED  BY <1>3, <1>4, <1>5, <1>6, <1>7, <1>8

(* An edit by somebody else makes no name unsound.                         *)
LEMMA EditsSpoilNone == SpoilInv /\ Edit => SpoilInv'
<1>. SUFFICES ASSUME SpoilInv, Edit PROVE SpoilInv'
  OBVIOUS
<1>1. /\ pc \in ConfigStages /\ edited' = TRUE
      /\ UNCHANGED <<cmd, pc, chain, config, before>>
  BY DEF Edit, SpoilInv, Stages, Loads, ConfigTools
<1>2. PICK path \in DOMAIN file, content \in Edits: file' = [file EXCEPT ![path] = content]
  BY DEF Edit
<1>3. DOMAIN file' = DOMAIN file
  BY <1>2
<1>4. ASSUME NEW name, Sound(name) PROVE Sound(name)'
  <2>1. CASE name = path
    <3>1. name \in DOMAIN file' /\ file'[name] \in Edits
      BY <1>2, <2>1
    <3>. QED  BY <1>1, <3>1 DEF Sound
  <2>2. CASE name # path
    <3>1. name \in DOMAIN file => file'[name] = file[name]
      BY <1>2, <2>2
    <3>. QED  BY <1>1, <1>3, <1>4, <3>1 DEF Sound, Unchanged, Validate
  <2>. QED  BY <2>1, <2>2
<1>5. ASSUME NEW spoiled, SoundBut(spoiled) PROVE SoundBut(spoiled)'
  BY <1>4, <1>5 DEF SoundBut
<1>6. pc # "write" => SoundBut(Std)'
  BY <1>1, <1>5 DEF SpoilInv, ConfigStages
<1>7. pc = "write" => SoundBut(Head(chain))' /\ Head(chain)' \in DOMAIN file'
  <2>. SUFFICES ASSUME pc = "write" PROVE SoundBut(Head(chain))' /\ Head(chain)' \in DOMAIN file'
    OBVIOUS
  <2>1. SoundBut(Head(chain)) /\ Head(chain) \in DOMAIN file
    BY DEF SpoilInv
  <2>2. \A name: name \notin {Head(chain), Std} => Sound(name)'
    BY <1>4, <2>1 DEF SoundBut
  <2>. QED  BY <1>1, <1>3, <2>1, <2>2 DEF SoundBut
<1>. QED  BY <1>1, <1>3, <1>6, <1>7 DEF SpoilInv, Stages, Ends, ConfigStages

LEMMA SpoilInvNext == SpoilInv /\ [Next]_vars => SpoilInv'
<1>. SUFFICES ASSUME SpoilInv, [Next]_vars PROVE SpoilInv'
  OBVIOUS
<1>1. CASE Kill
  BY <1>1, SpoilReturns DEF Kill, Return, Ends
<1>2. CASE Start
  <2>1. SoundBut(Std)'
    BY <1>2 DEF Start, SoundBut, Sound, Unchanged
  <2>2. pc' \in {"provide", "print", "input"}
    BY <1>2 DEF Start, Entry
  <2>3. pc' \in ConfigStages <=> cmd'.tool \in ConfigTools
    BY <1>2 DEF Start, Entry, ConfigStages, Loads, ConfigTools
  <2>. QED  BY <1>2, <2>1, <2>2, <2>3 DEF Start, SpoilInv, Stages, Ends, ConfigStages
<1>3. CASE UNCHANGED vars
  BY <1>3 DEF vars, SpoilInv, SoundBut, Sound, Unchanged, Validate
<1>. QED  BY <1>1, <1>2, <1>3, MessagesSpoilOne, ConfigsSpoilOne, EditsSpoilNone
          DEF Next, Work

(* Whatever fails, is killed or is edited in between, for any commands and *)
(* any files: one file at most is spoiled, and the destinations of push    *)
(* hold what they held or a valid configuration.                           *)
THEOREM OneSpoiledAtMost == Spec => []OneFileSpoiled
<1>1. SpoilInv => OneFileSpoiled
  BY OneSpoiled DEF OneFileSpoiled, SoundBut, Sound
<1>. QED  BY SpoilInvInit, SpoilInvNext, <1>1, PTL DEF Spec
-----------------------------------------------------------------------------
(* A sequence, whatever its items are.                                     *)
IsSeq(c) == \E T: c \in Seq(T)

LEMMA SeqFacts ==
    ASSUME NEW c, IsSeq(c)
    PROVE  Len(c) \in Nat /\ DOMAIN c = 1..Len(c) /\ (c # << >> => Len(c) > 0)
  BY EmptySeq DEF IsSeq

LEMMA EmptyIsSeq == IsSeq(<< >>) /\ Len(<< >>) = 0
  BY EmptySeq DEF IsSeq

LEMMA OneIsSeq == \A x: IsSeq(<<x>>) /\ Len(<<x>>) = 1 /\ <<x>>[1] = x
<1>1. ASSUME NEW x PROVE <<x>> \in Seq({x})
  OBVIOUS
<1>. QED  BY <1>1 DEF IsSeq

LEMMA AppendIsSeq ==
    ASSUME NEW c, IsSeq(c), NEW x
    PROVE  /\ IsSeq(Append(c, x)) /\ Len(Append(c, x)) = Len(c) + 1
           /\ \A i \in 1..Len(c): Append(c, x)[i] = c[i]
           /\ Append(c, x)[Len(c) + 1] = x
<1>1. PICK T: c \in Seq(T)
  BY DEF IsSeq
<1>2. c \in Seq(T \cup {x})
  BY <1>1, SeqMonotonic
<1>3. /\ Append(c, x) \in Seq(T \cup {x}) /\ Len(Append(c, x)) = Len(c) + 1
      /\ \A i \in 1..Len(c): Append(c, x)[i] = c[i]
      /\ Append(c, x)[Len(c) + 1] = x
  BY <1>2, AppendProperties
<1>. QED  BY <1>3 DEF IsSeq

(* What is left of a sequence that is worked off from the front.           *)
Done(rest, whole) == Len(whole) - Len(rest)
IsRest(rest, whole) ==
    /\ IsSeq(rest) /\ IsSeq(whole)
    /\ Done(rest, whole) \in Nat
    /\ \A i \in 1..Len(rest): rest[i] = whole[Done(rest, whole) + i]

LEMMA RestOfAll ==
    ASSUME NEW c, IsSeq(c)
    PROVE  IsRest(c, c) /\ Done(c, c) = 0
<1>1. Len(c) \in Nat
  BY SeqFacts
<1>2. Done(c, c) = 0
  BY <1>1 DEF Done
<1>. QED  BY <1>1, <1>2 DEF IsRest

LEMMA RestStep ==
    ASSUME NEW rest, NEW whole, IsRest(rest, whole), NEW k \in 1..Len(rest)
    PROVE  LET less == SubSeq(rest, k + 1, Len(rest)) IN
           /\ IsRest(less, whole)
           /\ Done(less, whole) = Done(rest, whole) + k
           /\ Done(rest, whole) + k \in 1..Len(whole)
           /\ rest[k] = whole[Done(rest, whole) + k]
<1>1. PICK T: rest \in Seq(T)
  BY DEF IsRest, IsSeq
<1>2. /\ Len(rest) \in Nat /\ Len(whole) \in Nat /\ Done(rest, whole) \in Nat
      /\ Done(rest, whole) = Len(whole) - Len(rest) /\ k \in Nat
      /\ \A i \in 1..Len(rest): rest[i] = whole[Done(rest, whole) + i]
  BY SeqFacts DEF IsRest, Done
<1>. DEFINE m == k + 1
            n == Len(rest)
            d == Done(rest, whole)
            less == SubSeq(rest, m, n)
<1>3. m \in Int /\ n \in Int /\ \A i \in m..n: rest[i] \in T
  BY <1>1, <1>2
<1>4. /\ less \in Seq(T)
      /\ Len(less) = IF m <= n THEN n - m + 1 ELSE 0
      /\ \A i \in 1..(n - m + 1): less[i] = rest[m + i - 1]
  <2>. HIDE DEF m, n
  <2>. QED  BY <1>3, SubSeqProperties
<1>5. Done(less, whole) = Len(whole) - Len(less)
  BY DEF Done
<1>. HIDE DEF less
<1>6. Len(less) = Len(rest) - k
  BY <1>2, <1>4
<1>7. Done(less, whole) = d + k /\ Done(less, whole) \in Nat /\ d + k \in 1..Len(whole)
  BY <1>2, <1>5, <1>6
<1>8. \A i \in 1..Len(less): less[i] = whole[Done(less, whole) + i]
  <2>. SUFFICES ASSUME NEW i \in 1..Len(less) PROVE less[i] = whole[Done(less, whole) + i]
    OBVIOUS
  <2>1. i \in 1..(n - m + 1) /\ m + i - 1 = k + i /\ k + i \in 1..Len(rest)
    BY <1>2, <1>6
  <2>2. less[i] = rest[k + i]
    BY <1>4, <2>1
  <2>3. rest[k + i] = whole[d + (k + i)]
    BY <1>2, <2>1
  <2>4. d + (k + i) = Done(less, whole) + i
    BY <1>2, <1>7, <2>1
  <2>. QED  BY <2>2, <2>3, <2>4
<1>9. IsSeq(less) /\ IsSeq(whole)
  BY <1>4 DEF IsSeq, IsRest
<1>. QED  BY <1>2, <1>7, <1>8, <1>9 DEF IsRest, less

LEMMA RestTail ==
    ASSUME NEW rest, NEW whole, IsRest(rest, whole), rest # << >>
    PROVE  /\ IsRest(Tail(rest), whole)
           /\ Done(Tail(rest), whole) = Done(rest, whole) + 1
           /\ Done(rest, whole) + 1 \in 1..Len(whole)
           /\ Head(rest) = whole[Done(rest, whole) + 1]
<1>1. PICK T: rest \in Seq(T)
  BY DEF IsRest, IsSeq
<1>2. Len(rest) \in Nat \ {0}
  BY <1>1, EmptySeq
<1>3. Tail(rest) = SubSeq(rest, 2, Len(rest)) /\ Head(rest) = rest[1]
  BY <1>1, <1>2, TailIsSubSeq
<1>. DEFINE k == 1
<1>4. k \in 1..Len(rest) /\ k + 1 = 2
  BY <1>2
<1>. HIDE DEF k
<1>5. /\ IsRest(SubSeq(rest, k + 1, Len(rest)), whole)
      /\ Done(SubSeq(rest, k + 1, Len(rest)), whole) = Done(rest, whole) + k
      /\ Done(rest, whole) + k \in 1..Len(whole)
      /\ rest[k] = whole[Done(rest, whole) + k]
  BY <1>4, RestStep
<1>. QED  BY <1>3, <1>4, <1>5 DEF k

(* The keys among the first n items of a chain.                            *)
PemsUpTo(content, n) == {j \in PemsAt(content): j <= n}
RankIn(content, n) == Cardinality(PemsUpTo(content, n))

(* pem.Decode finds the first block whenever there is one.                 *)
LEMMA FirstIs ==
    ASSUME NEW content, IsSeq(content), PemsAt(content) # {}
    PROVE  /\ First(content) \in PemsAt(content) /\ First(content) \in 1..Len(content)
           /\ \A j \in PemsAt(content): First(content) <= j
<1>. DEFINE P == PemsAt(content)
            R == OpToRel(<, Nat)
<1>1. DOMAIN content = 1..Len(content) /\ P \subseteq Nat /\ P # {}
  BY SeqFacts DEF PemsAt
<1>2. \E i \in P: \A j \in P: ~(<<j, i>> \in R)
  <2>. HIDE DEF P, R
  <2>1. IsWellFoundedOn(R, Nat)
    BY NatLessThanWellFounded DEF R
  <2>. QED  BY <1>1, <2>1, WFMin
<1>3. PICK i \in P: \A j \in P: ~(<<j, i>> \in R)
  BY <1>2
<1>4. \A j \in P: i <= j
  <2>. SUFFICES ASSUME NEW j \in P PROVE i <= j
    OBVIOUS
  <2>1. i \in Nat /\ j \in Nat /\ ~(<<j, i>> \in {ss \in Nat \X Nat: ss[1] < ss[2]})
    BY <1>1, <1>3 DEF OpToRel
  <2>2. ~(j < i)
    BY <2>1
  <2>. QED  BY <2>1, <2>2
<1>5. First(content) \in P /\ \A j \in P: First(content) <= j
  BY <1>4 DEF First
<1>. QED  BY <1>1, <1>5 DEF PemsAt

LEMMA PemsFinite ==
    ASSUME NEW content, IsSeq(content), NEW n
    PROVE  /\ IsFiniteSet(PemsUpTo(content, n)) /\ RankIn(content, n) \in Nat
           /\ PemsUpTo(content, n) \subseteq 1..Len(content)
           /\ IsFiniteSet(PemsAt(content)) /\ Cardinality(PemsAt(content)) \in Nat
<1>1. Len(content) \in Nat /\ DOMAIN content = 1..Len(content)
  BY SeqFacts
<1>2. IsFiniteSet(1..Len(content))
  BY <1>1, FS_Interval
<1>3. PemsUpTo(content, n) \subseteq 1..Len(content) /\ PemsAt(content) \subseteq 1..Len(content)
  BY <1>1 DEF PemsUpTo, PemsAt
<1>4. IsFiniteSet(PemsUpTo(content, n)) /\ IsFiniteSet(PemsAt(content))
  BY <1>2, <1>3, FS_Subset
<1>. QED  BY <1>3, <1>4, FS_CardinalityType DEF RankIn

LEMMA RankBounds ==
    ASSUME NEW content, IsSeq(content), NEW n \in Nat, NEW i \in PemsUpTo(content, n)
    PROVE  RankIn(content, i) \in 1..RankIn(content, n)
<1>1. /\ IsFiniteSet(PemsUpTo(content, n)) /\ IsFiniteSet(PemsUpTo(content, i))
      /\ RankIn(content, n) \in Nat /\ RankIn(content, i) \in Nat /\ i \in Nat
  BY PemsFinite
<1>2. i \in PemsUpTo(content, i) /\ PemsUpTo(content, i) \subseteq PemsUpTo(content, n)
  <2>1. i \in PemsAt(content) /\ i <= n
    BY DEF PemsUpTo
  <2>2. \A j \in PemsAt(content): j \in Nat
    BY SeqFacts DEF PemsAt
  <2>3. i <= i /\ \A j \in PemsAt(content): j <= i => j <= n
    BY <1>1, <2>1, <2>2
  <2>. QED  BY <2>1, <2>3 DEF PemsUpTo
<1>3. RankIn(content, i) <= RankIn(content, n)
  BY <1>1, <1>2, FS_Subset DEF RankIn
<1>4. RankIn(content, i) # 0
  BY <1>1, <1>2, FS_EmptySet DEF RankIn
<1>. QED  BY <1>1, <1>3, <1>4

LEMMA RankNone ==
    ASSUME NEW content, IsSeq(content)
    PROVE  PemsUpTo(content, 0) = {} /\ RankIn(content, 0) = 0
<1>1. PemsUpTo(content, 0) = {}
  BY SeqFacts DEF PemsUpTo, PemsAt
<1>. QED  BY <1>1, FS_EmptySet DEF RankIn

(* When the next block is behind as well, the rank is one more.            *)
LEMMA RankNext ==
    ASSUME NEW content, IsSeq(content), NEW n \in Nat, NEW m \in PemsAt(content), n < m,
           \A j \in PemsAt(content): j <= n \/ m <= j
    PROVE  /\ PemsUpTo(content, m) = PemsUpTo(content, n) \cup {m}
           /\ RankIn(content, m) = RankIn(content, n) + 1
           /\ RankIn(content, n) + 1 <= Cardinality(PemsAt(content))
<1>1. m \in Nat /\ \A j \in PemsAt(content): j \in Nat
  BY SeqFacts DEF PemsAt
<1>2. PemsUpTo(content, m) = PemsUpTo(content, n) \cup {m}
  <2>1. \A j \in PemsAt(content): j <= m <=> j <= n \/ j = m
    BY <1>1
  <2>. QED  BY <2>1 DEF PemsUpTo
<1>3. m \notin PemsUpTo(content, n)
  BY <1>1 DEF PemsUpTo
<1>4. RankIn(content, m) = RankIn(content, n) + 1
  BY <1>2, <1>3, PemsFinite, FS_AddElement DEF RankIn
<1>5. RankIn(content, m) <= Cardinality(PemsAt(content))
  <2>1. PemsUpTo(content, m) \in SUBSET PemsAt(content)
    BY DEF PemsUpTo
  <2>. QED  BY <2>1, PemsFinite, FS_Subset DEF RankIn
<1>. QED  BY <1>2, <1>4, <1>5

-----------------------------------------------------------------------------
LEMMA TypesInit == Init => TypeOK
<1>. SUFFICES ASSUME Init PROVE TypeOK
  OBVIOUS
<1>1. DOMAIN config = Fields
  BY DEF Init, Default, Defaults
<1>2. 0 \in 0..(LockLimit - 1) /\ 1 \in 1..MaxCommands /\ 0 \in 0..MaxFaults
  BY ConstantsAssumption
<1>3. Std \notin DOMAIN before
  BY ConstantsAssumption DEF Init
<1>4. pc \in {"provide", "print", "input"}
  BY DEF Init, Entry
<1>5. /\ cmd \in Commands /\ key = NoKey /\ held = 0 /\ dropped = FALSE /\ edited = FALSE
      /\ ran = 1 /\ faults = 0
  BY DEF Init
<1>. QED  BY <1>1, <1>2, <1>3, <1>4, <1>5 DEF TypeOK

LEMMA TypesNext == KeyInv /\ TypeOK /\ [Next]_vars => TypeOK'
<1>. SUFFICES ASSUME KeyInv, TypeOK, [Next]_vars PROVE TypeOK'
  OBVIOUS
<1>. DEFINE Stage == {"input", "output", "key", "read", "convert", "encrypt", "decrypt",
                      "provide", "load", "print", "push", "write"} \cup Ends
<1>1. /\ LockLimit \in Nat /\ LockLimit >= 2 /\ MaxFaults \in Nat /\ MaxCommands \in Nat
      /\ faults \in 0..MaxFaults /\ ran \in 1..MaxCommands /\ held \in 0..(LockLimit - 1)
      /\ cmd \in Commands /\ pc \in Stage /\ key \in DOMAIN Kind \cup {NoKey}
      /\ DOMAIN config = Fields /\ dropped \in BOOLEAN /\ edited \in BOOLEAN
      /\ Std \notin DOMAIN before
  BY ConstantsAssumption DEF TypeOK
<1>2. /\ DOMAIN Default = Fields /\ DOMAIN Loaded = Fields
      /\ \A c, d: DOMAIN Overlay(c, d) = Fields
  BY DEF Default, Defaults, Loaded, Overlay
<1>3. /\ 0 \in 0..(LockLimit - 1) /\ 1 \in 0..(LockLimit - 1)
      /\ held + 2 <= LockLimit => held + 1 \in 0..(LockLimit - 1)
      /\ faults < MaxFaults => faults + 1 \in 0..MaxFaults
      /\ ran < MaxCommands => ran + 1 \in 1..MaxCommands
  BY <1>1
<1>. HIDE DEF Stage
<1>4. ASSUME /\ cmd' \in Commands /\ pc' \in Stage /\ key' \in DOMAIN Kind \cup {NoKey}
             /\ DOMAIN config' = Fields /\ held' \in 0..(LockLimit - 1)
             /\ dropped' \in BOOLEAN /\ edited' \in BOOLEAN
             /\ ran' \in 1..MaxCommands /\ faults' \in 0..MaxFaults
             /\ Std \notin DOMAIN before'
      PROVE  TypeOK'
  BY <1>4 DEF TypeOK, Stage
<1>5. ASSUME NEW how \in Ends, End(how), faults' \in 0..MaxFaults PROVE TypeOK'
  <2>1. how \in Stage
    BY DEF Stage
  <2>. QED  BY <1>1, <1>3, <1>4, <1>5, <2>1 DEF End
<1>6. {"ok", "failed", "panic", "killed"} \subseteq Ends
  BY DEF Ends
<1>7. ASSUME NEW how \in Ends, Return(how) PROVE TypeOK'
  BY <1>1, <1>5, <1>7 DEF Return
<1>8. ASSUME Fault PROVE TypeOK'
  BY <1>3, <1>5, <1>6, <1>8 DEF Fault
<1>9. CASE OpenInput \/ OpenOutput
  <2>1. CASE /\ pc' \in {"output", "read", "key"}
             /\ UNCHANGED <<cmd, key, held, dropped, before, config, edited, ran, faults>>
    <3>1. pc' \in Stage
      BY <2>1 DEF Stage
    <3>. QED  BY <1>1, <1>4, <2>1, <3>1
  <2>. QED  BY <1>6, <1>7, <1>8, <1>9, <2>1 DEF OpenInput, OpenOutput
<1>10. CASE ReadKey
  <2>1. CASE /\ FirstKey(Contents(file, cmd.key)) \in DOMAIN Kind
             /\ pc' = "read" /\ key' = FirstKey(Contents(file, cmd.key)) /\ held' = 1
             /\ UNCHANGED <<cmd, dropped, before, config, edited, ran, faults>>
    <3>1. pc' \in Stage
      BY <2>1 DEF Stage
    <3>. QED  BY <1>1, <1>3, <1>4, <2>1, <3>1
  <2>. QED  BY <1>6, <1>7, <1>10, <2>1 DEF ReadKey, UseKey
<1>11. CASE ReadInput
  <2>1. CASE /\ pc = "read" /\ pc' = cmd.tool
             /\ UNCHANGED <<cmd, key, held, dropped, before, config, edited, ran, faults>>
    <3>1. pc' \in Stage
      BY <1>1, <2>1, ConstantsAssumption DEF Stage, KeyInv
    <3>. QED  BY <1>1, <1>4, <2>1, <3>1
  <2>. QED  BY <1>6, <1>8, <1>11, <2>1 DEF ReadInput
<1>12. CASE ConvertBlock
  <2>1. CASE held + 2 <= LockLimit /\ Converted(1)
    <3>1. /\ held' = held + 1 /\ dropped' \in BOOLEAN /\ faults' \in 0..MaxFaults
          /\ UNCHANGED <<cmd, pc, key, before, config, edited, ran>>
      BY <1>1, <1>3, <2>1 DEF Converted
    <3>. QED  BY <1>1, <1>3, <1>4, <2>1, <3>1
  <2>. QED  BY <1>6, <1>7, <1>12, <2>1 DEF ConvertBlock
<1>13. CASE ConvertDone \/ PushDone \/ Kill
  BY <1>6, <1>7, <1>13 DEF ConvertDone, PushDone, Kill
<1>14. CASE Encrypt \/ Decrypt
  <2>1. CASE /\ pc' = "ok" /\ held' = 0
             /\ UNCHANGED <<cmd, key, dropped, before, config, edited, ran, faults>>
    <3>1. pc' \in Stage
      BY <1>6, <2>1 DEF Stage
    <3>. QED  BY <1>1, <1>3, <1>4, <2>1, <3>1
  <2>. QED  BY <1>6, <1>7, <1>8, <1>14, <2>1 DEF Encrypt, Decrypt, WriteMessage
<1>15. CASE ReadSource \/ LoadDone \/ Show \/ OpenDestination \/ WriteDestination
  <2>1. CASE /\ pc' \in {pc, "print", "load", "ok", "push", "write"} /\ DOMAIN config' = Fields
             /\ UNCHANGED <<cmd, key, held, dropped, before, edited, ran, faults>>
    <3>1. pc' \in Stage
      BY <1>1, <1>6, <2>1 DEF Stage
    <3>. QED  BY <1>1, <1>4, <2>1, <3>1
  <2>2. CASE ReadSource
    <3>1. \/ Fault \/ Return("failed")
          \/ /\ pc' = pc /\ UNCHANGED <<cmd, key, held, dropped, before, edited, ran, faults>>
             /\ config' = config \/ \E d: config' = Overlay(config, d)
      BY <2>2 DEF ReadSource
    <3>. QED  BY <1>1, <1>2, <1>6, <1>7, <1>8, <2>1, <3>1
  <2>3. CASE LoadDone
    <3>1. \/ Return("failed")
          \/ /\ pc' \in {"print", "load", "ok", "push"} /\ config' \in {Loaded, Default}
             /\ UNCHANGED <<cmd, key, held, dropped, before, edited, ran, faults>>
      BY <2>3 DEF LoadDone
    <3>. QED  BY <1>2, <1>6, <1>7, <2>1, <3>1
  <2>4. CASE Show \/ OpenDestination \/ WriteDestination
    BY <1>1, <1>6, <1>8, <2>1, <2>4 DEF Show, OpenDestination, WriteDestination
  <2>. QED  BY <1>15, <2>2, <2>3, <2>4
<1>16. CASE Edit
  <2>1. /\ faults' \in 0..MaxFaults /\ edited' = TRUE
        /\ UNCHANGED <<cmd, pc, key, config, held, dropped, before, ran>>
    BY <1>3, <1>16 DEF Edit
  <2>. QED  BY <1>1, <1>4, <2>1
<1>17. CASE Start
  <2>1. /\ ran' \in 1..MaxCommands /\ cmd' \in Commands /\ pc' = Entry(cmd') /\ key' = NoKey
        /\ config' = Default /\ held' = 0 /\ dropped' = FALSE /\ edited' = FALSE
        /\ faults' = faults /\ Std \notin DOMAIN before'
    BY <1>3, <1>17 DEF Start
  <2>2. pc' \in Stage
    BY <2>1 DEF Entry, Stage
  <2>. QED  BY <1>1, <1>2, <1>3, <1>4, <2>1, <2>2
<1>18. CASE UNCHANGED vars
  BY <1>1, <1>4, <1>18 DEF vars
<1>. QED  BY <1>9, <1>10, <1>11, <1>12, <1>13, <1>14, <1>15, <1>16, <1>17, <1>18
          DEF Next, Work

(* The variables have their types: never more buffers are locked than the  *)
(* memory limit allows.                                                    *)
THEOREM TypeCorrect == Spec => []TypeOK
  BY KeyInvInit, KeyInvNext, TypesInit, TypesNext, PTL DEF Spec

-----------------------------------------------------------------------------
(* A set of contents that holds whatever its ciphertexts were made from.   *)
Closed(S) ==
    /\ << >> \in S
    /\ \A c \in S: IsSeq(c) /\ \A i \in DOMAIN c: "of" \in DOMAIN c[i] => c[i].of \in S

Universe(S) ==
    /\ Closed(S) /\ Found \subseteq S
    /\ \A p \in DOMAIN file: file[p] \in S
    /\ \A p \in DOMAIN before: before[p] \in S
    /\ pc \in {"encrypt", "decrypt"} => chain \in S

(* Every content is a sequence, and so is everything that decrypting can   *)
(* give.                                                                   *)
ContentsInv == \E S: Universe(S)

LEMMA ContentAdded ==
    ASSUME NEW S, Universe(S), NEW c, IsSeq(c),
           \A i \in DOMAIN c: "of" \in DOMAIN c[i] => c[i].of \in S,
           \A p \in DOMAIN file': file'[p] \in S \cup {c},
           \A p \in DOMAIN before': before'[p] \in S \cup {c},
           pc' \in {"encrypt", "decrypt"} => chain' \in S \cup {c}
    PROVE  ContentsInv'
<1>. DEFINE T == S \cup {c}
<1>1. Closed(T) /\ Found \subseteq T
  BY DEF Closed, Universe
<1>2. Universe(T)'
  BY <1>1 DEF Universe, Closed, Found
<1>. QED  BY <1>2 DEF ContentsInv

LEMMA ContentsKept ==
    ASSUME ContentsInv, UNCHANGED <<file, before>>,
           pc' \in {"encrypt", "decrypt"} => pc \in {"encrypt", "decrypt"} /\ chain' = chain
    PROVE  ContentsInv'
<1>1. PICK S: Universe(S)
  BY DEF ContentsInv
<1>2. Universe(S)'
  BY <1>1 DEF Universe, Closed, Found
<1>. QED  BY <1>2 DEF ContentsInv

LEMMA ContentsInit == Init => ContentsInv
<1>. SUFFICES ASSUME Init PROVE ContentsInv
  OBVIOUS
<1>. DEFINE S == Found \cup {<< >>}
<1>1. \A c \in Found: IsSeq(c)
  BY ContentsAssumption DEF IsSeq
<1>2. \A c \in Found: \A i \in DOMAIN c: "of" \in DOMAIN c[i] => c[i].of \in Found
  BY ContentsAssumption DEF Found
<1>3. \A i \in DOMAIN << >>: FALSE
  OBVIOUS
<1>4. Closed(S)
  BY <1>1, <1>2, <1>3, EmptyIsSeq DEF Closed
<1>5. \A p \in DOMAIN file: file[p] \in Found
  BY DEF Init, Found, Range
<1>6. pc \notin {"encrypt", "decrypt"} /\ before = file
  BY DEF Init, Entry
<1>7. Universe(S)
  BY <1>4, <1>5, <1>6 DEF Universe
<1>. QED  BY <1>7 DEF ContentsInv

LEMMA ContentsNext == KeyInv /\ ContentsInv /\ [Next]_vars => ContentsInv'
<1>. SUFFICES ASSUME KeyInv, ContentsInv, [Next]_vars PROVE ContentsInv'
  OBVIOUS
<1>1. PICK S: Universe(S)
  BY DEF ContentsInv
<1>2. /\ Closed(S) /\ << >> \in S /\ \A i \in DOMAIN << >>: FALSE
      /\ \A c \in S: IsSeq(c) /\ \A i \in DOMAIN c: "of" \in DOMAIN c[i] => c[i].of \in S
      /\ \A p \in DOMAIN file: file[p] \in S
      /\ \A p \in DOMAIN before: before[p] \in S
      /\ Stdin \in S /\ Edits \subseteq S
      /\ pc \in {"encrypt", "decrypt"} => chain \in S
  BY <1>1 DEF Universe, Closed, Found
<1>3. \A name: Contents(file, name) \in S
  BY <1>2 DEF Contents
<1>4. ASSUME NEW how \in Ends, End(how) PROVE ContentsInv'
  <2>1. pc' \notin {"encrypt", "decrypt"}
    BY <1>4 DEF End, Ends
  <2>. QED  BY <1>4, <2>1, ContentsKept DEF End
<1>5. {"ok", "failed", "panic", "killed"} \subseteq Ends
  BY DEF Ends
<1>6. ASSUME NEW how \in Ends, Return(how) PROVE ContentsInv'
  BY <1>4, <1>6 DEF Return
<1>7. ASSUME Fault PROVE ContentsInv'
  BY <1>4, <1>5, <1>7 DEF Fault
(* A content of which nothing is encrypted is written or given to a file.  *)
<1>8. ASSUME NEW c, IsSeq(c), \A i \in DOMAIN c: "of" \in DOMAIN c[i] => c[i].of \in S,
             NEW name, \A p \in DOMAIN file': p = name \/ (p \in DOMAIN file /\ file'[p] = file[p]),
             name \in DOMAIN file' => file'[name] = c,
             before' = before, pc' \notin {"encrypt", "decrypt"}
      PROVE  ContentsInv'
  <2>1. \A p \in DOMAIN file': file'[p] \in S \cup {c}
    BY <1>2, <1>8
  <2>2. \A p \in DOMAIN before': before'[p] \in S \cup {c}
    BY <1>2, <1>8
  <2>. QED  BY <1>1, <1>8, <2>1, <2>2, ContentAdded
<1>9. ASSUME NEW d PROVE IsSeq(<<Doc(d)>>)
                         /\ \A i \in DOMAIN <<Doc(d)>>: "of" \notin DOMAIN <<Doc(d)>>[i]
  BY OneIsSeq, SeqFacts DEF Doc
<1>10. CASE OpenInput
  <2>1. CASE pc' = "output" /\ UNCHANGED <<file, before>>
    BY <2>1, ContentsKept
  <2>. QED  BY <1>5, <1>6, <1>10, <2>1 DEF OpenInput
<1>11. CASE OpenOutput
  <2>1. CASE /\ pc' \in {"read", "key"} /\ before' = before
             /\ file' = [p \in DOMAIN file \cup {cmd.out} |->
                           IF p = cmd.out THEN << >> ELSE file[p]]
    BY <1>2, <1>8, <2>1
  <2>. QED  BY <1>7, <1>11, <2>1 DEF OpenOutput
<1>12. CASE ReadKey
  <2>1. CASE pc' = "read" /\ UNCHANGED <<file, before>>
    BY <2>1, ContentsKept
  <2>. QED  BY <1>5, <1>6, <1>12, <2>1 DEF ReadKey, UseKey
<1>13. CASE ReadInput
  <2>1. CASE chain' = Contents(file, cmd.in) /\ UNCHANGED <<file, before>>
    <3>1. Universe(S)'
      BY <1>1, <1>3, <2>1 DEF Universe, Closed, Found
    <3>. QED  BY <3>1 DEF ContentsInv
  <2>. QED  BY <1>7, <1>13, <2>1 DEF ReadInput
<1>14. CASE ConvertBlock
  <2>1. CASE AtBlock(FALSE) /\ Converted(1)
    <3>. DEFINE old == file[cmd.out]
                item == Pgp(FirstKey(chain), cmd.type)
    <3>1. pc' = "convert" /\ before' = before
      BY <2>1 DEF AtBlock, Converted
    <3>2. CASE file' = file
      BY <3>1, <3>2, ContentsKept
    <3>3. CASE file' = [file EXCEPT ![cmd.out] = Append(old, item)] /\ cmd.out \in DOMAIN file
      <4>1. old \in S /\ IsSeq(old)
        BY <1>2, <3>3
      <4>2. /\ IsSeq(Append(old, item)) /\ Len(Append(old, item)) = Len(old) + 1
            /\ \A i \in 1..Len(old): Append(old, item)[i] = old[i]
            /\ Append(old, item)[Len(old) + 1] = item
        BY <4>1, AppendIsSeq
      <4>3. "of" \notin DOMAIN item
        BY DEF Pgp
      <4>. DEFINE new == Append(old, item)
      <4>. HIDE DEF new, item
      <4>4. \A i \in DOMAIN new: i = Len(old) + 1 \/ i \in 1..Len(old)
        BY <4>1, <4>2, SeqFacts DEF new
      <4>5. DOMAIN old = 1..Len(old)
        BY <4>1, SeqFacts
      <4>6. \A i \in DOMAIN new: "of" \in DOMAIN new[i] => new[i].of \in S
        BY <1>2, <4>1, <4>2, <4>3, <4>4, <4>5 DEF new
      <4>7. /\ DOMAIN file' = DOMAIN file /\ file'[cmd.out] = new
            /\ \A p \in DOMAIN file: p # cmd.out => file'[p] = file[p]
        BY <3>3 DEF new
      <4>8. IsSeq(new)
        BY <4>2 DEF new
      <4>. QED  BY <1>8, <3>1, <4>6, <4>7, <4>8
    <3>4. CASE file' = [file EXCEPT ![cmd.out] = Append(old, item)] /\ cmd.out \notin DOMAIN file
      <4>1. DOMAIN file' = DOMAIN file /\ \A p \in DOMAIN file: file'[p] = file[p]
        BY <3>4
      <4>. QED  BY <1>2, <1>8, <3>1, <3>4, <4>1
    <3>. QED  BY <2>1, <3>2, <3>3, <3>4 DEF Converted, Appended
  <2>. QED  BY <1>5, <1>6, <1>14, <2>1 DEF ConvertBlock
<1>15. CASE ConvertDone \/ PushDone \/ Kill
  BY <1>5, <1>6, <1>15 DEF ConvertDone, PushDone, Kill
<1>16. CASE Encrypt \/ Decrypt
  <2>1. ASSUME NEW c, IsSeq(c), \A i \in DOMAIN c: "of" \in DOMAIN c[i] => c[i].of \in S,
               WriteMessage(c)
        PROVE  ContentsInv'
    <3>1. CASE /\ file' = [file EXCEPT ![cmd.out] = c] /\ pc' = "ok" /\ before' = before
      BY <1>8, <2>1, <3>1
    <3>. QED  BY <1>7, <2>1, <3>1 DEF WriteMessage
  <2>2. CASE pc = "encrypt" /\ WriteMessage(<<Enc(key, chain)>>)
    <3>. DEFINE c == <<Enc(key, chain)>>
    <3>1. IsSeq(c) /\ DOMAIN c = {1} /\ c[1] = Enc(key, chain)
      BY OneIsSeq, SeqFacts
    <3>2. chain \in S /\ Enc(key, chain).of = chain
      BY <1>2, <2>2 DEF Enc
    <3>3. \A i \in DOMAIN c: "of" \in DOMAIN c[i] => c[i].of \in S
      BY <3>1, <3>2
    <3>. HIDE DEF c
    <3>. QED  BY <2>1, <2>2, <3>1, <3>3 DEF c
  <2>3. CASE pc = "decrypt" /\ Encrypted /\ WriteMessage(Head(chain).of)
    <3>1. chain \in S /\ Len(chain) = 1 /\ "of" \in DOMAIN Head(chain)
      BY <1>2, <2>3 DEF Encrypted
    <3>2. chain[1] = Head(chain) /\ 1 \in DOMAIN chain
      <4>1. DOMAIN chain = 1..Len(chain)
        BY <1>2, <3>1, SeqFacts
      <4>. QED  BY <3>1, <4>1
    <3>3. Head(chain).of \in S
      BY <1>2, <3>1, <3>2
    <3>. QED  BY <1>2, <2>1, <2>3, <3>3
  <2>. QED  BY <1>5, <1>6, <1>16, <2>2, <2>3 DEF Encrypt, Decrypt
<1>17. CASE ReadSource \/ LoadDone
  <2>1. CASE UNCHANGED <<file, before>> /\ pc' \in {"provide", "load", "print", "ok", "push"}
    BY <2>1, ContentsKept
  <2>. QED  BY <1>5, <1>6, <1>7, <1>17, <2>1 DEF ReadSource, LoadDone, Loading
<1>18. CASE Show \/ OpenDestination \/ WriteDestination
  <2>1. ASSUME NEW name, NEW c, c = << >> \/ \E d: c = <<Doc(d)>>, file' = Rewritten(name, c),
               before' = before, pc' \in {"ok", "write", "push"}
        PROVE  ContentsInv'
    <3>1. IsSeq(c) /\ \A i \in DOMAIN c: "of" \in DOMAIN c[i] => c[i].of \in S
      BY <1>2, <1>9, <2>1
    <3>. QED  BY <1>8, <2>1, <3>1 DEF Rewritten
  <2>. QED  BY <1>7, <1>18, <2>1 DEF Show, OpenDestination, WriteDestination
<1>19. CASE Edit
  <2>1. PICK p \in DOMAIN file, content \in Edits: file' = [file EXCEPT ![p] = content]
    BY <1>19 DEF Edit
  <2>2. UNCHANGED <<before, pc>> /\ pc \notin {"encrypt", "decrypt"}
    BY <1>19 DEF Edit, KeyInv, Loads, ConfigTools
  <2>3. content \in S
    BY <1>2
  <2>. QED  BY <1>2, <1>8, <2>1, <2>2, <2>3
<1>20. CASE Start
  <2>1. /\ \A p \in DOMAIN file': file'[p] \in S
        /\ before' = file' /\ pc' \notin {"encrypt", "decrypt"}
    BY <1>2, <1>20 DEF Start, Entry
  <2>2. Universe(S)'
    BY <1>1, <2>1 DEF Universe, Closed, Found
  <2>. QED  BY <2>2 DEF ContentsInv
<1>21. CASE UNCHANGED vars
  BY <1>21, ContentsKept DEF vars
<1>. QED  BY <1>10, <1>11, <1>12, <1>13, <1>14, <1>15, <1>16, <1>17, <1>18, <1>19, <1>20,
             <1>21 DEF Next, Work

-----------------------------------------------------------------------------
(* The file system as the command found it, but for one name.              *)
AsFoundBut(name) == \A other: other \notin {name, Std} => Unchanged(other)

(* What a key or message command has read is what it found.                *)
MessageInv ==
    cmd.tool \notin ConfigTools =>
        /\ pc \in {"input", "output"} => AsFoundBut(Std)
        /\ pc \in {"key", "read", "convert", "encrypt", "decrypt"} =>
             cmd.out \in DOMAIN file /\ AsFoundBut(cmd.out)
        /\ pc \in {"key", "read"} => file[cmd.out] = << >>
        /\ pc = "key" => isMessage
        /\ pc \in {"input", "output"} \/ (pc = "read" /\ cmd.tool = "convert") => held = 0
        /\ isMessage /\ pc \in {"read", "encrypt", "decrypt"} =>
             key = FirstKey(Contents(before, cmd.key))
        /\ pc \in {"encrypt", "decrypt"} /\ ~InPlace => chain = Contents(before, cmd.in)

(* A name that is as it was found gives what it gave then.                 *)
LEMMA ContentsFound ==
    ASSUME NEW spoiled, AsFoundBut(spoiled), NEW name, name = Std \/ name # spoiled
    PROVE  Contents(file, name) = Contents(before, name)
<1>1. CASE name = Std
  BY <1>1 DEF Contents
<1>2. CASE name # Std
  <2>1. Unchanged(name)
    BY <1>2 DEF AsFoundBut
  <2>. QED  BY <1>2, <2>1 DEF Unchanged, Contents
<1>. QED  BY <1>1, <1>2

LEMMA MessageInvNext == KeyInv /\ MessageInv /\ [Next]_vars => MessageInv'
<1>. SUFFICES ASSUME KeyInv, MessageInv, [Next]_vars, cmd'.tool \notin ConfigTools
              PROVE  MessageInv'
  BY DEF MessageInv
<1>1. ASSUME pc' \in Ends PROVE MessageInv'
  BY <1>1 DEF MessageInv, Ends
<1>2. {"ok", "failed", "panic", "killed"} \subseteq Ends
  BY DEF Ends
<1>3. ASSUME NEW how \in Ends, Return(how) PROVE MessageInv'
  BY <1>1, <1>3 DEF Return, End
<1>4. ASSUME Fault PROVE MessageInv'
  BY <1>1, <1>2, <1>4 DEF Fault, End
<1>5. ASSUME NEW name, AsFoundBut(name), UNCHANGED <<file, before>> PROVE AsFoundBut(name)'
  BY <1>5 DEF AsFoundBut, Unchanged
<1>6. CASE OpenInput
  <2>1. CASE pc = "input" /\ pc' = "output" /\ UNCHANGED <<file, cmd, before, held>>
    <3>1. AsFoundBut(Std)' /\ held' = 0
      BY <1>5, <2>1 DEF MessageInv
    <3>. QED  BY <2>1, <3>1 DEF MessageInv
  <2>. QED  BY <1>2, <1>3, <1>6, <2>1 DEF OpenInput
<1>7. CASE OpenOutput
  <2>1. CASE /\ pc = "output" /\ pc' = IF cmd.tool = "convert" THEN "read" ELSE "key"
             /\ file' = [p \in DOMAIN file \cup {cmd.out} |->
                           IF p = cmd.out THEN << >> ELSE file[p]]
             /\ UNCHANGED <<cmd, held, before>>
    <3>1. AsFoundBut(Std) /\ held = 0 /\ cmd \in Commands
      BY <2>1 DEF MessageInv, KeyInv
    <3>2. AsFoundBut(cmd.out)'
      BY <2>1, <3>1 DEF AsFoundBut, Unchanged
    <3>3. cmd.tool \in {"convert", "encrypt", "decrypt"}
      BY <2>1, <3>1, ConstantsAssumption
    <3>. QED  BY <2>1, <3>1, <3>2, <3>3 DEF MessageInv, isMessage
  <2>. QED  BY <1>4, <1>7, <2>1 DEF OpenOutput
<1>8. CASE ReadKey
  <2>. DEFINE content == Contents(file, cmd.key)
  <2>1. CASE /\ pc = "key" /\ pc' = "read" /\ PemsAt(content) # {} /\ key' = FirstKey(content)
             /\ UNCHANGED <<file, cmd, before>>
    <3>1. /\ cmd.out \in DOMAIN file /\ AsFoundBut(cmd.out) /\ file[cmd.out] = << >>
          /\ isMessage
      BY <2>1 DEF MessageInv
    <3>2. content # << >>
      BY <2>1, NoPems
    <3>3. cmd.key = Std \/ cmd.key # cmd.out
      BY <3>1, <3>2 DEF Contents
    <3>4. content = Contents(before, cmd.key)
      BY <3>1, <3>3, ContentsFound
    <3>. HIDE DEF content
    <3>5. key' = FirstKey(Contents(before, cmd.key))
      BY <2>1, <3>4
    <3>6. Contents(before, cmd.key)' = Contents(before, cmd.key)
      BY <2>1 DEF Contents
    <3>7. AsFoundBut(cmd.out)'
      BY <1>5, <2>1, <3>1 DEF AsFoundBut
    <3>. QED  BY <2>1, <3>1, <3>5, <3>6, <3>7 DEF MessageInv, isMessage
  <2>. QED  BY <1>2, <1>3, <1>8, <2>1 DEF ReadKey, UseKey
<1>9. CASE ReadInput
  <2>1. CASE /\ pc = "read" /\ pc' = cmd.tool /\ chain' = Contents(file, cmd.in)
             /\ UNCHANGED <<file, cmd, key, before>>
    <3>1. /\ cmd.out \in DOMAIN file /\ AsFoundBut(cmd.out)
          /\ isMessage => key = FirstKey(Contents(before, cmd.key))
      BY <2>1 DEF MessageInv
    <3>2. ~InPlace => chain' = Contents(before, cmd.in)
      BY <2>1, <3>1, ContentsFound DEF InPlace
    <3>3. /\ Contents(before, cmd.key)' = Contents(before, cmd.key)
          /\ Contents(before, cmd.in)' = Contents(before, cmd.in)
          /\ InPlace' = InPlace /\ isMessage' = isMessage
      BY <2>1 DEF Contents, InPlace, isMessage
    <3>4. AsFoundBut(cmd.out)'
      BY <2>1, <3>1 DEF AsFoundBut, Unchanged
    <3>5. pc' \notin {"input", "output", "key", "read"}
      BY <2>1, ConstantsAssumption DEF KeyInv
    <3>. QED  BY <2>1, <3>1, <3>2, <3>3, <3>4, <3>5 DEF MessageInv
  <2>. QED  BY <1>4, <1>9, <2>1 DEF ReadInput
<1>10. CASE ConvertBlock
  <2>1. CASE AtBlock(FALSE) /\ Converted(1)
    <3>1. /\ pc = "convert" /\ cmd.tool = "convert" /\ UNCHANGED <<pc, cmd, before>>
          /\ \/ file' = file
             \/ \E content: file' = [file EXCEPT ![cmd.out] = content]
      BY <2>1 DEF AtBlock, Converted, Appended, KeyInv
    <3>2. cmd.out \in DOMAIN file /\ AsFoundBut(cmd.out)
      BY <3>1 DEF MessageInv, ConfigTools
    <3>3. DOMAIN file' = DOMAIN file /\ \A p \in DOMAIN file: p # cmd.out => file'[p] = file[p]
      BY <3>1
    <3>4. AsFoundBut(cmd.out)'
      BY <3>1, <3>2, <3>3 DEF AsFoundBut, Unchanged
    <3>. QED  BY <3>1, <3>2, <3>3, <3>4 DEF MessageInv
  <2>. QED  BY <1>2, <1>3, <1>10, <2>1 DEF ConvertBlock
<1>11. CASE ConvertDone \/ Encrypt \/ Decrypt \/ Kill
  BY <1>1, <1>2, <1>11 DEF ConvertDone, Encrypt, Decrypt, Kill, WriteMessage, Return, Fault, End
<1>12. CASE ReadSource \/ LoadDone \/ Show \/ OpenDestination \/ WriteDestination \/ PushDone
  <2>1. pc \in ConfigStages /\ cmd' = cmd
    BY <1>12 DEF ReadSource, LoadDone, Show, OpenDestination, WriteDestination, PushDone,
                 Loading, ConfigStages, Return, Fault, End
  <2>. QED  BY <2>1 DEF KeyInv
<1>13. CASE Edit
  BY <1>13 DEF Edit, Loads, ConfigTools
<1>14. CASE Start
  <2>1. before' = file' /\ held' = 0 /\ pc' = "input"
    <3>1. cmd'.tool \notin Loads /\ cmd'.tool # "show-default"
      BY DEF Loads, ConfigTools
    <3>. QED  BY <1>14, <3>1 DEF Start, Entry
  <2>2. AsFoundBut(Std)'
    BY <2>1 DEF AsFoundBut, Unchanged
  <2>. QED  BY <2>1, <2>2 DEF MessageInv
<1>15. CASE UNCHANGED vars
  BY <1>15 DEF vars, MessageInv, AsFoundBut, Unchanged, Contents, InPlace, isMessage
<1>. QED  BY <1>6, <1>7, <1>8, <1>9, <1>10, <1>11, <1>12, <1>13, <1>14, <1>15 DEF Next, Work

LEMMA MessageInvInit == Init => MessageInv
<1>. SUFFICES ASSUME Init, cmd.tool \notin ConfigTools PROVE MessageInv
  BY DEF MessageInv
<1>1. before = file /\ held = 0 /\ pc = "input"
  BY DEF Init, Entry, Loads, ConfigTools
<1>2. AsFoundBut(Std)
  BY <1>1 DEF AsFoundBut, Unchanged
<1>. QED  BY <1>1, <1>2 DEF MessageInv

-----------------------------------------------------------------------------
(* The output holds every key among the first n items of the input.        *)
HoldsUpTo(output, input, n, type) ==
    /\ IsSeq(output) /\ Len(output) = RankIn(input, n)
    /\ \A i \in PemsUpTo(input, n): output[RankIn(input, i)] = Pgp(input[i].pem, type)

(* What convert gets to read: nothing, if its output is its input.         *)
InputOf == IF InPlace THEN << >> ELSE Contents(before, cmd.in)

(* One buffer is locked, and one key written, of every block behind.       *)
ConvertInv ==
    pc = "convert" =>
        /\ IsRest(chain, InputOf)
        /\ held = RankIn(InputOf, Done(chain, InputOf))
        /\ ~dropped => HoldsUpTo(file[cmd.out], InputOf, Done(chain, InputOf), cmd.type)

LEMMA InputIsSeq == ContentsInv => IsSeq(InputOf)
<1>. SUFFICES ASSUME NEW S, Universe(S) PROVE IsSeq(InputOf)
  BY DEF ContentsInv
<1>1. Contents(before, cmd.in) \in S
  BY DEF Universe, Closed, Found, Contents
<1>. QED  BY <1>1, EmptyIsSeq DEF Universe, Closed, InputOf

(* The block that is found next is the next one of the input.              *)
LEMMA NextBlock ==
    ASSUME NEW input, IsRest(chain, input), PemsAt(chain) # {}
    PROVE  LET n == Done(chain, input)
               m == n + First(chain)
           IN  /\ n \in Nat /\ m \in PemsAt(input) /\ n < m
               /\ \A j \in PemsAt(input): j <= n \/ m <= j
               /\ input[m] = chain[First(chain)] /\ First(chain) \in 1..Len(chain)
<1>. DEFINE n == Done(chain, input)
            first == First(chain)
            m == n + first
<1>1. /\ IsSeq(chain) /\ IsSeq(input) /\ n \in Nat /\ Len(chain) \in Nat /\ Len(input) \in Nat
      /\ n + Len(chain) = Len(input)
      /\ \A i \in 1..Len(chain): chain[i] = input[n + i]
  BY SeqFacts DEF IsRest, Done
<1>2. /\ first \in PemsAt(chain) /\ first \in 1..Len(chain)
      /\ \A j \in PemsAt(chain): first <= j
  BY <1>1, FirstIs
<1>3. DOMAIN chain = 1..Len(chain) /\ DOMAIN input = 1..Len(input)
  BY <1>1, SeqFacts
<1>. HIDE DEF n, first
<1>4. input[m] = chain[first] /\ m \in 1..Len(input) /\ n < m
  BY <1>1, <1>2
<1>5. m \in PemsAt(input)
  BY <1>2, <1>3, <1>4 DEF PemsAt
<1>6. ASSUME NEW j \in PemsAt(input), ~(j <= n) PROVE m <= j
  <2>1. j \in 1..Len(input) /\ "pem" \in DOMAIN input[j]
    BY <1>3 DEF PemsAt
  <2>2. j - n \in 1..Len(chain) /\ n + (j - n) = j
    BY <1>1, <1>6, <2>1
  <2>3. chain[j - n] = input[n + (j - n)]
    BY <1>1, <2>2
  <2>4. j - n \in PemsAt(chain)
    BY <1>3, <2>1, <2>2, <2>3 DEF PemsAt
  <2>5. first <= j - n
    BY <1>2, <2>4
  <2>. QED  BY <1>1, <1>2, <2>1, <2>5
<1>. QED  BY <1>1, <1>2, <1>4, <1>5, <1>6 DEF n, first

(* No block is left: everything is behind.                                 *)
LEMMA NoBlockLeft ==
    ASSUME NEW input, IsRest(chain, input), PemsAt(chain) = {}
    PROVE  PemsUpTo(input, Done(chain, input)) = PemsAt(input)
<1>. DEFINE n == Done(chain, input)
<1>1. /\ IsSeq(chain) /\ IsSeq(input) /\ n \in Nat /\ Len(chain) \in Nat /\ Len(input) \in Nat
      /\ n + Len(chain) = Len(input)
      /\ \A i \in 1..Len(chain): chain[i] = input[n + i]
  BY SeqFacts DEF IsRest, Done
<1>3. DOMAIN chain = 1..Len(chain) /\ DOMAIN input = 1..Len(input)
  BY <1>1, SeqFacts
<1>. HIDE DEF n
<1>4. ASSUME NEW j \in PemsAt(input) PROVE j <= n
  <2>1. j \in 1..Len(input) /\ "pem" \in DOMAIN input[j]
    BY <1>3 DEF PemsAt
  <2>. SUFFICES ASSUME ~(j <= n) PROVE FALSE
    OBVIOUS
  <2>2. j - n \in 1..Len(chain) /\ n + (j - n) = j
    BY <1>1, <2>1
  <2>3. chain[j - n] = input[n + (j - n)]
    BY <1>1, <2>2
  <2>4. j - n \in PemsAt(chain)
    BY <1>3, <2>1, <2>2, <2>3 DEF PemsAt
  <2>. QED  BY <2>4
<1>. QED  BY <1>4 DEF PemsUpTo, n

(* One more key is written, behind those that were.                        *)
LEMMA HoldsOneMore ==
    ASSUME NEW input, IsSeq(input), NEW output, NEW n \in Nat, NEW type,
           HoldsUpTo(output, input, n, type),
           NEW m \in PemsAt(input), n < m, \A j \in PemsAt(input): j <= n \/ m <= j
    PROVE  HoldsUpTo(Append(output, Pgp(input[m].pem, type)), input, m, type)
<1>. DEFINE item == Pgp(input[m].pem, type)
            new == Append(output, item)
<1>1. /\ IsSeq(output) /\ Len(output) = RankIn(input, n)
      /\ \A i \in PemsUpTo(input, n): output[RankIn(input, i)] = Pgp(input[i].pem, type)
  BY DEF HoldsUpTo
<1>2. /\ PemsUpTo(input, m) = PemsUpTo(input, n) \cup {m}
      /\ RankIn(input, m) = RankIn(input, n) + 1
  BY RankNext
<1>3. /\ IsSeq(new) /\ Len(new) = Len(output) + 1
      /\ \A i \in 1..Len(output): new[i] = output[i]
      /\ new[Len(output) + 1] = item
  BY <1>1, AppendIsSeq
<1>. HIDE DEF new
<1>4. ASSUME NEW i \in PemsUpTo(input, n)
      PROVE  new[RankIn(input, i)] = Pgp(input[i].pem, type)
  <2>1. RankIn(input, i) \in 1..RankIn(input, n)
    BY RankBounds
  <2>. QED  BY <1>1, <1>3, <2>1
<1>5. new[RankIn(input, m)] = Pgp(input[m].pem, type)
  BY <1>1, <1>2, <1>3
<1>6. Len(new) = RankIn(input, m)
  BY <1>1, <1>2, <1>3
<1>7. HoldsUpTo(new, input, m, type)
  BY <1>2, <1>3, <1>4, <1>5, <1>6 DEF HoldsUpTo
<1>. QED  BY <1>7 DEF new

LEMMA InputOfKept == UNCHANGED <<cmd, before>> => InputOf' = InputOf
  BY DEF InputOf, InPlace, Contents

LEMMA ConvertInvNext ==
    KeyInv /\ MessageInv /\ ContentsInv /\ ConvertInv /\ [Next]_vars => ConvertInv'
<1>. SUFFICES ASSUME KeyInv, MessageInv, ContentsInv, ConvertInv, [Next]_vars, pc' = "convert"
              PROVE  ConvertInv'
  BY DEF ConvertInv
<1>1. \/ ReadInput /\ ~Fault
      \/ AtBlock(FALSE) /\ Converted(1)
      \/ UNCHANGED vars
  BY DEF Next, Work, OpenInput, OpenOutput, ReadKey, UseKey, ConvertBlock, ConvertDone, Encrypt,
         Decrypt, WriteMessage, ReadSource, LoadDone, Show, OpenDestination, WriteDestination,
         PushDone, Edit, Kill, Start, Return, Fault, End, Ends, Entry, Loads, Loading, KeyInv,
         ConfigTools
<1>2. CASE ReadInput /\ ~Fault
  <2>1. /\ pc = "read" /\ cmd.tool = "convert" /\ chain' = Contents(file, cmd.in)
        /\ UNCHANGED <<file, cmd, held, dropped, before>>
    BY <1>2 DEF ReadInput
  <2>2. /\ cmd.out \in DOMAIN file /\ AsFoundBut(cmd.out) /\ file[cmd.out] = << >> /\ held = 0
    BY <2>1 DEF MessageInv, ConfigTools
  <2>3. chain' = InputOf
    <3>1. CASE InPlace
      BY <2>1, <2>2, <3>1 DEF InPlace, InputOf, Contents
    <3>2. CASE ~InPlace
      BY <2>1, <2>2, <3>2, ContentsFound DEF InPlace, InputOf
    <3>. QED  BY <3>1, <3>2
  <2>. DEFINE input == InputOf
  <2>4. IsSeq(input) /\ InputOf' = input
    BY <2>1, InputIsSeq, InputOfKept
  <2>. HIDE DEF input
  <2>5. IsRest(input, input) /\ Done(input, input) = 0
    BY <2>4, RestOfAll
  <2>6. RankIn(input, 0) = 0 /\ PemsUpTo(input, 0) = {}
    BY <2>4, RankNone
  <2>7. HoldsUpTo(<< >>, input, 0, cmd'.type)
    BY <2>6, EmptyIsSeq DEF HoldsUpTo
  <2>8. chain' = input /\ held' = 0 /\ file'[cmd'.out] = << >> /\ cmd' = cmd
    BY <2>1, <2>2, <2>3 DEF input
  <2>. QED  BY <2>4, <2>5, <2>6, <2>7, <2>8 DEF ConvertInv
<1>3. CASE AtBlock(FALSE) /\ Converted(1)
  <2>. DEFINE input == InputOf
              n == Done(chain, input)
              m == n + First(chain)
              out == file[cmd.out]
  <2>1. /\ pc = "convert" /\ cmd.tool = "convert" /\ PemsAt(chain) # {}
        /\ held' = held + 1 /\ chain' = Rest
        /\ UNCHANGED <<cmd, before>>
        /\ \/ file' = [file EXCEPT ![cmd.out] = Append(out, Pgp(FirstKey(chain), cmd.type))]
              /\ dropped' = dropped
           \/ dropped' = TRUE
    BY <1>3 DEF AtBlock, Converted, Appended, KeyInv
  <2>2. /\ IsRest(chain, input) /\ held = RankIn(input, n)
        /\ ~dropped => HoldsUpTo(out, input, n, cmd.type)
    BY <2>1 DEF ConvertInv
  <2>3. /\ cmd.out \in DOMAIN file /\ IsSeq(input) /\ InputOf' = input
    BY <2>1, <2>2, InputOfKept DEF MessageInv, ConfigTools, IsRest
  <2>. HIDE DEF input
  <2>4. /\ n \in Nat /\ m \in PemsAt(input) /\ n < m
        /\ \A j \in PemsAt(input): j <= n \/ m <= j
        /\ input[m] = chain[First(chain)] /\ First(chain) \in 1..Len(chain)
    BY <2>1, <2>2, NextBlock
  <2>5. IsRest(chain', input) /\ Done(chain', input) = m
    BY <2>1, <2>2, <2>4, RestStep DEF Rest
  <2>. HIDE DEF n, m
  <2>6. RankIn(input, m) = RankIn(input, n) + 1
    BY <2>3, <2>4, RankNext
  <2>7. ASSUME ~dropped' PROVE HoldsUpTo(file'[cmd'.out], input, m, cmd'.type)
    <3>1. ~dropped /\ file'[cmd.out] = Append(out, Pgp(FirstKey(chain), cmd.type))
      BY <2>1, <2>3, <2>7
    <3>2. FirstKey(chain) = input[m].pem
      BY <2>4 DEF FirstKey
    <3>3. HoldsUpTo(Append(out, Pgp(input[m].pem, cmd.type)), input, m, cmd.type)
      <4>. HIDE DEF out
      <4>. QED  BY <2>2, <2>3, <2>4, <3>1, HoldsOneMore
    <3>. QED  BY <2>1, <3>1, <3>2, <3>3
  <2>. QED  BY <2>1, <2>2, <2>3, <2>5, <2>6, <2>7 DEF ConvertInv
<1>4. CASE UNCHANGED vars
  <2>1. InputOf' = InputOf
    BY <1>4, InputOfKept DEF vars
  <2>. QED  BY <1>4, <2>1 DEF vars, ConvertInv
<1>. QED  BY <1>1, <1>2, <1>3, <1>4

LEMMA ConvertInvInit == Init => ConvertInv
  BY DEF Init, ConvertInv, Entry

(* However long the chain and whatever is in it, convert panics only when  *)
(* there are as many keys as buffers can be locked, and nothing else does. *)
THEOREM PanicsOnLongChains == Spec => []PanicOnlyOnLongChains
<1>1. Init => PanicOnlyOnLongChains
  BY DEF Init, Entry, PanicOnlyOnLongChains
<1>2. KeyInv /\ TypeOK /\ ConvertInv /\ PanicOnlyOnLongChains /\ [Next]_vars
      => PanicOnlyOnLongChains'
  <2>. SUFFICES ASSUME KeyInv, TypeOK, ConvertInv, PanicOnlyOnLongChains, [Next]_vars,
                       pc' = "panic"
                PROVE  PanicOnlyOnLongChains'
    BY DEF PanicOnlyOnLongChains
  <2>1. \/ AtBlock(FALSE) /\ held + 2 > LockLimit /\ Return("panic")
        \/ UNCHANGED vars
    <3>1. ~ReadInput
      BY ConstantsAssumption DEF ReadInput, Fault, End, KeyInv, ConfigTools
    <3>2. ~(OpenInput \/ OpenOutput \/ ReadKey)
      BY DEF OpenInput, OpenOutput, ReadKey, UseKey, Return, Fault, End
    <3>3. ~(ConvertDone \/ Encrypt \/ Decrypt)
      BY DEF ConvertDone, Encrypt, Decrypt, WriteMessage, Return, Fault, End
    <3>4. ~(ReadSource \/ LoadDone \/ Show \/ OpenDestination \/ WriteDestination \/ PushDone)
      BY DEF ReadSource, LoadDone, Show, OpenDestination, WriteDestination, PushDone, Loading,
             Return, Fault, End
    <3>5. ~(Edit \/ Kill \/ Start)
      BY DEF Edit, Kill, Start, Ends, Entry, Return, End
    <3>6. ConvertBlock => AtBlock(FALSE) /\ held + 2 > LockLimit /\ Return("panic")
      BY DEF ConvertBlock, Converted, AtBlock, Return, End
    <3>. QED  BY <3>1, <3>2, <3>3, <3>4, <3>5, <3>6 DEF Next, Work
  <2>2. CASE AtBlock(FALSE) /\ held + 2 > LockLimit /\ Return("panic")
    <3>. DEFINE input == InputOf
                n == Done(chain, input)
                m == n + First(chain)
    <3>1. /\ cmd.tool = "convert" /\ pc = "convert" /\ PemsAt(chain) # {}
          /\ UNCHANGED <<cmd, before>>
      BY <2>2 DEF AtBlock, KeyInv, Return, End
    <3>2. IsRest(chain, input) /\ held = RankIn(input, n) /\ IsSeq(input)
      BY <3>1 DEF ConvertInv, IsRest
    <3>. HIDE DEF input
    <3>3. /\ n \in Nat /\ m \in PemsAt(input) /\ n < m
          /\ \A j \in PemsAt(input): j <= n \/ m <= j
      BY <3>1, <3>2, NextBlock
    <3>. HIDE DEF n, m
    <3>4. RankIn(input, n) + 1 <= Cardinality(PemsAt(input))
      BY <3>2, <3>3, RankNext
    <3>5. Cardinality(PemsAt(input)) \in Nat /\ LockLimit \in Nat /\ held \in Nat
      BY <3>2, PemsFinite, ConstantsAssumption
    <3>6. Cardinality(PemsAt(input)) >= LockLimit
      BY <2>2, <3>2, <3>4, <3>5
    <3>7. input = Contents(before, cmd.in)
      BY <3>3, NoPems DEF input, InputOf
    <3>. QED  BY <3>1, <3>6, <3>7 DEF PanicOnlyOnLongChains, Contents
  <2>3. CASE UNCHANGED vars
    BY <2>3 DEF vars, PanicOnlyOnLongChains, Contents
  <2>. QED  BY <2>1, <2>2, <2>3
<1>. QED  BY <1>1, <1>2, KeyInvInit, KeyInvNext, TypesInit, TypesNext, ContentsInit, ContentsNext,
             MessageInvInit, MessageInvNext, ConvertInvInit, ConvertInvNext, PTL DEF Spec

-----------------------------------------------------------------------------
(* The first n sources that name a field, and what has been read of them:  *)
(* the word of the last one.                                               *)
NamingUpTo(disk, names, f, n) ==
    {i \in 1..n: disk[names[i]] # << >> /\ f \in DOMAIN disk[names[i]][1].doc}

HasRead(c, disk, names, n) ==
    \A f \in Fields:
        \/ NamingUpTo(disk, names, f, n) = {} /\ c[f] = Default[f]
        \/ \E i \in NamingUpTo(disk, names, f, n):
             /\ \A j \in NamingUpTo(disk, names, f, n): j <= i
             /\ c[f] = disk[names[i]][1].doc[f]

LoadInv ==
    Loading =>
        /\ AsFoundBut(Std) /\ cmd.tool \in Loads
        /\ IsRest(chain, cmd.configs)
        /\ HasRead(config, before, cmd.configs, Done(chain, cmd.configs))
        /\ pc = "load" => Validate(Effective)

(* The destinations behind the one that is being written.                  *)
PushInv ==
    pc \in {"push", "write"} =>
        /\ cmd.tool = "push" /\ config = Effective /\ Validate(Effective)
        /\ IsRest(chain, cmd.outs) /\ (pc = "write" => chain # << >>)
        /\ \A i \in 1..Done(chain, cmd.outs):
            /\ cmd.outs[i] \in DOMAIN file
            /\ \/ file[cmd.outs[i]] = <<Doc(Effective)>>
               \/ pc = "write" /\ cmd.outs[i] = Head(chain)

PrintInv ==
    pc = "print" =>
        \/ cmd.tool = "show-default" /\ config = Default
        \/ cmd.tool = "show" /\ config = Effective /\ Validate(Effective)

ConfigInv == cmd.tool \in ConfigTools /\ ~edited => LoadInv /\ PushInv /\ PrintInv

LEMMA NothingRead == \A disk, names: HasRead(Default, disk, names, 0)
<1>. SUFFICES ASSUME NEW disk, NEW names, NEW f \in Fields
              PROVE  NamingUpTo(disk, names, f, 0) = {}
  BY DEF HasRead
<1>. QED  BY DEF NamingUpTo

(* One more document overlays those that were read.                        *)
LEMMA ReadOneMore ==
    ASSUME NEW c, NEW disk, NEW names, NEW n \in Nat, HasRead(c, disk, names, n)
    PROVE  LET content == disk[names[n + 1]]
           IN  HasRead(IF content = << >> THEN c ELSE Overlay(c, content[1].doc),
                       disk, names, n + 1)
<1>. DEFINE content == disk[names[n + 1]]
            new == IF content = << >> THEN c ELSE Overlay(c, content[1].doc)
            N(f, k) == NamingUpTo(disk, names, f, k)
<1>. SUFFICES ASSUME NEW f \in Fields
              PROVE  \/ N(f, n + 1) = {} /\ new[f] = Default[f]
                     \/ \E i \in N(f, n + 1): /\ \A j \in N(f, n + 1): j <= i
                                              /\ new[f] = disk[names[i]][1].doc[f]
  BY DEF HasRead
<1>1. \A k \in 1..(n + 1): k \in 1..n \/ k = n + 1
  OBVIOUS
<1>2. n + 1 \in 1..(n + 1) /\ 1..n \subseteq 1..(n + 1)
  OBVIOUS
<1>3. CASE content # << >> /\ f \in DOMAIN content[1].doc
  <2>1. n + 1 \in N(f, n + 1) /\ \A j \in N(f, n + 1): j <= n + 1
    BY <1>2, <1>3 DEF NamingUpTo
  <2>2. new[f] = disk[names[n + 1]][1].doc[f]
    BY <1>3 DEF Overlay
  <2>. QED  BY <2>1, <2>2
<1>4. CASE ~(content # << >> /\ f \in DOMAIN content[1].doc)
  <2>1. N(f, n + 1) = N(f, n)
    BY <1>1, <1>2, <1>4 DEF NamingUpTo
  <2>2. new[f] = c[f]
    BY <1>4 DEF Overlay
  <2>3. \/ N(f, n) = {} /\ c[f] = Default[f]
        \/ \E i \in N(f, n): (\A j \in N(f, n): j <= i) /\ c[f] = disk[names[i]][1].doc[f]
    BY DEF HasRead
  <2>. HIDE DEF N, new
  <2>. QED  BY <2>1, <2>2, <2>3
<1>. QED  BY <1>3, <1>4

(* When all sources are read, the loaded configuration is the effective one.*)
LEMMA LoadedIsEffective ==
    ASSUME IsSeq(cmd.configs), HasRead(config, before, cmd.configs, Len(cmd.configs))
    PROVE  Loaded = Effective
<1>. DEFINE n == Len(cmd.configs)
            N(f) == NamingUpTo(before, cmd.configs, f, n)
            Last(f) == CHOOSE i \in N(f): \A j \in N(f): j <= i
            Word(f) == IF f \in DOMAIN Environ THEN Environ[f]
                       ELSE IF N(f) = {} THEN Zero
                       ELSE before[cmd.configs[Last(f)]][1].doc[f]
            Eff(f) == IF Word(f) = Zero THEN Fallback[f] ELSE Word(f)
<1>1. DOMAIN cmd.configs = 1..n
  BY SeqFacts
<1>2. Effective = [f \in Fields |-> Eff(f)]
  BY <1>1 DEF Effective, NamingUpTo
<1>3. Loaded = [f \in Fields |-> IF Overlay(config, Environ)[f] = Zero THEN Fallback[f]
                                 ELSE Overlay(config, Environ)[f]]
  BY DEF Loaded, Defaults
<1>4. ASSUME NEW f \in Fields PROVE Loaded[f] = Eff(f)
  <2>1. CASE f \in DOMAIN Environ
    BY <1>3, <2>1 DEF Overlay
  <2>2. CASE f \notin DOMAIN Environ /\ N(f) = {}
    <3>1. config[f] = Default[f] /\ Default[f] = Fallback[f]
      BY <2>2 DEF HasRead, Default, Defaults
    <3>. QED  BY <1>3, <2>2, <3>1 DEF Overlay
  <2>3. CASE f \notin DOMAIN Environ /\ N(f) # {}
    <3>1. PICK i \in N(f): (\A j \in N(f): j <= i)
                           /\ config[f] = before[cmd.configs[i]][1].doc[f]
      BY <2>3 DEF HasRead
    <3>2. N(f) \subseteq Int
      BY DEF NamingUpTo
    <3>. HIDE DEF N
    <3>3. Last(f) \in N(f) /\ \A j \in N(f): j <= Last(f)
      BY <3>1
    <3>4. Last(f) = i
      BY <3>1, <3>2, <3>3
    <3>. QED  BY <1>3, <2>3, <3>1, <3>4 DEF Overlay
  <2>. QED  BY <2>1, <2>2, <2>3
<1>. HIDE DEF Eff
<1>. QED  BY <1>2, <1>3, <1>4

LEMMA EffectiveKept == UNCHANGED <<cmd, before>> => Effective' = Effective
  BY DEF Effective

LEMMA ConfigInvInit == Init => ConfigInv
<1>. SUFFICES ASSUME Init PROVE ConfigInv
  OBVIOUS
<1>1. /\ pc = Entry(cmd) /\ before = file /\ config = Default /\ chain = Sources(cmd)
      /\ cmd \in Commands
  BY DEF Init
<1>2. ASSUME Loading, cmd.tool \in ConfigTools PROVE LoadInv
  <2>1. pc = "provide" /\ cmd.tool \in Loads /\ chain = cmd.configs
    BY <1>1, <1>2 DEF Loading, Entry, Sources
  <2>2. IsSeq(cmd.configs)
    BY <1>1, <1>2, ConstantsAssumption DEF IsSeq, ConfigTools
  <2>3. IsRest(chain, cmd.configs) /\ Done(chain, cmd.configs) = 0
    BY <2>1, <2>2, RestOfAll
  <2>4. AsFoundBut(Std)
    BY <1>1 DEF AsFoundBut, Unchanged
  <2>. QED  BY <1>1, <2>1, <2>3, <2>4, NothingRead DEF LoadInv
<1>3. PrintInv /\ PushInv
  BY <1>1 DEF PrintInv, PushInv, Entry, Loads, ConfigTools, ConstantsAssumption
<1>. QED  BY <1>2, <1>3 DEF ConfigInv, LoadInv

LEMMA ConfigNames ==
    ASSUME KeyInv, cmd.tool \in ConfigTools
    PROVE  /\ IsSeq(cmd.configs) /\ IsSeq(cmd.outs)
           /\ \A i \in 1..Len(cmd.configs): cmd.configs[i] # Std
<1>1. /\ cmd.configs \in Seq(Range(cmd.configs) \ {Std})
      /\ cmd.outs \in Seq(Range(cmd.outs) \ {Std})
  BY ConstantsAssumption DEF KeyInv, ConfigTools
<1>. QED  BY <1>1, ElementOfSeq DEF IsSeq

(* A configuration command at work keeps what it knows about its sources.  *)
LEMMA ConfigInvNext == KeyInv /\ ContentsInv /\ ConfigInv /\ [Next]_vars => ConfigInv'
<1>. SUFFICES ASSUME KeyInv, ContentsInv, ConfigInv, [Next]_vars,
                     cmd'.tool \in ConfigTools, ~edited'
              PROVE  (LoadInv /\ PushInv /\ PrintInv)'
  BY DEF ConfigInv
<1>1. ASSUME pc' \in Ends PROVE (LoadInv /\ PushInv /\ PrintInv)'
  BY <1>1 DEF Ends, LoadInv, PushInv, PrintInv, Loading
<1>2. ASSUME NEW how \in Ends, End(how) PROVE pc' \in Ends
  BY <1>2 DEF End
<1>3. {"ok", "failed", "panic", "killed"} \subseteq Ends
  BY DEF Ends
<1>4. CASE Start
  <2>1. /\ pc' = Entry(cmd') /\ before' = file' /\ config' = Default /\ chain' = Sources(cmd')
        /\ cmd' \in Commands
    BY <1>4 DEF Start
  <2>2. ASSUME Loading' PROVE LoadInv'
    <3>1. pc' = "provide" /\ cmd'.tool \in Loads /\ chain' = cmd'.configs
      BY <2>1, <2>2 DEF Loading, Entry, Sources
    <3>2. IsSeq(cmd'.configs)
      BY <2>1, ConstantsAssumption DEF IsSeq, ConfigTools
    <3>3. IsRest(chain', cmd'.configs) /\ Done(chain', cmd'.configs) = 0
      BY <3>1, <3>2, RestOfAll
    <3>4. AsFoundBut(Std)'
      BY <2>1 DEF AsFoundBut, Unchanged
    <3>5. HasRead(config', before', cmd'.configs, Done(chain', cmd'.configs))
      BY <2>1, <3>3, NothingRead
    <3>. QED  BY <3>1, <3>3, <3>4, <3>5 DEF LoadInv
  <2>3. (PrintInv /\ PushInv)'
    BY <2>1, ConstantsAssumption DEF PrintInv, PushInv, Entry, Loads, ConfigTools
  <2>. QED  BY <2>2, <2>3 DEF LoadInv
<1>5. CASE Edit
  BY <1>5 DEF Edit
<1>6. CASE UNCHANGED vars
  <2>1. Effective' = Effective /\ LoadInv /\ PushInv /\ PrintInv
    BY <1>6, EffectiveKept DEF vars, ConfigInv
  <2>. QED  BY <1>6, <2>1 DEF vars, LoadInv, PushInv, PrintInv, Loading, AsFoundBut, Unchanged
<1>7. CASE Kill
  BY <1>1, <1>2, <1>3, <1>7 DEF Kill, Return
<1>8. CASE OpenInput \/ OpenOutput \/ ReadKey \/ ReadInput \/ ConvertBlock \/ ConvertDone
           \/ Encrypt \/ Decrypt
  <2>1. cmd' = cmd /\ pc \in {"input", "output", "key", "read", "convert", "encrypt", "decrypt"}
    BY <1>8 DEF OpenInput, OpenOutput, ReadKey, UseKey, ReadInput, ConvertBlock, AtBlock, Converted,
                ConvertDone, Encrypt, Decrypt, WriteMessage, Return, Fault, End
  <2>. QED  BY <2>1 DEF KeyInv, ConfigTools
<1>9. CASE ReadSource \/ LoadDone \/ Show \/ OpenDestination \/ WriteDestination \/ PushDone
  <2>1. UNCHANGED <<cmd, before, edited>>
    BY <1>9 DEF ReadSource, LoadDone, Show, OpenDestination, WriteDestination, PushDone,
                Return, Fault, End
  <2>2. /\ LoadInv /\ PushInv /\ PrintInv /\ Effective' = Effective
        /\ cmd.tool \in ConfigTools
    BY <2>1, EffectiveKept DEF ConfigInv
  <2>. DEFINE names == cmd.configs
  <2>3. IsSeq(names) /\ IsSeq(cmd.outs) /\ \A i \in 1..Len(names): names[i] # Std
    BY <2>2, ConfigNames
  <2>4. CASE ReadSource
    <3>. DEFINE name == Head(chain)
                content == file[name]
                n == Done(chain, names)
    <3>1. CASE /\ Loading /\ chain # << >> /\ chain' = Tail(chain)
               /\ name \in DOMAIN file /\ IsDocument(content)
               /\ config' = IF content = << >> THEN config ELSE Overlay(config, Head(content).doc)
               /\ UNCHANGED <<file, pc>>
      <4>1. /\ AsFoundBut(Std) /\ cmd.tool \in Loads /\ IsRest(chain, names)
            /\ HasRead(config, before, names, n)
            /\ pc = "load" => Validate(Effective)
        BY <2>2, <3>1 DEF LoadInv
      <4>2. /\ IsRest(chain', names) /\ Done(chain', names) = n + 1 /\ n + 1 \in 1..Len(names)
            /\ name = names[n + 1] /\ n \in Nat
        BY <3>1, <4>1, RestTail DEF IsRest
      <4>3. content = before[names[n + 1]]
        BY <2>3, <3>1, <4>1, <4>2 DEF AsFoundBut, Unchanged
      <4>4. content # << >> => Head(content) = content[1]
        <5>1. \E T: content \in Seq(T)
          BY <3>1 DEF ContentsInv, Universe, Closed, IsSeq
        <5>. QED  BY <5>1
      <4>5. config' = IF content = << >> THEN config ELSE Overlay(config, content[1].doc)
        BY <3>1, <4>4
      <4>. HIDE DEF n, name, content, names
      <4>6. HasRead(config', before, names, n + 1)
        <5>1. HasRead(IF before[names[n + 1]] = << >> THEN config
                      ELSE Overlay(config, before[names[n + 1]][1].doc), before, names, n + 1)
          BY <4>1, <4>2, ReadOneMore
        <5>. QED  BY <4>3, <4>5, <5>1
      <4>7. AsFoundBut(Std)'
        BY <2>1, <3>1, <4>1 DEF AsFoundBut, Unchanged
      <4>8. Validate(Effective)' <=> Validate(Effective)
        BY <2>2 DEF Validate
      <4>9. /\ IsRest(chain', cmd'.configs) /\ cmd'.tool \in Loads
            /\ HasRead(config', before', cmd'.configs, Done(chain', cmd'.configs))
            /\ pc' = "load" => Validate(Effective)'
        BY <2>1, <3>1, <4>1, <4>2, <4>6, <4>8 DEF names
      <4>10. LoadInv'
        BY <4>7, <4>9 DEF LoadInv
      <4>. QED  BY <3>1, <4>10 DEF Loading, PushInv, PrintInv
    <3>. QED  BY <1>1, <1>2, <1>3, <2>4, <3>1 DEF ReadSource, Return, Fault
  <2>5. CASE LoadDone
    <3>1. ASSUME Loading, chain = << >> PROVE Loaded = Effective /\ AsFoundBut(Std)
      <4>1. /\ IsRest(chain, names) /\ HasRead(config, before, names, Done(chain, names))
            /\ AsFoundBut(Std)
        BY <2>2, <3>1 DEF LoadInv
      <4>2. Done(chain, names) = Len(names)
        BY <2>3, <3>1, SeqFacts, EmptyIsSeq DEF Done
      <4>. QED  BY <2>3, <4>1, <4>2, LoadedIsEffective
    <3>2. CASE /\ pc = "provide" /\ chain = << >> /\ Validate(Loaded) /\ cmd.tool = "show"
               /\ pc' = "print" /\ config' = Loaded
      BY <2>1, <2>2, <3>1, <3>2 DEF Loading, LoadInv, PushInv, PrintInv
    <3>3. CASE /\ pc = "provide" /\ chain = << >> /\ Validate(Loaded) /\ cmd.tool # "show"
               /\ pc' = "load" /\ config' = Default /\ chain' = names /\ file' = file
      <4>1. AsFoundBut(Std) /\ Loaded = Effective /\ cmd.tool \in Loads
        BY <2>2, <3>1, <3>3 DEF Loading, LoadInv
      <4>2. AsFoundBut(Std)'
        BY <2>1, <3>3, <4>1 DEF AsFoundBut, Unchanged
      <4>3. IsRest(chain', names) /\ Done(chain', names) = 0
        BY <2>3, <3>3, RestOfAll
      <4>4. HasRead(config', before, names, Done(chain', names))
        BY <3>3, <4>3, NothingRead
      <4>5. LoadInv'
        BY <2>1, <2>2, <3>3, <4>1, <4>2, <4>3, <4>4 DEF LoadInv, Validate
      <4>. QED  BY <3>3, <4>5 DEF PushInv, PrintInv
    <3>4. CASE /\ pc = "load" /\ chain = << >> /\ cmd.tool = "push" /\ Validate(Loaded)
               /\ pc' = "push" /\ config' = Loaded /\ chain' = cmd.outs
      <4>1. Loaded = Effective
        BY <3>1, <3>4 DEF Loading
      <4>2. IsRest(chain', cmd.outs) /\ Done(chain', cmd.outs) = 0
        BY <2>3, <3>4, RestOfAll
      <4>3. PushInv'
        BY <2>1, <2>2, <3>4, <4>1, <4>2 DEF PushInv, Validate
      <4>. QED  BY <3>4, <4>3 DEF LoadInv, PrintInv, Loading
    <3>5. \/ pc' \in Ends
          \/ /\ chain = << >> /\ Loading /\ (Validates => Validate(Loaded)) /\ file' = file
             /\ \/ pc = "provide" /\ cmd.tool = "show" /\ pc' = "print" /\ config' = Loaded
                \/ /\ pc = "provide" /\ cmd.tool # "show"
                   /\ pc' = "load" /\ config' = Default /\ chain' = names
                \/ /\ pc = "load" /\ cmd.tool = "push"
                   /\ pc' = "push" /\ config' = Loaded /\ chain' = cmd.outs
      BY <1>2, <1>3, <2>5 DEF LoadDone, Return
    <3>6. pc = "provide" \/ cmd.tool = "push" => Validates
      BY DEF Validates
    <3>. HIDE DEF names
    <3>. QED  BY <1>1, <3>2, <3>3, <3>4, <3>5, <3>6
  <2>6. CASE Show \/ PushDone
    BY <1>1, <1>2, <1>3, <2>6 DEF Show, PushDone, Return, Fault
  <2>7. CASE OpenDestination
    <3>1. CASE /\ pc = "push" /\ chain # << >> /\ file' = Rewritten(Head(chain), << >>)
               /\ pc' = "write" /\ UNCHANGED <<chain, config>>
      <4>1. PushInv'
        <5>1. /\ cmd.tool = "push" /\ config = Effective /\ Validate(Effective)
              /\ IsRest(chain, cmd.outs)
              /\ \A i \in 1..Done(chain, cmd.outs):
                   cmd.outs[i] \in DOMAIN file /\ file[cmd.outs[i]] = <<Doc(Effective)>>
          BY <2>2, <3>1 DEF PushInv
        <5>2. DOMAIN file' = DOMAIN file \cup {Head(chain)}
              /\ \A p \in DOMAIN file: p # Head(chain) => file'[p] = file[p]
          BY <3>1 DEF Rewritten
        <5>3. ASSUME NEW i \in 1..Done(chain, cmd.outs)
              PROVE  /\ cmd.outs[i] \in DOMAIN file'
                     /\ file'[cmd.outs[i]] = <<Doc(Effective)>> \/ cmd.outs[i] = Head(chain)
          BY <5>1, <5>2
        <5>. QED  BY <2>1, <2>2, <3>1, <5>1, <5>3 DEF PushInv, Validate
      <4>. QED  BY <3>1, <4>1 DEF LoadInv, PrintInv, Loading
    <3>. QED  BY <1>1, <1>2, <1>3, <2>7, <3>1 DEF OpenDestination, Fault
  <2>8. CASE WriteDestination
    <3>1. CASE /\ pc = "write" /\ file' = Rewritten(Head(chain), <<Doc(config)>>)
               /\ pc' = "push" /\ chain' = Tail(chain) /\ config' = config
      <4>. DEFINE n == Done(chain, cmd.outs)
      <4>1. /\ cmd.tool = "push" /\ config = Effective /\ Validate(Effective)
            /\ IsRest(chain, cmd.outs) /\ chain # << >>
            /\ \A i \in 1..n: /\ cmd.outs[i] \in DOMAIN file
                              /\ file[cmd.outs[i]] = <<Doc(Effective)>> \/ cmd.outs[i] = Head(chain)
        BY <2>2, <3>1 DEF PushInv
      <4>2. DOMAIN file' = DOMAIN file \cup {Head(chain)} /\ file'[Head(chain)] = <<Doc(Effective)>>
            /\ \A p \in DOMAIN file: p # Head(chain) => file'[p] = file[p]
        BY <3>1, <4>1 DEF Rewritten
      <4>3. /\ IsRest(chain', cmd.outs) /\ Done(chain', cmd.outs) = n + 1
            /\ Head(chain) = cmd.outs[n + 1] /\ n \in Nat
        BY <3>1, <4>1, RestTail DEF IsRest
      <4>. HIDE DEF n
      <4>4. ASSUME NEW i \in 1..(n + 1)
            PROVE  cmd.outs[i] \in DOMAIN file' /\ file'[cmd.outs[i]] = <<Doc(Effective)>>
        <5>1. CASE i = n + 1
          BY <4>2, <4>3, <5>1
        <5>2. CASE i \in 1..n
          BY <4>1, <4>2, <5>2
        <5>. QED  BY <4>3, <5>1, <5>2
      <4>5. PushInv'
        BY <2>1, <2>2, <3>1, <4>1, <4>3, <4>4 DEF PushInv, Validate
      <4>. QED  BY <3>1, <4>5 DEF LoadInv, PrintInv, Loading
    <3>. QED  BY <1>1, <1>2, <1>3, <2>8, <3>1 DEF WriteDestination, Fault
  <2>. QED  BY <1>9, <2>4, <2>5, <2>6, <2>7, <2>8
<1>. QED  BY <1>4, <1>5, <1>6, <1>7, <1>8, <1>9 DEF Next, Work

(* A key or message command that ends well has written its whole result:   *)
(* at ConvertDone no key is left, and the others wrote what they had read. *)
LEMMA MessagesComplete ==
    ASSUME KeyInv, MessageInv, ConvertInv, pc' = "ok", cmd'.tool \notin ConfigTools,
           ~InPlace', ~dropped', ConvertDone \/ Encrypt \/ Decrypt
    PROVE  MessageComplete'
<1>. DEFINE input == Contents(before, cmd.in)
            output == file[cmd.out]
<1>1. UNCHANGED <<cmd, before, dropped>> /\ cmd.tool = pc
  BY DEF ConvertDone, Encrypt, Decrypt, WriteMessage, Return, Fault, End, KeyInv
<1>2. /\ ~InPlace /\ ~dropped /\ cmd.tool \notin ConfigTools
      /\ Contents(before, cmd.in)' = input
      /\ Contents(before, cmd.key)' = Contents(before, cmd.key)
  BY <1>1 DEF InPlace, Contents
<1>3. CASE ConvertDone
  <2>. DEFINE n == Done(chain, input)
  <2>1. pc = "convert" /\ PemsAt(chain) = {} /\ file' = file /\ InputOf = input
    BY <1>2, <1>3 DEF ConvertDone, Return, End, InputOf
  <2>2. IsRest(chain, input) /\ HoldsUpTo(output, input, n, cmd.type)
    BY <1>2, <2>1 DEF ConvertInv
  <2>. HIDE DEF input
  <2>3. PemsUpTo(input, n) = PemsAt(input)
    BY <2>1, <2>2, NoBlockLeft
  <2>4. /\ Len(output) = Cardinality(PemsAt(input))
        /\ \A i \in PemsAt(input): output[RankIn(input, i)] = Pgp(input[i].pem, cmd.type)
    BY <2>2, <2>3 DEF HoldsUpTo, RankIn
  <2>5. \A i: RankIn(input, i) = Cardinality({j \in PemsAt(input): j <= i})
    BY DEF RankIn, PemsUpTo
  <2>. QED  BY <1>1, <1>2, <2>1, <2>4, <2>5 DEF MessageComplete
<1>4. CASE Encrypt
  <2>1. pc = "encrypt" /\ file' = [file EXCEPT ![cmd.out] = <<Enc(key, chain)>>]
    BY <1>4 DEF Encrypt, WriteMessage, Return, Fault, End
  <2>2. /\ cmd.out \in DOMAIN file /\ chain = input
        /\ key = FirstKey(Contents(before, cmd.key))
    BY <1>1, <1>2, <2>1 DEF MessageInv, isMessage
  <2>3. file'[cmd.out] = <<Enc(FirstKey(Contents(before, cmd.key)), input)>>
    BY <2>1, <2>2
  <2>. QED  BY <1>1, <1>2, <2>1, <2>3 DEF MessageComplete
<1>5. CASE Decrypt
  <2>1. /\ pc = "decrypt" /\ chain = <<Enc(key, Head(chain).of)>>
        /\ file' = [file EXCEPT ![cmd.out] = Head(chain).of]
    BY <1>5 DEF Decrypt, Encrypted, WriteMessage, Return, Fault, End
  <2>2. /\ cmd.out \in DOMAIN file /\ chain = input
        /\ key = FirstKey(Contents(before, cmd.key))
    BY <1>1, <1>2, <2>1 DEF MessageInv, isMessage
  <2>3. file'[cmd.out] = Head(chain).of
    BY <2>1, <2>2
  <2>4. input = <<Enc(FirstKey(Contents(before, cmd.key)), file'[cmd.out])>>
    BY <2>1, <2>2, <2>3
  <2>. QED  BY <1>1, <1>2, <2>1, <2>4 DEF MessageComplete
<1>. QED  BY <1>3, <1>4, <1>5

(* So has one about the configuration, whose sources nobody has edited.    *)
LEMMA ConfigsComplete ==
    ASSUME KeyInv, ConfigInv, pc' = "ok", cmd'.tool \in ConfigTools, ~edited',
           LoadDone \/ Show \/ PushDone
    PROVE  ConfigComplete'
<1>1. /\ UNCHANGED <<cmd, before, edited>> /\ Effective' = Effective
      /\ LoadInv /\ PushInv /\ PrintInv /\ cmd.tool \in ConfigTools
  BY EffectiveKept DEF LoadDone, Show, PushDone, Return, Fault, End, ConfigInv
<1>2. CASE LoadDone
  <2>1. pc = "load" /\ cmd.tool = "validate"
    BY <1>2 DEF LoadDone, Return, End
  <2>2. Validate(Effective)
    BY <1>1, <2>1 DEF LoadInv, Loading
  <2>. QED  BY <1>1, <2>1, <2>2 DEF ConfigComplete, Validate
<1>3. CASE Show
  <2>1. pc = "print" /\ file' = Rewritten(Std, <<Doc(config)>>)
    BY <1>3 DEF Show, Fault, End
  <2>2. file'[Std] = <<Doc(config)>>
    BY <2>1 DEF Rewritten
  <2>3. \/ cmd.tool = "show-default" /\ config = Default
        \/ cmd.tool = "show" /\ config = Effective /\ Validate(Effective)
    BY <1>1, <2>1 DEF PrintInv
  <2>. QED  BY <1>1, <2>2, <2>3 DEF ConfigComplete, Validate, Loads
<1>4. CASE PushDone
  <2>1. pc = "push" /\ chain = << >> /\ file' = file
    BY <1>4 DEF PushDone, Return, End
  <2>2. /\ cmd.tool = "push" /\ Validate(Effective) /\ IsRest(chain, cmd.outs)
        /\ \A i \in 1..Done(chain, cmd.outs): file[cmd.outs[i]] = <<Doc(Effective)>>
    BY <1>1, <2>1 DEF PushInv
  <2>3. Done(chain, cmd.outs) = Len(cmd.outs) /\ DOMAIN cmd.outs = 1..Len(cmd.outs)
    BY <2>1, <2>2, SeqFacts, EmptyIsSeq DEF Done, IsRest
  <2>. QED  BY <1>1, <2>1, <2>2, <2>3 DEF ConfigComplete, Validate
<1>. QED  BY <1>2, <1>3, <1>4

(* Exit code 0 of any command on any files means that the whole result is  *)
(* written, except for a chain that is converted in place or that has lost *)
(* a write, and sources that somebody edited meanwhile.                    *)
THEOREM SuccessComplete == Spec => []SuccessIsComplete
<1>1. Init => SuccessIsComplete
  BY DEF Init, Entry, SuccessIsComplete
<1>2. KeyInv /\ MessageInv /\ ConvertInv /\ ConfigInv /\ SuccessIsComplete /\ [Next]_vars
      => SuccessIsComplete'
  <2>. SUFFICES ASSUME KeyInv, MessageInv, ConvertInv, ConfigInv, SuccessIsComplete,
                       [Next]_vars, pc' = "ok"
                PROVE  SuccessIsComplete'
    BY DEF SuccessIsComplete
  <2>1. \/ cmd.tool \notin ConfigTools /\ (ConvertDone \/ Encrypt \/ Decrypt)
        \/ cmd.tool \in ConfigTools /\ (LoadDone \/ Show \/ PushDone)
        \/ UNCHANGED vars
    <3>1. ~(OpenInput \/ OpenOutput \/ ReadKey \/ ReadInput \/ ConvertBlock)
      <4>1. ~ReadInput
        BY ConstantsAssumption DEF ReadInput, Fault, End, KeyInv, ConfigTools
      <4>2. ~ConvertBlock
        BY DEF ConvertBlock, AtBlock, Converted, Return, End
      <4>3. ~(OpenInput \/ OpenOutput \/ ReadKey)
        BY DEF OpenInput, OpenOutput, ReadKey, UseKey, Return, Fault, End
      <4>. QED  BY <4>1, <4>2, <4>3
    <3>2. ~(ReadSource \/ OpenDestination \/ WriteDestination)
      BY DEF ReadSource, OpenDestination, WriteDestination, Loading, Return, Fault, End
    <3>3. ~(Edit \/ Kill \/ Start)
      BY DEF Edit, Kill, Start, Ends, Entry, Return, End
    <3>4. ConvertDone \/ Encrypt \/ Decrypt => cmd.tool \notin ConfigTools
      BY DEF ConvertDone, Encrypt, Decrypt, KeyInv, ConfigTools
    <3>5. LoadDone \/ Show \/ PushDone => cmd.tool \in ConfigTools
      BY DEF LoadDone, Loading, Show, PushDone, KeyInv, ConfigStages
    <3>. QED  BY <3>1, <3>2, <3>3, <3>4, <3>5 DEF Next, Work
  <2>2. CASE cmd.tool \notin ConfigTools /\ (ConvertDone \/ Encrypt \/ Decrypt)
    <3>1. cmd' = cmd
      BY <2>2 DEF ConvertDone, Encrypt, Decrypt, WriteMessage, Return, Fault, End
    <3>. QED  BY <2>2, <3>1, MessagesComplete DEF SuccessIsComplete
  <2>3. CASE cmd.tool \in ConfigTools /\ (LoadDone \/ Show \/ PushDone)
    <3>1. cmd' = cmd
      BY <2>3 DEF LoadDone, Show, PushDone, Return, Fault, End
    <3>. QED  BY <2>3, <3>1, ConfigsComplete DEF SuccessIsComplete
  <2>4. CASE UNCHANGED vars
    <3>1. Effective' = Effective
      BY <2>4, EffectiveKept DEF vars
    <3>. QED  BY <2>4, <3>1 DEF vars, SuccessIsComplete, ConfigComplete, MessageComplete, InPlace,
                 Contents, Validate
  <2>. QED  BY <2>1, <2>2, <2>3, <2>4
<1>. QED  BY <1>1, <1>2, KeyInvInit, KeyInvNext, ContentsInit, ContentsNext, MessageInvInit,
             MessageInvNext, ConvertInvInit, ConvertInvNext, ConfigInvInit, ConfigInvNext, PTL DEF Spec
=============================================================================
