------------------------------ MODULE Preload -------------------------------
(***************************************************************************)
(* Fuse.Preload of pkg/fuse/fuse.go: one walk over the source directory    *)
(* that decrypts every .gpg file and inserts an inode for it into a tree   *)
(* which the kernel is already being served from, so that every AddChild   *)
(* is a step of its own.                                                   *)
(*                                                                         *)
(* A file name is a number, its rank in the byte order by which WalkDir    *)
(* sorts the entries of a directory; 0 is the empty string.  Stem gives    *)
(* what TrimSuffix leaves of a name ending in ".gpg", which may be empty,  *)
(* "." or "..".  A path is a sequence of names, relative to the source     *)
(* directory, which is not "/".                                            *)
(***************************************************************************)
EXTENDS Naturals, Sequences, FiniteSets, SequencesExt

CONSTANTS
    Stem,    \* [names ending in ".gpg" -> what is left of them without it]
    Dot,     \* "."
    DotDot,  \* ".."
    Trees    \* the source directories under study: functions from paths to entries

DotStems == {0, Dot, DotDot}  \* what Clean takes out of a path
Name == Nat \ DotStems
Encrypted == DOMAIN Stem      \* the names with EncryptedSuffix

(* A prefix of a name sorts before it, and two names that end alike differ *)
(* in what comes before.                                                   *)
ASSUME StemAssumption ==
    /\ Dot \in Nat /\ DotDot \in Nat /\ 0 < Dot /\ Dot < DotDot
    /\ Encrypted \subseteq Name
    /\ \A n \in Encrypted: Stem[n] \in Nat /\ Stem[n] < n
    /\ \A m, n \in Encrypted: Stem[m] = Stem[n] => m = n

(* What the walk finds at a path: the error or file type WalkDir reports,  *)
(* what reading and decrypting the file gives, and what is found at the    *)
(* path of its attributes.                                                 *)
Kinds == {"walkerror", "dir", "irregular", "regular"}
Contents == {"unreadable", "undecryptable", "secret"}
Attrs == {"absent", "staterror", "unreadable", "malformed", "badowner",
          "owner", "mode", "fuseattr"}
Entry == [kind: Kinds, data: Contents, attr: Attrs]

Directory == [kind |-> "dir", data |-> "unreadable", attr |-> "absent"]

(* The entries of a directory are below a directory.                       *)
IsTree(t) ==
    /\ IsFiniteSet(DOMAIN t)
    /\ \A p \in DOMAIN t: /\ p \in Seq(Name) /\ p # <<>> /\ t[p] \in Entry
                          /\ Len(p) > 1 => Front(p) \in DOMAIN t /\ t[Front(p)].kind = "dir"

ASSUME TreesAssumption == \A t \in Trees: IsTree(t)

VARIABLES
    source,   \* the source directory, never changed
    todo,     \* the paths WalkDir has still to visit
    state,    \* where the callback is
    path,     \* the path the callback was called with
    rest,     \* the components of dir that its loop has still to pass
    parent,   \* inodeParent, by its path in the tree
    mode,     \* attr.Mode
    inodes    \* the inode tree: path -> inode

vars == <<source, todo, state, path, rest, parent, mode, inodes>>

DirInode == [kind |-> "dir", from |-> <<>>, mode |-> "none"]
FileInode(p, m) == [kind |-> "file", from |-> p, mode |-> m]

(* The tree after a successful AddChild.                                   *)
WithChild(child, inode) ==
    [p \in DOMAIN inodes \cup {child} |-> IF p = child THEN inode ELSE inodes[p]]

Init ==
    /\ source \in Trees
    /\ todo = DOMAIN source
    /\ state = "walk"
    /\ path = <<>> /\ rest = <<>> /\ parent = <<>> /\ mode = "none"
    /\ inodes = [p \in {<<>>} |-> DirInode]

-----------------------------------------------------------------------------
(* Variant: the files of a directory are visited before its directories.   *)
PrecedesFilesFirst(p, q) ==
    \/ Len(p) < Len(q)
    \/ /\ Len(p) = Len(q)
       /\ \E i \in 1..Len(p): p[i] < q[i] /\ \A j \in 1..(i - 1): p[j] = q[j]

(* The order of WalkDir: a directory before what is in it, and names in    *)
(* byte order.                                                             *)
Precedes(p, q) ==
    \/ Len(p) < Len(q) /\ \A i \in 1..Len(p): p[i] = q[i]
    \/ \E i \in 1..Len(p):
         /\ i <= Len(q) /\ p[i] < q[i]
         /\ \A j \in 1..(i - 1): p[j] = q[j]

(* The path WalkDir calls the callback with next.                          *)
Visit(p) ==
    /\ state = "walk" /\ p \in todo
    /\ \A q \in todo \ {p}: Precedes(p, q)
    /\ todo' = todo \ {p}

(* What is left of p when TrimSuffix and Rel are done with it.  The stems  *)
(* of ".gpg" and "..gpg" stand for the directory the file is in, that of   *)
(* "...gpg" for the directory above.                                       *)
Cleaned(p) ==
    LET stem == Stem[Last(p)] IN
    CASE stem \notin DotStems             -> Append(Front(p), stem)
      [] stem \in {0, Dot}                -> Front(p)
      [] stem = DotDot /\ Len(p) > 1      -> Front(Front(p))
      [] stem = DotDot /\ Len(p) = 1      -> << DotDot >>

(* Where the file at p is mounted; the source directory itself is ".".     *)
InodePath(p) == IF Cleaned(p) = <<>> THEN << Dot >> ELSE Cleaned(p)

(* The conditions under which the callback goes past its early returns.    *)
Loadable(t, p) ==
    /\ t[p].kind = "regular"
    /\ Last(p) \in Encrypted
    /\ t[p].data = "secret"

LoadablePaths(t) == {p \in DOMAIN t: Loadable(t, p)}

(* Variant: the first file that is skipped ends the walk.                  *)
SkipEndsWalk ==
    /\ \E p \in todo: Visit(p) /\ ~Loadable(source, p)
    /\ state' = "done"
    /\ UNCHANGED <<source, path, rest, parent, mode, inodes>>

(* An early return: an error of the walk, a directory, another file type,  *)
(* no suffix, a file that cannot be read or decrypted.                     *)
Skip ==
    /\ \E p \in todo: Visit(p) /\ ~Loadable(source, p)
    /\ UNCHANGED <<source, state, path, rest, parent, mode, inodes>>

Decrypt ==
    /\ \E p \in todo:
         /\ Visit(p) /\ Loadable(source, p)
         /\ path' = p /\ rest' = Front(InodePath(p))
    /\ state' = "dirs" /\ parent' = <<>>
    /\ UNCHANGED <<source, mode, inodes>>

(* One round of the loop over the components of dir.  Below a file there   *)
(* is no map of children: GetChild finds nothing and AddChild panics.      *)
Component ==
    /\ state = "dirs" /\ rest # <<>>
    /\ LET child == Append(parent, Head(rest)) IN
         \/ /\ child \in DOMAIN inodes
            /\ parent' = child /\ rest' = Tail(rest)
            /\ UNCHANGED <<state, inodes>>
         \/ /\ child \notin DOMAIN inodes /\ inodes[parent].kind = "dir"
            /\ inodes' = WithChild(child, DirInode)
            /\ parent' = child /\ rest' = Tail(rest)
            /\ UNCHANGED state
         \/ /\ child \notin DOMAIN inodes /\ inodes[parent].kind = "file"
            /\ state' = "panic"
            /\ UNCHANGED <<parent, rest, inodes>>
    /\ UNCHANGED <<source, todo, path, mode>>

(* What Attr is after yaml.Unmarshal and Expand.  The embedded pointer     *)
(* FuseAttr is no inlined field for the decoder: a `mode` at the top of    *)
(* the file is not its Mode, one under `fuseattr` is.                      *)
ModeOf(a) == IF a = "fuseattr" THEN "given" ELSE "0400"

(* Variant: the attributes have no default.                                *)
LoadAttrNoDefault ==
    /\ state = "dirs" /\ rest = <<>>
    /\ state' = "add"
    /\ mode' = IF source[path].attr = "fuseattr" THEN "given" ELSE mode
    /\ UNCHANGED <<source, todo, path, rest, parent, inodes>>

(* Variant: attributes that cannot be loaded are tried again.              *)
LoadAttrRetries ==
    /\ state = "dirs" /\ rest = <<>>
    /\ source[path].attr \in {"absent", "owner", "mode", "fuseattr"}
    /\ mode' = ModeOf(source[path].attr) /\ state' = "add"
    /\ UNCHANGED <<source, todo, path, rest, parent, inodes>>

(* Variant: a file whose attributes cannot be loaded is passed over.       *)
LoadAttrSkips ==
    /\ state = "dirs" /\ rest = <<>>
    /\ LET a == source[path].attr IN
         \/ /\ a \in {"absent", "owner", "mode", "fuseattr"}
            /\ mode' = ModeOf(a) /\ state' = "add"
         \/ /\ a \in {"staterror", "unreadable", "malformed", "badowner"}
            /\ state' = "walk" /\ UNCHANGED mode
    /\ UNCHANGED <<source, todo, path, rest, parent, inodes>>

LoadAttr ==
    /\ state = "dirs" /\ rest = <<>>
    /\ LET a == source[path].attr IN
         \/ /\ a \in {"absent", "owner", "mode", "fuseattr"}
            /\ mode' = ModeOf(a) /\ state' = "add"
         \/ /\ a \in {"staterror", "unreadable", "malformed", "badowner"}
            /\ state' = "error" /\ UNCHANGED mode
    /\ UNCHANGED <<source, todo, path, rest, parent, inodes>>

(* Variant: AddChild with overwrite.                                       *)
AddFileOverwrites ==
    /\ state = "add"
    /\ inodes' = WithChild(Append(parent, Last(InodePath(path))), FileInode(path, mode))
    /\ state' = "walk"
    /\ UNCHANGED <<source, todo, path, rest, parent, mode>>

(* AddChild without overwrite: a name that is taken keeps its inode.       *)
AddFile ==
    /\ state = "add"
    /\ LET child == Append(parent, Last(InodePath(path))) IN
         \/ /\ inodes[parent].kind = "dir" /\ child \notin DOMAIN inodes
            /\ inodes' = WithChild(child, FileInode(path, mode))
            /\ state' = "walk"
         \/ /\ inodes[parent].kind = "dir" /\ child \in DOMAIN inodes
            /\ state' = "walk" /\ UNCHANGED inodes
         \/ /\ inodes[parent].kind = "file"
            /\ state' = "panic" /\ UNCHANGED inodes
    /\ UNCHANGED <<source, todo, path, rest, parent, mode>>

Finish ==
    /\ state = "walk" /\ todo = {}
    /\ state' = "done"
    /\ UNCHANGED <<source, todo, path, rest, parent, mode, inodes>>

Next == Skip \/ Decrypt \/ Component \/ LoadAttr \/ AddFile \/ Finish

(* Preload runs in the main goroutine and waits for nobody.                *)
Spec == Init /\ [][Next]_vars /\ WF_vars(Next)

-----------------------------------------------------------------------------
(* The types of the variables.                                             *)
TypeOK ==
    /\ IsTree(source)
    /\ todo \in SUBSET DOMAIN source
    /\ state \in {"walk", "dirs", "add", "done", "error", "panic"}
    /\ path \in Seq(Name) /\ rest \in Seq(Nat) /\ parent \in DOMAIN inodes
    /\ mode \in {"none", "0400", "given"}
    /\ \A i \in DOMAIN inodes:
         /\ i \in Seq(Nat)
         /\ \/ inodes[i] = DirInode
            \/ /\ inodes[i].from \in DOMAIN source
               /\ inodes[i] \in {FileInode(inodes[i].from, m) : m \in {"0400", "given"}}

ProperPrefixes(p) == {SubSeq(p, 1, n) : n \in 0..(Len(p) - 1)}

(* At every moment of Preload, which requests may already observe, the     *)
(* inodes are a tree: whatever is above an inode is there and is a         *)
(* directory.                                                              *)
TreeWellFormed ==
    \A i \in DOMAIN inodes: \A j \in ProperPrefixes(i):
        j \in DOMAIN inodes /\ inodes[j].kind = "dir"

(* An inode that a client may have looked up is never replaced.            *)
InodesOnlyGrow ==
    [][\A i \in DOMAIN inodes: i \in DOMAIN inodes' /\ inodes'[i] = inodes[i]]_vars

(* The walk never needs a directory where it has put a file, because x     *)
(* sorts before x.gpg.  Preload can panic only if a file named ".gpg",     *)
(* "..gpg" or "...gpg" takes the name of a directory of the source that    *)
(* another file needs.                                                     *)
PanicOnlyByDots ==
    state = "panic" =>
        \E p, q \in LoadablePaths(source):
            Stem[Last(p)] \in DotStems /\ InodePath(p) \in ProperPrefixes(InodePath(q))

(* The tree that a source directory stands for, without any order: a       *)
(* directory wherever something loadable is below, a file at the path of   *)
(* every other loadable file.                                              *)
ReferenceDirs(t) ==
    {<<>>} \cup UNION {ProperPrefixes(InodePath(p)) : p \in LoadablePaths(t)}

(* The modes a file may be mounted with.  A `mode` at the top of the       *)
(* attributes is left open: README.md:51-62 shows it applied, which the    *)
(* code does not do.                                                       *)
ModesFor(a) ==
    CASE a = "fuseattr" -> {"given"}
      [] a = "mode"     -> {"0400", "given"}
      [] OTHER          -> {"0400"}

Reference(t) ==
    [i \in ReferenceDirs(t) \cup {InodePath(p) : p \in LoadablePaths(t)} |->
        IF i \in ReferenceDirs(t) THEN {DirInode}
        ELSE LET p == CHOOSE q \in LoadablePaths(t): InodePath(q) = i
             IN  {FileInode(p, m) : m \in ModesFor(t[p].attr)}]

PlainNames(t) == \A p \in LoadablePaths(t): Stem[Last(p)] \notin DotStems

(* Preload computes the reference tree, and shows nothing else while it is *)
(* at it, also when it stops at attributes it cannot load: one bad file    *)
(* neither hides another nor leaves a trace of its own.                    *)
ServedTree ==
    PlainNames(source) =>
        LET reference == Reference(source) IN
        /\ \A i \in DOMAIN inodes: i \in DOMAIN reference /\ inodes[i] \in reference[i]
        /\ state = "done" => DOMAIN inodes = DOMAIN reference

(* Whatever the names: when Preload is done, a file that can be decrypted  *)
(* is mounted, unless another one is to be mounted at the same path or     *)
(* below it.                                                               *)
HiddenOnlyByAnother ==
    state = "done" =>
        \A p \in LoadablePaths(source):
            \/ \E i \in DOMAIN inodes: inodes[i].from = p
            \/ \E q \in LoadablePaths(source) \ {p}:
                  InodePath(p) \in ProperPrefixes(InodePath(q)) \cup {InodePath(q)}

(* The walk comes to an end.                                               *)
PreloadEnds == <>(state \in {"done", "error", "panic"})

(* "At this point you should be able to view decrypted contents of any     *)
(* .gpg file from source directory": every file that can be decrypted is   *)
(* mounted.  x.gpg is not when a directory x is mounted beside it.         *)
AnyGpgFileServed ==
    state = "done" =>
        \A p \in LoadablePaths(source): \E i \in DOMAIN inodes: inodes[i].from = p
=============================================================================
