---------------------------- MODULE PreloadProofs ----------------------------
(***************************************************************************)
(* Preload for any names and any source directories.  What keeps a file    *)
(* from being in the way of a directory is the order of the walk: a stem   *)
(* sorts before the name it is the stem of.                                *)
(*                                                                         *)
(* Then: the tree that is served is the reference tree, which is stated    *)
(* without any order.                                                      *)
(***************************************************************************)
EXTENDS Preload, SequenceTheorems, TLAPS

Stages == {"walk", "dirs", "add", "done", "error", "panic"}
Modes == {"0400", "given"}

Types ==
    /\ source \in Trees /\ todo \subseteq DOMAIN source
    /\ state \in Stages /\ mode \in Modes \cup {"none"}
    /\ path \in Seq(Name) /\ rest \in Seq(Nat) /\ parent \in Seq(Nat)
    /\ parent \in DOMAIN inodes
    /\ state \in {"dirs", "add"} => path \in LoadablePaths(source)
    /\ state = "add" => mode \in Modes

(* Every inode is the root, a directory or the file of a path that was     *)
(* loaded, and what is above it is there.                                  *)
Inodes ==
    /\ <<>> \in DOMAIN inodes /\ inodes[<<>>] = DirInode
    /\ \A i \in DOMAIN inodes:
        /\ i \in Seq(Nat)
        /\ \/ inodes[i] = DirInode
           \/ /\ inodes[i].from \in LoadablePaths(source)
              /\ inodes[i] \in {FileInode(inodes[i].from, m) : m \in Modes}
              /\ i = InodePath(inodes[i].from)

(* The inode below which the file at path is to be mounted.                *)
Position ==
    /\ state = "dirs" =>
        /\ Len(parent) + Len(rest) + 1 = Len(InodePath(path))
        /\ \A i \in 1..Len(parent): parent[i] = InodePath(path)[i]
        /\ \A i \in 1..Len(rest): rest[i] = InodePath(path)[Len(parent) + i]
    /\ state = "add" =>
        /\ Len(parent) + 1 = Len(InodePath(path))
        /\ \A i \in 1..Len(parent): parent[i] = InodePath(path)[i]

(* What has been mounted precedes what is being mounted, and both precede  *)
(* what is still to be visited.                                            *)
Ordered ==
    /\ \A i \in DOMAIN inodes: inodes[i] # DirInode =>
        /\ \A q \in todo: Precedes(inodes[i].from, q)
        /\ state \in {"dirs", "add"} => Precedes(inodes[i].from, path)
    /\ state \in {"dirs", "add"} => \A q \in todo: Precedes(path, q)

-----------------------------------------------------------------------------
LEMMA FileIsNoDir == \A p, m: FileInode(p, m) # DirInode /\ FileInode(p, m).from = p
  BY DEF FileInode, DirInode

LEMMA PathsTyped ==
    ASSUME NEW t \in Trees, NEW p \in LoadablePaths(t)
    PROVE  /\ p \in DOMAIN t /\ p \in Seq(Name) /\ p # <<>>
           /\ Len(p) \in Nat \ {0} /\ Last(p) \in Encrypted
           /\ Last(p) = p[Len(p)]
<1>1. p \in DOMAIN t /\ Last(p) \in Encrypted
  BY DEF LoadablePaths, Loadable
<1>2. p \in Seq(Name) /\ p # <<>>
  BY <1>1, TreesAssumption DEF IsTree
<1>3. Len(p) \in Nat \ {0}
  BY <1>2, EmptySeq
<1>. QED  BY <1>1, <1>2, <1>3 DEF Last

(* All components but the last.                                            *)
LEMMA FrontIs ==
    ASSUME NEW p \in Seq(Nat), Len(p) \in Nat \ {0}
    PROVE  /\ Front(p) \in Seq(Nat) /\ Len(Front(p)) = Len(p) - 1
           /\ Len(Front(p)) + 1 = Len(p)
           /\ \A i \in 1..Len(Front(p)): Front(p)[i] = p[i]
<1>1. \A i \in 1..(Len(p) - 1): p[i] \in Nat
  OBVIOUS
<1>. DEFINE n == Len(p) - 1
<1>2. n \in Nat /\ \A i \in 1..n: p[i] \in Nat
  BY <1>1
<1>3. /\ SubSeq(p, 1, n) \in Seq(Nat)
      /\ Len(SubSeq(p, 1, n)) = IF 1 <= n THEN n - 1 + 1 ELSE 0
      /\ \A i \in 1..(n - 1 + 1): SubSeq(p, 1, n)[i] = p[1 + i - 1]
  <2>. HIDE DEF n
  <2>. QED  BY <1>2, SubSeqProperties
<1>4. Len(SubSeq(p, 1, n)) = n /\ \A i \in 1..n: SubSeq(p, 1, n)[i] = p[i]
  <2>. HIDE DEF n
  <2>. QED  BY <1>2, <1>3
<1>. QED  BY <1>2, <1>3, <1>4 DEF Front

(* Where a file is mounted, component by component: all but the last one   *)
(* are those of its path, whatever Clean takes out of it.                  *)
LEMMA InodePathIs ==
    ASSUME NEW p \in Seq(Name), p # <<>>, Last(p) \in Encrypted
    PROVE  /\ InodePath(p) \in Seq(Nat) /\ Len(InodePath(p)) \in Nat \ {0}
           /\ Len(InodePath(p)) <= Len(p)
           /\ \A i \in 1..(Len(InodePath(p)) - 1): InodePath(p)[i] = p[i]
           /\ Stem[Last(p)] \notin DotStems =>
                /\ Len(InodePath(p)) = Len(p)
                /\ InodePath(p)[Len(p)] = Stem[Last(p)]
<1>1. /\ Len(p) \in Nat /\ Len(p) >= 1 /\ Len(p) - 1 \in Nat
      /\ p \in Seq(Nat)
  <2>1. Len(p) \in Nat \ {0}
    BY EmptySeq
  <2>2. p \in Seq(Nat)
    BY SeqMonotonic DEF Name
  <2>. QED  BY <2>1, <2>2
<1>2. /\ Front(p) \in Seq(Nat) /\ Len(Front(p)) = Len(p) - 1
      /\ \A i \in 1..(Len(p) - 1): Front(p)[i] = p[i]
  BY <1>1, FrontIs
<1>3. Stem[Last(p)] \in Nat /\ Dot \in Nat /\ DotDot \in Nat
  BY StemAssumption
<1>. DEFINE Fits(c) == /\ c \in Seq(Nat) /\ Len(c) \in Nat /\ Len(c) <= Len(p)
                       /\ \A i \in 1..(Len(c) - 1): c[i] = p[i]
<1>4. Fits(Front(p))
  BY <1>1, <1>2
<1>5. ASSUME NEW x \in Nat PROVE Fits(<< x >>)
  BY <1>1, <1>5
<1>6. ASSUME Len(p) > 1 PROVE Fits(Front(Front(p)))
  <2>1. Len(Front(p)) \in Nat \ {0}
    BY <1>1, <1>2, <1>6
  <2>2. /\ Front(Front(p)) \in Seq(Nat) /\ Len(Front(Front(p))) = Len(Front(p)) - 1
        /\ \A i \in 1..Len(Front(Front(p))): Front(Front(p))[i] = Front(p)[i]
    BY <1>2, <2>1, FrontIs
  <2>3. Len(Front(Front(p))) \in Nat
    BY <2>2
  <2>. HIDE DEF Fits
  <2>4. \A i \in 1..(Len(Front(Front(p))) - 1): Front(Front(p))[i] = p[i]
    <3>. SUFFICES ASSUME NEW i \in 1..(Len(Front(Front(p))) - 1)
                  PROVE  Front(Front(p))[i] = p[i]
      OBVIOUS
    <3>. DEFINE k == Len(Front(Front(p)))
                l == Len(Front(p))
    <3>0. k \in Nat /\ l \in Nat /\ k = l - 1 /\ l = Len(p) - 1 /\ i \in 1..(k - 1)
      BY <1>1, <1>2, <2>2, <2>3
    <3>1. i \in 1..k /\ i \in 1..l
      <4>. HIDE DEF k, l
      <4>. QED  BY <3>0
    <3>. QED  BY <3>0, <3>1, <1>2, <2>2
  <2>5. Len(Front(Front(p))) <= Len(p)
    BY <1>1, <1>2, <2>2, <2>3
  <2>. QED  BY <2>2, <2>3, <2>4, <2>5 DEF Fits
<1>7. ASSUME Stem[Last(p)] \notin DotStems
      PROVE  /\ Cleaned(p) = Append(Front(p), Stem[Last(p)])
             /\ Fits(Cleaned(p)) /\ Len(Cleaned(p)) = Len(p)
             /\ Cleaned(p)[Len(p)] = Stem[Last(p)] /\ Cleaned(p) # <<>>
  <2>1. Cleaned(p) = Append(Front(p), Stem[Last(p)])
    BY <1>7 DEF Cleaned, DotStems
  <2>2. /\ Cleaned(p) \in Seq(Nat) /\ Len(Cleaned(p)) = Len(p)
        /\ \A i \in 1..(Len(p) - 1): Cleaned(p)[i] = p[i]
        /\ Cleaned(p)[Len(p)] = Stem[Last(p)]
    BY <1>1, <1>2, <1>3, <2>1
  <2>3. Cleaned(p) # <<>>
    BY <1>1, <2>2, EmptySeq
  <2>. QED  BY <1>1, <2>1, <2>2, <2>3
<1>8. ASSUME Stem[Last(p)] \in DotStems PROVE Fits(Cleaned(p))
  <2>. HIDE DEF Fits
  <2>. DEFINE stem == Stem[Last(p)]
  <2>1. (Len(p) = 1 /\ ~(Len(p) > 1)) \/ (Len(p) > 1 /\ Len(p) # 1)
    <3>1. \A n \in Nat: n >= 1 => (n = 1 /\ ~(n > 1)) \/ (n > 1 /\ n # 1)
      OBVIOUS
    <3>. QED  BY <1>1, <3>1
  <2>2. 0 # DotDot /\ Dot # DotDot
    BY StemAssumption
  <2>3. (stem \in {0, Dot} /\ stem # DotDot) \/ (stem = DotDot /\ stem \notin {0, Dot})
    BY <1>8, <2>2 DEF DotStems
  <2>. HIDE DEF stem
  <2>4. /\ stem \in DotStems
        /\ Cleaned(p) = CASE stem \notin DotStems        -> Append(Front(p), stem)
                           [] stem \in {0, Dot}           -> Front(p)
                           [] stem = DotDot /\ Len(p) > 1 -> Front(Front(p))
                           [] stem = DotDot /\ Len(p) = 1 -> << DotDot >>
    BY <1>8 DEF Cleaned, stem
  <2>5. CASE stem \in {0, Dot} /\ stem # DotDot
    <3>1. Cleaned(p) = Front(p)
      BY <2>4, <2>5
    <3>. QED  BY <1>4, <3>1
  <2>6. CASE stem = DotDot /\ stem \notin {0, Dot} /\ Len(p) > 1 /\ Len(p) # 1
    <3>1. Cleaned(p) = Front(Front(p))
      BY <2>4, <2>6
    <3>. QED  BY <1>6, <2>6, <3>1
  <2>7. CASE stem = DotDot /\ stem \notin {0, Dot} /\ Len(p) = 1 /\ ~(Len(p) > 1)
    <3>1. Cleaned(p) = << DotDot >>
      BY <2>4, <2>7
    <3>. QED  BY <1>3, <1>5, <3>1
  <2>. QED  BY <2>1, <2>3, <2>5, <2>6, <2>7
<1>9. CASE Cleaned(p) = <<>>
  <2>1. InodePath(p) = << Dot >> /\ Fits(InodePath(p)) /\ Len(InodePath(p)) = 1
    <3>1. InodePath(p) = << Dot >>
      BY <1>9 DEF InodePath
    <3>2. Len(<< Dot >>) = 1
      OBVIOUS
    <3>. HIDE DEF Fits
    <3>. QED  BY <1>3, <1>5, <3>1, <3>2
  <2>2. Stem[Last(p)] \in DotStems
    BY <1>7, <1>9
  <2>. QED  BY <2>1, <2>2
<1>10. CASE Cleaned(p) # <<>>
  <2>1. InodePath(p) = Cleaned(p) /\ Fits(Cleaned(p))
    BY <1>7, <1>8, <1>10 DEF InodePath
  <2>2. Len(Cleaned(p)) \in Nat \ {0}
    BY <1>10, <2>1, EmptySeq
  <2>. QED  BY <1>7, <2>1, <2>2
<1>. QED  BY <1>9, <1>10

(* The order against which a file would have to be visited to be in the    *)
(* way of a directory.                                                     *)
LEMMA NotInTheWay ==
    ASSUME NEW p \in Seq(Name), p # <<>>, Last(p) \in Encrypted,
           Stem[Last(p)] \notin DotStems,
           NEW q \in Seq(Name), Len(p) < Len(q),
           \A i \in 1..Len(p): q[i] = InodePath(p)[i]
    PROVE  ~Precedes(p, q)
<1>1. Len(p) \in Nat \ {0} /\ Len(q) \in Nat
  BY EmptySeq
<1>2. /\ \A i \in 1..(Len(p) - 1): q[i] = p[i]
      /\ q[Len(p)] = Stem[Last(p)]
  BY <1>1, InodePathIs
<1>3. /\ Stem[Last(p)] < p[Len(p)] /\ Stem[Last(p)] \in Nat /\ p[Len(p)] \in Nat
  <2>1. Stem[Last(p)] < Last(p) /\ Stem[Last(p)] \in Nat /\ Last(p) \in Nat
    BY StemAssumption DEF Name
  <2>. QED  BY <2>1 DEF Last
<1>4. \A i \in 1..Len(p): ~(p[i] < q[i])
  <2>. SUFFICES ASSUME NEW i \in 1..Len(p) PROVE ~(p[i] < q[i])
    OBVIOUS
  <2>1. CASE i = Len(p)
    BY <2>1, <1>2, <1>3
  <2>2. CASE i # Len(p)
    <3>1. i \in 1..(Len(p) - 1) /\ p[i] \in Nat
      BY <2>2, <1>1 DEF Name
    <3>. QED  BY <3>1, <1>2
  <2>. QED  BY <2>1, <2>2
<1>5. ~(\A i \in 1..Len(p): p[i] = q[i])
  BY <1>1, <1>2, <1>3
<1>. QED  BY <1>4, <1>5 DEF Precedes

LEMMA ChildAdded ==
    ASSUME NEW c, NEW n, c \notin DOMAIN inodes, inodes' = WithChild(c, n)
    PROVE  /\ DOMAIN inodes' = DOMAIN inodes \cup {c} /\ inodes'[c] = n
           /\ \A i \in DOMAIN inodes: inodes'[i] = inodes[i]
  BY DEF WithChild

(* The inode of a file is put at the path computed for it.                 *)
LEMMA ChildIsInodePath ==
    ASSUME Types, Position, state = "add"
    PROVE  Append(parent, Last(InodePath(path))) = InodePath(path)
<1>. DEFINE goal == InodePath(path)
<1>1. goal \in Seq(Nat) /\ Len(goal) \in Nat \ {0}
  BY PathsTyped, InodePathIs DEF Types
<1>2. Len(parent) + 1 = Len(goal) /\ \A i \in 1..Len(parent): parent[i] = goal[i]
  BY DEF Position
<1>3. parent \in Seq(Nat) /\ Len(parent) \in Nat
  BY DEF Types
<1>. HIDE DEF goal
<1>4. goal[Len(goal)] \in Nat
  BY <1>1, ElementOfSeq
<1>. DEFINE child == Append(parent, goal[Len(goal)])
<1>5. /\ child \in Seq(Nat) /\ Len(child) = Len(goal)
      /\ \A i \in 1..Len(child): child[i] = goal[i]
  BY <1>2, <1>3, <1>4
<1>6. child = goal
  <2>. HIDE DEF child
  <2>. QED  BY <1>1, <1>5, SeqEqual
<1>. QED  BY <1>6 DEF Last, goal

LEMMA TypesInit == Init => Types /\ Inodes /\ Position /\ Ordered
<1>. SUFFICES ASSUME Init PROVE Types /\ Inodes /\ Position /\ Ordered
  OBVIOUS
<1>1. DOMAIN inodes = {<<>>} /\ inodes[<<>>] = DirInode /\ state = "walk"
  BY DEF Init
<1>. QED  BY <1>1, EmptySeq DEF Init, Types, Stages, Modes, Inodes, Position, Ordered, DirInode

PreloadInv == Types /\ Inodes /\ Position /\ Ordered

LEMMA PreloadInvNext == PreloadInv /\ [Next]_vars => PreloadInv'
<1>. SUFFICES ASSUME PreloadInv, [Next]_vars PROVE PreloadInv'
  OBVIOUS
<1>. USE DEF PreloadInv
<1>1. CASE Skip
  <2>1. /\ UNCHANGED <<source, state, path, rest, parent, mode, inodes>>
        /\ todo' \subseteq todo /\ state = "walk"
    BY <1>1 DEF Skip, Visit
  <2>2. Types'
    BY <2>1 DEF Types, Stages, LoadablePaths
  <2>3. Inodes' /\ Position' /\ Ordered'
    BY <2>1 DEF Inodes, Position, Ordered, LoadablePaths, InodePath
  <2>. QED  BY <2>2, <2>3
<1>2. CASE Decrypt
  <2>1. PICK p \in todo: /\ Visit(p) /\ Loadable(source, p)
                         /\ path' = p /\ rest' = Front(InodePath(p))
    BY <1>2 DEF Decrypt
  <2>2. /\ state' = "dirs" /\ parent' = <<>> /\ todo' = todo \ {p}
        /\ UNCHANGED <<source, mode, inodes>>
        /\ \A q \in todo \ {p}: Precedes(p, q)
    BY <1>2, <2>1 DEF Decrypt, Visit
  <2>3. p \in LoadablePaths(source)
    BY <2>1 DEF LoadablePaths, Types
  <2>4. p \in Seq(Name) /\ InodePath(p) \in Seq(Nat) /\ Len(InodePath(p)) \in Nat \ {0}
    BY <2>3, PathsTyped, InodePathIs DEF Types
  <2>5. /\ rest' \in Seq(Nat) /\ Len(rest') + 1 = Len(InodePath(p))
        /\ \A i \in 1..Len(rest'): rest'[i] = InodePath(p)[i]
    BY <2>1, <2>4, FrontIs
  <2>6. Types'
    BY <2>1, <2>2, <2>3, <2>4, <2>5, EmptySeq DEF Types, Inodes, Stages
  <2>7. Inodes'
    BY <2>2 DEF Inodes
  <2>8. Position'
    <3>1. Len(parent') = 0
      BY <2>2
    <3>. QED  BY <2>1, <2>2, <2>5, <3>1 DEF Position
  <2>9. Ordered'
    BY <2>1, <2>2 DEF Ordered
  <2>. QED  BY <2>6, <2>7, <2>8, <2>9
<1>3. CASE Component
  <2>. DEFINE child == Append(parent, Head(rest))
  <2>1. /\ state = "dirs" /\ rest # <<>> /\ UNCHANGED <<source, todo, path, mode>>
    BY <1>3 DEF Component
  <2>2. /\ rest \in Seq(Nat) /\ Len(rest) \in Nat \ {0} /\ parent \in Seq(Nat)
        /\ Len(parent) \in Nat /\ Head(rest) \in Nat /\ Head(rest) = rest[1]
    BY <2>1, EmptySeq DEF Types
  <2>3. /\ child \in Seq(Nat) /\ Len(child) = Len(parent) + 1 /\ child # <<>>
        /\ \A i \in 1..Len(parent): child[i] = parent[i]
        /\ child[Len(parent) + 1] = rest[1]
    <3>1. /\ child \in Seq(Nat) /\ Len(child) = Len(parent) + 1
          /\ \A i \in 1..Len(parent): child[i] = parent[i]
          /\ child[Len(parent) + 1] = Head(rest) /\ child # <<>>
      BY <2>2, AppendProperties
    <3>. QED  BY <2>2, <3>1
  <2>4. /\ Tail(rest) \in Seq(Nat) /\ Len(Tail(rest)) = Len(rest) - 1
        /\ \A i \in 1..Len(Tail(rest)): Tail(rest)[i] = rest[i + 1]
    BY <2>1, <2>2, HeadTailProperties
  <2>. HIDE DEF child
  <2>5. ASSUME parent' = child, rest' = Tail(rest), state' = state
        PROVE  Position'
    <3>. DEFINE goal == InodePath(path)
    <3>1. /\ Len(parent) + Len(rest) + 1 = Len(goal)
          /\ \A i \in 1..Len(parent): parent[i] = goal[i]
          /\ \A i \in 1..Len(rest): rest[i] = goal[Len(parent) + i]
      BY <2>1 DEF Position
    <3>2. path' = path /\ InodePath(path') = goal
      BY <2>1
    <3>. HIDE DEF goal
    <3>3. Len(parent') + Len(rest') + 1 = Len(goal)
      BY <2>5, <2>2, <2>3, <2>4, <3>1
    <3>4. \A i \in 1..Len(parent'): parent'[i] = goal[i]
      <4>. SUFFICES ASSUME NEW i \in 1..Len(parent') PROVE parent'[i] = goal[i]
        OBVIOUS
      <4>1. CASE i = Len(parent) + 1
        <5>1. 1 \in 1..Len(rest)
          BY <2>2
        <5>2. rest[1] = goal[Len(parent) + 1]
          BY <5>1, <3>1
        <5>. QED  BY <4>1, <5>2, <2>3, <2>5
      <4>2. CASE i # Len(parent) + 1
        <5>1. i \in 1..Len(parent)
          BY <4>2, <2>2, <2>3, <2>5
        <5>. QED  BY <5>1, <3>1, <2>3, <2>5
      <4>. QED  BY <4>1, <4>2
    <3>5. \A i \in 1..Len(rest'): rest'[i] = goal[Len(parent') + i]
      <4>. SUFFICES ASSUME NEW i \in 1..Len(rest') PROVE rest'[i] = goal[Len(parent') + i]
        OBVIOUS
      <4>1. i + 1 \in 1..Len(rest) /\ rest'[i] = rest[i + 1]
        BY <2>2, <2>4, <2>5
      <4>2. Len(parent') + i = Len(parent) + (i + 1)
        <5>1. i \in Nat /\ Len(parent') = Len(parent) + 1
          BY <2>3, <2>5
        <5>. QED  BY <2>2, <5>1
      <4>. QED  BY <4>1, <4>2, <3>1
    <3>. QED  BY <2>1, <2>5, <3>2, <3>3, <3>4, <3>5 DEF Position
  <2>6. CASE child \in DOMAIN inodes /\ parent' = child /\ rest' = Tail(rest)
             /\ UNCHANGED <<state, inodes>>
    <3>1. Types'
      BY <2>1, <2>3, <2>4, <2>6 DEF Types
    <3>2. Inodes' /\ Ordered'
      BY <2>1, <2>6 DEF Inodes, Ordered
    <3>. QED  BY <2>5, <2>6, <3>1, <3>2
  <2>7. CASE /\ child \notin DOMAIN inodes /\ inodes' = WithChild(child, DirInode)
             /\ parent' = child /\ rest' = Tail(rest) /\ UNCHANGED state
    <3>1. /\ DOMAIN inodes' = DOMAIN inodes \cup {child} /\ inodes'[child] = DirInode
          /\ \A i \in DOMAIN inodes: inodes'[i] = inodes[i]
      BY <2>7, ChildAdded
    <3>2. Types'
      BY <2>1, <2>3, <2>4, <2>7, <3>1 DEF Types
    <3>3. Inodes'
      BY <2>1, <2>3, <3>1 DEF Inodes
    <3>4. Ordered'
      BY <2>1, <2>7, <3>1 DEF Ordered
    <3>. QED  BY <2>5, <2>7, <3>2, <3>3, <3>4
  <2>8. CASE state' = "panic" /\ UNCHANGED <<parent, rest, inodes>>
    <3>1. Types'
      BY <2>1, <2>8 DEF Types, Stages
    <3>2. Inodes' /\ Position' /\ Ordered'
      BY <2>1, <2>8 DEF Inodes, Position, Ordered
    <3>. QED  BY <3>1, <3>2
  <2>. QED  BY <1>3, <2>6, <2>7, <2>8 DEF Component, child
<1>4. CASE LoadAttr
  <2>1. /\ state = "dirs" /\ rest = <<>> /\ Len(rest) = 0
        /\ UNCHANGED <<source, todo, path, rest, parent, inodes>>
        /\ \/ state' = "add" /\ mode' \in Modes
           \/ state' = "error" /\ mode' = mode
    BY <1>4 DEF LoadAttr, ModeOf, Modes
  <2>2. Types'
    BY <2>1 DEF Types, Stages
  <2>3. Len(parent) \in Nat
    BY DEF Types
  <2>4. Position'
    BY <2>1, <2>3 DEF Position
  <2>5. Inodes' /\ Ordered'
    BY <2>1 DEF Inodes, Ordered
  <2>. QED  BY <2>2, <2>4, <2>5
<1>5. CASE AddFile
  <2>. DEFINE child == Append(parent, Last(InodePath(path)))
  <2>1. state = "add" /\ UNCHANGED <<source, todo, path, rest, parent, mode>>
    BY <1>5 DEF AddFile
  <2>2. child = InodePath(path)
    BY <2>1, ChildIsInodePath
  <2>3. path \in LoadablePaths(source) /\ mode \in Modes
    BY <2>1 DEF Types
  <2>4. child \in Seq(Nat) /\ child # <<>>
    <3>1. /\ InodePath(path) \in Seq(Nat) /\ Len(InodePath(path)) \in Nat \ {0}
      BY <2>3, PathsTyped, InodePathIs DEF Types
    <3>. QED  BY <2>2, <3>1, EmptySeq
  <2>. HIDE DEF child
  <2>5. CASE /\ child \notin DOMAIN inodes /\ state' = "walk"
             /\ inodes' = WithChild(child, FileInode(path, mode))
    <3>1. /\ DOMAIN inodes' = DOMAIN inodes \cup {child}
          /\ inodes'[child] = FileInode(path, mode)
          /\ \A i \in DOMAIN inodes: inodes'[i] = inodes[i]
      BY <2>5, ChildAdded
    <3>2. Types'
      BY <2>1, <2>5, <3>1 DEF Types, Stages
    <3>3. Inodes'
      <4>1. FileInode(path, mode).from = path
        BY FileIsNoDir
      <4>. QED  BY <2>1, <2>2, <2>3, <2>4, <3>1, <4>1 DEF Inodes
    <3>4. Ordered'
      <4>1. FileInode(path, mode).from = path
        BY FileIsNoDir
      <4>. QED  BY <2>1, <2>5, <3>1, <4>1 DEF Ordered
    <3>5. Position'
      BY <2>5 DEF Position
    <3>. QED  BY <3>2, <3>3, <3>4, <3>5
  <2>6. CASE state' \in {"walk", "panic"} /\ inodes' = inodes
    <3>1. Types'
      BY <2>1, <2>6 DEF Types, Stages
    <3>2. Inodes' /\ Position' /\ Ordered'
      BY <2>1, <2>6 DEF Inodes, Position, Ordered
    <3>. QED  BY <3>1, <3>2
  <2>. QED  BY <1>5, <2>5, <2>6 DEF AddFile, child
<1>6. CASE Finish
  <2>1. state' = "done" /\ UNCHANGED <<source, todo, path, rest, parent, mode, inodes>>
    BY <1>6 DEF Finish
  <2>2. Types'
    BY <2>1 DEF Types, Stages
  <2>. QED  BY <2>1, <2>2 DEF Inodes, Position, Ordered
<1>7. CASE UNCHANGED vars
  <2>1. Types'
    BY <1>7 DEF Types, vars
  <2>. QED  BY <1>7, <2>1 DEF vars, Inodes, Position, Ordered
<1>. QED  BY <1>1, <1>2, <1>3, <1>4, <1>5, <1>6, <1>7 DEF Next

LEMMA PreloadInvariant == Spec => []PreloadInv
<1>1. Init => PreloadInv
  BY TypesInit DEF PreloadInv
<1>. QED  BY <1>1, PreloadInvNext, PTL DEF Spec

(* The variables have their types; files come from loadable paths only.    *)
THEOREM TypeCorrect == Spec => []TypeOK
<1>1. PreloadInv => TypeOK
  <2>. SUFFICES ASSUME PreloadInv PROVE TypeOK
    OBVIOUS
  <2>1. IsTree(source) /\ todo \in SUBSET DOMAIN source
    BY TreesAssumption DEF PreloadInv, Types
  <2>2. \A i \in DOMAIN inodes:
          /\ i \in Seq(Nat)
          /\ \/ inodes[i] = DirInode
             \/ /\ inodes[i].from \in DOMAIN source
                /\ inodes[i] \in {FileInode(inodes[i].from, m) : m \in {"0400", "given"}}
    BY DEF PreloadInv, Inodes, LoadablePaths, Modes
  <2>. QED  BY <2>1, <2>2 DEF PreloadInv, Types, TypeOK, Stages, Modes
<1>. QED  BY PreloadInvariant, <1>1, PTL

(* What stands above a child is what stands above its parent, and that.    *)
LEMMA PrefixesOfAppend ==
    ASSUME NEW s \in Seq(Nat), NEW x \in Nat
    PROVE  ProperPrefixes(Append(s, x)) \subseteq ProperPrefixes(s) \cup {s}
<1>. DEFINE t == Append(s, x)
<1>1. /\ t \in Seq(Nat) /\ Len(t) = Len(s) + 1 /\ Len(s) \in Nat
      /\ \A i \in 1..Len(s): t[i] = s[i]
  BY AppendProperties
<1>. HIDE DEF t
<1>. SUFFICES ASSUME NEW n \in 0..(Len(t) - 1)
              PROVE  SubSeq(t, 1, n) \in ProperPrefixes(s) \cup {s}
  BY DEF ProperPrefixes, t
<1>2. n \in 0..Len(s)
  BY <1>1
<1>3. SubSeq(t, 1, n) = SubSeq(s, 1, n)
  <2>1. \A i \in 1..n: t[i] = s[i] /\ s[i] \in Nat
    BY <1>1, <1>2
  <2>2. /\ SubSeq(s, 1, n) \in Seq(Nat) /\ SubSeq(t, 1, n) \in Seq(Nat)
        /\ Len(SubSeq(s, 1, n)) = Len(SubSeq(t, 1, n))
        /\ \A i \in 1..(n - 1 + 1): SubSeq(s, 1, n)[i] = s[1 + i - 1]
        /\ \A i \in 1..(n - 1 + 1): SubSeq(t, 1, n)[i] = t[1 + i - 1]
        /\ Len(SubSeq(s, 1, n)) = IF 1 <= n THEN n - 1 + 1 ELSE 0
    BY <1>2, <2>1, SubSeqProperties
  <2>3. Len(SubSeq(s, 1, n)) = n
    BY <1>2, <2>2
  <2>4. \A i \in 1..n: SubSeq(s, 1, n)[i] = SubSeq(t, 1, n)[i]
    BY <1>2, <2>1, <2>2
  <2>. QED  BY <2>2, <2>3, <2>4, SeqEqual
<1>4. CASE n = Len(s)
  BY <1>3, <1>4, SubSeqFull
<1>5. CASE n # Len(s)
  <2>1. n \in 0..(Len(s) - 1)
    BY <1>1, <1>2, <1>5
  <2>. QED  BY <1>3, <2>1 DEF ProperPrefixes
<1>. QED  BY <1>4, <1>5

(* A proper prefix of a path, component by component.                      *)
LEMMA PrefixIs ==
    ASSUME NEW s \in Seq(Nat), NEW i \in ProperPrefixes(s)
    PROVE  /\ i \in Seq(Nat) /\ Len(i) < Len(s) /\ Len(i) \in Nat
           /\ \A k \in 1..Len(i): i[k] = s[k]
<1>1. PICK n \in 0..(Len(s) - 1): i = SubSeq(s, 1, n)
  BY DEF ProperPrefixes
<1>2. \A k \in 1..n: s[k] \in Nat
  OBVIOUS
<1>3. /\ SubSeq(s, 1, n) \in Seq(Nat)
      /\ Len(SubSeq(s, 1, n)) = IF 1 <= n THEN n - 1 + 1 ELSE 0
      /\ \A k \in 1..(n - 1 + 1): SubSeq(s, 1, n)[k] = s[1 + k - 1]
  BY <1>2, SubSeqProperties
<1>4. i \in Seq(Nat) /\ Len(i) = n /\ \A k \in 1..n: i[k] = s[1 + k - 1]
  BY <1>1, <1>3
<1>5. \A k \in 1..n: 1 + k - 1 = k
  OBVIOUS
<1>. QED  BY <1>4, <1>5

LEMMA PrefixFrom ==
    ASSUME NEW s \in Seq(Nat), NEW i \in Seq(Nat), Len(i) < Len(s),
           \A k \in 1..Len(i): i[k] = s[k]
    PROVE  i \in ProperPrefixes(s)
<1>. DEFINE n == Len(i)
<1>1. n \in 0..(Len(s) - 1) /\ n \in Nat /\ \A k \in 1..n: s[k] \in Nat /\ i[k] = s[k]
  OBVIOUS
<1>2. /\ SubSeq(s, 1, n) \in Seq(Nat)
      /\ Len(SubSeq(s, 1, n)) = IF 1 <= n THEN n - 1 + 1 ELSE 0
      /\ \A k \in 1..(n - 1 + 1): SubSeq(s, 1, n)[k] = s[1 + k - 1]
  <2>1. 1 \in Int /\ n \in Int /\ \A k \in 1..n: s[k] \in Nat
    BY <1>1
  <2>. HIDE DEF n
  <2>. QED  BY <2>1, SubSeqProperties
<1>3. Len(SubSeq(s, 1, n)) = n /\ \A k \in 1..n: SubSeq(s, 1, n)[k] = i[k]
  <2>1. \A k \in 1..n: 1 + k - 1 = k
    BY <1>1
  <2>. HIDE DEF n
  <2>. QED  BY <1>1, <1>2, <2>1
<1>4. SubSeq(s, 1, n) = i
  BY <1>2, <1>3, SeqEqual
<1>. QED  BY <1>1, <1>4 DEF ProperPrefixes

(* Whatever is in the source directory, what clients see at every moment   *)
(* of the walk is a tree.                                                  *)
THEOREM TreeSound == Spec => []TreeWellFormed
<1>1. Init => TreeWellFormed
  <2>. SUFFICES ASSUME Init PROVE TreeWellFormed
    OBVIOUS
  <2>1. DOMAIN inodes = {<<>>}
    BY DEF Init
  <2>2. ProperPrefixes(<<>>) = {}
    BY EmptySeq DEF ProperPrefixes
  <2>. QED  BY <2>1, <2>2 DEF TreeWellFormed
<1>2. PreloadInv /\ TreeWellFormed /\ [Next]_vars => TreeWellFormed'
  <2>. SUFFICES ASSUME PreloadInv, TreeWellFormed, [Next]_vars PROVE TreeWellFormed'
    OBVIOUS
  <2>1. ASSUME NEW x \in Nat, NEW inode, inodes[parent].kind = "dir",
               Append(parent, x) \notin DOMAIN inodes,
               inodes' = WithChild(Append(parent, x), inode)
        PROVE  TreeWellFormed'
    <3>. DEFINE child == Append(parent, x)
    <3>1. /\ DOMAIN inodes' = DOMAIN inodes \cup {child}
          /\ \A i \in DOMAIN inodes: inodes'[i] = inodes[i]
      BY <2>1, ChildAdded
    <3>2. parent \in DOMAIN inodes /\ parent \in Seq(Nat)
      BY DEF PreloadInv, Types
    <3>3. ProperPrefixes(child) \subseteq ProperPrefixes(parent) \cup {parent}
      BY <3>2, PrefixesOfAppend
    <3>. HIDE DEF child
    <3>4. \A j \in ProperPrefixes(parent) \cup {parent}:
            j \in DOMAIN inodes /\ inodes[j].kind = "dir"
      BY <2>1, <3>2 DEF TreeWellFormed
    <3>5. \A j \in ProperPrefixes(child): j \in DOMAIN inodes' /\ inodes'[j].kind = "dir"
      BY <3>1, <3>3, <3>4
    <3>6. ASSUME NEW i \in DOMAIN inodes, NEW j \in ProperPrefixes(i)
          PROVE  j \in DOMAIN inodes' /\ inodes'[j].kind = "dir"
      BY <3>1, <3>6 DEF TreeWellFormed
    <3>. QED  BY <3>1, <3>5, <3>6 DEF TreeWellFormed, ProperPrefixes
  <2>2. CASE Component
    <3>1. CASE inodes' = inodes
      BY <3>1 DEF TreeWellFormed, ProperPrefixes
    <3>2. CASE /\ rest # <<>> /\ Append(parent, Head(rest)) \notin DOMAIN inodes
               /\ inodes[parent].kind = "dir"
               /\ inodes' = WithChild(Append(parent, Head(rest)), DirInode)
      <4>1. Head(rest) \in Nat
        BY <3>2, HeadTailProperties DEF PreloadInv, Types
      <4>. QED  BY <2>1, <3>2, <4>1
    <3>. QED  BY <2>2, <3>1, <3>2 DEF Component
  <2>3. CASE AddFile
    <3>. DEFINE goal == InodePath(path)
    <3>1. Last(goal) \in Nat
      <4>1. goal \in Seq(Nat) /\ Len(goal) \in Nat \ {0}
        BY <2>3, PathsTyped, InodePathIs DEF AddFile, PreloadInv, Types
      <4>. QED  BY <4>1, ElementOfSeq DEF Last
    <3>2. CASE inodes' = inodes
      BY <3>2 DEF TreeWellFormed, ProperPrefixes
    <3>3. CASE /\ Append(parent, Last(goal)) \notin DOMAIN inodes
               /\ inodes[parent].kind = "dir"
               /\ inodes' = WithChild(Append(parent, Last(goal)), FileInode(path, mode))
      BY <2>1, <3>1, <3>3
    <3>. QED  BY <2>3, <3>2, <3>3 DEF AddFile
  <2>4. CASE UNCHANGED inodes
    BY <2>4 DEF TreeWellFormed, ProperPrefixes
  <2>. QED  BY <2>2, <2>3, <2>4 DEF Next, vars, Skip, Decrypt, LoadAttr, Finish
<1>. QED  BY PreloadInvariant, <1>1, <1>2, PTL DEF Spec

(* An inode that a request may have found is never replaced.               *)
THEOREM GrowOnly == Spec => InodesOnlyGrow
<1>1. [Next]_vars =>
        [\A i \in DOMAIN inodes: i \in DOMAIN inodes' /\ inodes'[i] = inodes[i]]_vars
  BY ChildAdded DEF Next, vars, Skip, Decrypt, Component, LoadAttr, AddFile, Finish
<1>. QED  BY <1>1, PTL DEF Spec, InodesOnlyGrow

(* A file can be where a directory is needed only if what is left of its   *)
(* name is no name: any other file is visited after everything below the   *)
(* directory whose name it takes.                                          *)
LEMMA NoFileAbove ==
    ASSUME PreloadInv, state \in {"dirs", "add"}, inodes[parent].kind = "file",
           state = "dirs" => rest # <<>>
    PROVE  \E p, q \in LoadablePaths(source):
             Stem[Last(p)] \in DotStems /\ InodePath(p) \in ProperPrefixes(InodePath(q))
<1>. DEFINE goal == InodePath(path)
            from == inodes[parent].from
            below == InodePath(from)
<1>1. /\ path \in LoadablePaths(source) /\ path \in Seq(Name) /\ path # <<>>
      /\ Last(path) \in Encrypted /\ Len(path) \in Nat \ {0}
      /\ parent \in Seq(Nat) /\ Len(parent) \in Nat
      /\ rest \in Seq(Nat) /\ Len(rest) \in Nat
  BY PathsTyped DEF PreloadInv, Types
<1>2. /\ from \in LoadablePaths(source) /\ parent = below /\ Precedes(from, path)
  <2>1. parent \in DOMAIN inodes /\ inodes[parent] # DirInode
    BY DEF PreloadInv, Types, DirInode
  <2>. QED  BY <2>1 DEF PreloadInv, Inodes, Ordered
<1>3. /\ from \in Seq(Name) /\ from # <<>> /\ Last(from) \in Encrypted
      /\ Len(from) \in Nat \ {0}
  BY <1>2, PathsTyped DEF PreloadInv, Types
<1>4. /\ goal \in Seq(Nat) /\ Len(goal) \in Nat /\ Len(goal) <= Len(path)
      /\ \A i \in 1..(Len(goal) - 1): goal[i] = path[i]
  BY <1>1, InodePathIs
<1>5. /\ below \in Seq(Nat) /\ Len(below) \in Nat \ {0}
      /\ Stem[Last(from)] \notin DotStems => Len(below) = Len(from)
  BY <1>3, InodePathIs
<1>. HIDE DEF goal, below, from
<1>6. /\ Len(below) < Len(goal) /\ \A i \in 1..Len(below): below[i] = goal[i]
  <2>1. /\ Len(parent) + 1 <= Len(goal)
        /\ \A i \in 1..Len(parent): parent[i] = goal[i]
    BY <1>1, <1>4 DEF PreloadInv, Position, goal
  <2>. QED  BY <1>2, <1>4, <1>5, <2>1
<1>7. below \in ProperPrefixes(goal)
  BY <1>4, <1>5, <1>6, PrefixFrom
<1>8. Stem[Last(from)] \in DotStems
  <2>. SUFFICES ASSUME Stem[Last(from)] \notin DotStems PROVE FALSE
    OBVIOUS
  <2>1. Len(from) = Len(below) /\ Len(from) < Len(path)
    BY <1>1, <1>3, <1>4, <1>5, <1>6
  <2>2. \A i \in 1..Len(from): path[i] = InodePath(from)[i]
    <3>. SUFFICES ASSUME NEW i \in 1..Len(from) PROVE path[i] = below[i]
      BY DEF below
    <3>1. i \in 1..(Len(goal) - 1) /\ i \in 1..Len(below)
      BY <1>4, <1>5, <1>6, <2>1
    <3>. QED  BY <3>1, <1>4, <1>6
  <2>. QED  BY <1>1, <1>2, <1>3, <2>1, <2>2, NotInTheWay
<1>. QED  BY <1>1, <1>2, <1>7, <1>8 DEF goal, below

(* Whatever the names in the source directory, Preload panics only where a *)
(* file named ".gpg", "..gpg" or "...gpg" takes the name of a directory    *)
(* that another file needs.                                                *)
THEOREM PanicsOnlyByDots == Spec => []PanicOnlyByDots
<1>1. Init => PanicOnlyByDots
  BY DEF Init, PanicOnlyByDots
<1>2. PreloadInv /\ PanicOnlyByDots /\ [Next]_vars => PanicOnlyByDots'
  <2>. DEFINE Culprit ==
         \E p, q \in LoadablePaths(source):
            Stem[Last(p)] \in DotStems /\ InodePath(p) \in ProperPrefixes(InodePath(q))
  <2>. SUFFICES ASSUME PreloadInv, PanicOnlyByDots, [Next]_vars, state' = "panic"
                PROVE  Culprit'
    BY DEF PanicOnlyByDots
  <2>1. source' = source
    BY DEF Next, vars, Skip, Decrypt, Component, LoadAttr, AddFile, Finish
  <2>2. \/ state = "panic"
        \/ /\ state \in {"dirs", "add"} /\ inodes[parent].kind = "file"
           /\ state = "dirs" => rest # <<>>
    BY DEF Next, vars, Skip, Decrypt, Component, LoadAttr, AddFile, Finish
  <2>3. Culprit
    BY <2>2, NoFileAbove DEF PanicOnlyByDots
  <2>. QED  BY <2>1, <2>3
<1>. QED  BY PreloadInvariant, <1>1, <1>2, PTL DEF Spec

-----------------------------------------------------------------------------
(* The attributes a file is mounted with are those that are beside it.     *)
ModeRight ==
    /\ state = "add" => mode = ModeOf(source[path].attr)
    /\ \A i \in DOMAIN inodes: inodes[i] # DirInode =>
        inodes[i] = FileInode(inodes[i].from, ModeOf(source[inodes[i].from].attr))

(* What could be loaded and is behind the walk has been mounted, unless    *)
(* the walk has been given up.                                             *)
Visited ==
    /\ state \in {"walk", "dirs", "add", "done"} =>
        \A q \in LoadablePaths(source):
            \/ q \in todo
            \/ state \in {"dirs", "add"} /\ q = path
            \/ InodePath(q) \in DOMAIN inodes
    /\ state = "done" => todo = {}

(* The directories of the tree are those that the source stands for, all   *)
(* of them where every stem is a name.                                     *)
Directories ==
    /\ \A i \in DOMAIN inodes: inodes[i] = DirInode => i \in ReferenceDirs(source)
    /\ PlainNames(source) =>
        \A i \in DOMAIN inodes: i \in ReferenceDirs(source) => inodes[i] = DirInode

ServedInv == ModeRight /\ Visited /\ Directories

(* No two files are mounted at the same path.                              *)
LEMMA InodePathInjective ==
    ASSUME source \in Trees, PlainNames(source),
           NEW p \in LoadablePaths(source), NEW q \in LoadablePaths(source),
           InodePath(p) = InodePath(q)
    PROVE  p = q
<1>1. /\ p \in Seq(Name) /\ p # <<>> /\ Len(p) \in Nat \ {0} /\ Last(p) \in Encrypted
      /\ q \in Seq(Name) /\ q # <<>> /\ Len(q) \in Nat \ {0} /\ Last(q) \in Encrypted
      /\ Last(p) = p[Len(p)] /\ Last(q) = q[Len(q)]
  BY PathsTyped
<1>2. Stem[Last(p)] \notin DotStems /\ Stem[Last(q)] \notin DotStems
  BY DEF PlainNames
<1>3. /\ Len(InodePath(p)) = Len(p) /\ InodePath(p)[Len(p)] = Stem[Last(p)]
      /\ \A i \in 1..(Len(p) - 1): InodePath(p)[i] = p[i]
  BY <1>1, <1>2, InodePathIs
<1>4. /\ Len(InodePath(q)) = Len(q) /\ InodePath(q)[Len(q)] = Stem[Last(q)]
      /\ \A i \in 1..(Len(q) - 1): InodePath(q)[i] = q[i]
  BY <1>1, <1>2, InodePathIs
<1>5. Len(p) = Len(q) /\ p[Len(p)] = q[Len(q)]
  BY <1>1, <1>3, <1>4, StemAssumption
<1>6. \A i \in 1..Len(p): p[i] = q[i]
  <2>. SUFFICES ASSUME NEW i \in 1..Len(p) PROVE p[i] = q[i]
    OBVIOUS
  <2>1. i = Len(p) \/ i \in 1..(Len(p) - 1)
    BY <1>1
  <2>. QED  BY <2>1, <1>3, <1>4, <1>5
<1>. QED  BY <1>1, <1>5, <1>6, SeqEqual

(* A file is not mounted where the directory of another one is needed:     *)
(* that other file has been visited, and its directories are there.        *)
LEMMA FileIsNoDirectory ==
    ASSUME PreloadInv, ServedInv, TreeWellFormed, PlainNames(source), state = "add",
           InodePath(path) \notin DOMAIN inodes
    PROVE  InodePath(path) \notin ReferenceDirs(source)
<1>. DEFINE goal == InodePath(path)
<1>1. /\ path \in LoadablePaths(source) /\ path \in Seq(Name) /\ path # <<>>
      /\ Last(path) \in Encrypted /\ Len(path) \in Nat \ {0}
      /\ Stem[Last(path)] \notin DotStems
  BY PathsTyped DEF PreloadInv, Types, PlainNames
<1>2. goal \in Seq(Nat) /\ Len(goal) = Len(path)
  BY <1>1, InodePathIs
<1>3. goal # <<>>
  BY <1>1, <1>2, EmptySeq
<1>4. ASSUME NEW q \in LoadablePaths(source), goal \in ProperPrefixes(InodePath(q))
      PROVE  FALSE
  <2>1. /\ q \in Seq(Name) /\ q # <<>> /\ Len(q) \in Nat \ {0}
        /\ Last(q) \in Encrypted /\ Stem[Last(q)] \notin DotStems
    BY PathsTyped DEF PreloadInv, Types, PlainNames
  <2>2. /\ InodePath(q) \in Seq(Nat) /\ Len(InodePath(q)) = Len(q)
        /\ \A i \in 1..(Len(q) - 1): InodePath(q)[i] = q[i]
    BY <2>1, InodePathIs
  <2>. HIDE DEF goal
  <2>3. Len(goal) < Len(q) /\ \A i \in 1..Len(goal): goal[i] = InodePath(q)[i]
    BY <1>4, <2>2, PrefixIs
  <2>4. Len(path) < Len(q) /\ \A i \in 1..Len(path): q[i] = goal[i]
    BY <1>1, <1>2, <2>1, <2>2, <2>3
  <2>5. ~Precedes(path, q)
    BY <1>1, <2>1, <2>4, NotInTheWay DEF goal
  <2>6. q \notin todo /\ q # path
    BY <1>1, <2>4, <2>5 DEF PreloadInv, Ordered
  <2>7. InodePath(q) \in DOMAIN inodes
    BY <2>6 DEF ServedInv, Visited
  <2>. QED  BY <1>4, <2>7 DEF TreeWellFormed, goal
<1>. QED  BY <1>3, <1>4 DEF ReferenceDirs

LEMMA ServedInvNext ==
    PreloadInv /\ ServedInv /\ TreeWellFormed /\ [Next]_vars => ServedInv'
<1>. SUFFICES ASSUME PreloadInv, ServedInv, TreeWellFormed, [Next]_vars PROVE ServedInv'
  OBVIOUS
<1>1. CASE Skip
  <2>1. PICK p \in todo: todo' = todo \ {p} /\ p \notin LoadablePaths(source)
    BY <1>1 DEF Skip, Visit, LoadablePaths
  <2>2. UNCHANGED <<source, state, path, rest, parent, mode, inodes>> /\ state = "walk"
    BY <1>1 DEF Skip, Visit
  <2>3. ModeRight' /\ Directories'
    BY <2>2 DEF ServedInv, ModeRight, Directories
  <2>4. Visited'
    BY <2>1, <2>2 DEF ServedInv, Visited
  <2>. QED  BY <2>3, <2>4 DEF ServedInv
<1>2. CASE Decrypt
  <2>1. PICK p \in todo: todo' = todo \ {p} /\ path' = p
    BY <1>2 DEF Decrypt, Visit
  <2>2. state' = "dirs" /\ UNCHANGED <<source, mode, inodes>> /\ state = "walk"
    BY <1>2 DEF Decrypt, Visit
  <2>3. ModeRight' /\ Directories'
    BY <2>2 DEF ServedInv, ModeRight, Directories
  <2>4. Visited'
    BY <2>1, <2>2 DEF ServedInv, Visited
  <2>. QED  BY <2>3, <2>4 DEF ServedInv
<1>3. CASE Component
  <2>. DEFINE child == Append(parent, Head(rest))
              goal == InodePath(path)
  <2>1. /\ state = "dirs" /\ rest # <<>> /\ UNCHANGED <<source, todo, path, mode>>
        /\ state' \in {"dirs", "panic"}
        /\ \/ inodes' = inodes
           \/ child \notin DOMAIN inodes /\ inodes' = WithChild(child, DirInode)
    BY <1>3 DEF Component
  <2>2. CASE inodes' = inodes
    BY <2>1, <2>2 DEF ServedInv, ModeRight, Visited, Directories
  <2>3. CASE child \notin DOMAIN inodes /\ inodes' = WithChild(child, DirInode)
    <3>1. /\ DOMAIN inodes' = DOMAIN inodes \cup {child} /\ inodes'[child] = DirInode
          /\ \A i \in DOMAIN inodes: inodes'[i] = inodes[i]
      BY <2>3, ChildAdded
    <3>2. child \in ProperPrefixes(goal)
      <4>1. /\ path \in LoadablePaths(source) /\ parent \in Seq(Nat) /\ rest \in Seq(Nat)
            /\ Len(parent) + Len(rest) + 1 = Len(goal)
            /\ \A i \in 1..Len(parent): parent[i] = goal[i]
            /\ \A i \in 1..Len(rest): rest[i] = goal[Len(parent) + i]
        BY <2>1 DEF PreloadInv, Types, Position
      <4>2. goal \in Seq(Nat) /\ Len(goal) \in Nat
        BY <4>1, PathsTyped, InodePathIs DEF PreloadInv, Types
      <4>3. /\ Len(rest) \in Nat \ {0} /\ Len(parent) \in Nat
            /\ Head(rest) \in Nat /\ Head(rest) = rest[1]
        BY <2>1, <4>1, EmptySeq
      <4>4. /\ child \in Seq(Nat) /\ Len(child) = Len(parent) + 1
            /\ \A i \in 1..Len(parent): child[i] = parent[i]
            /\ child[Len(parent) + 1] = Head(rest)
        BY <4>1, <4>3, AppendProperties
      <4>. HIDE DEF child, goal
      <4>5. \A i \in 1..Len(child): child[i] = goal[i]
        <5>1. rest[1] = goal[Len(parent) + 1]
          BY <4>1, <4>3
        <5>2. \A i \in 1..Len(child): i = Len(parent) + 1 \/ i \in 1..Len(parent)
          BY <4>3, <4>4
        <5>. QED  BY <4>1, <4>3, <4>4, <5>1, <5>2
      <4>6. Len(child) < Len(goal)
        BY <4>1, <4>2, <4>3, <4>4
      <4>. QED  BY <4>2, <4>4, <4>5, <4>6, PrefixFrom
    <3>3. child \in ReferenceDirs(source)
      BY <2>1, <3>2 DEF ReferenceDirs, PreloadInv, Types
    <3>. HIDE DEF child, goal
    <3>4. ModeRight'
      BY <2>1, <3>1 DEF ServedInv, ModeRight
    <3>5. Visited'
      BY <2>1, <3>1 DEF ServedInv, Visited
    <3>6. Directories'
      BY <2>1, <3>1, <3>3 DEF ServedInv, Directories
    <3>. QED  BY <3>4, <3>5, <3>6 DEF ServedInv
  <2>. QED  BY <2>1, <2>2, <2>3
<1>4. CASE LoadAttr
  <2>1. /\ UNCHANGED <<source, todo, path, rest, parent, inodes>> /\ state = "dirs"
        /\ \/ state' = "add" /\ mode' = ModeOf(source[path].attr)
           \/ state' = "error"
    BY <1>4 DEF LoadAttr
  <2>. QED  BY <2>1 DEF ServedInv, ModeRight, Visited, Directories
<1>5. CASE AddFile
  <2>. DEFINE goal == InodePath(path)
  <2>1. /\ state = "add" /\ UNCHANGED <<source, todo, path, rest, parent, mode>>
        /\ \/ state' = "walk" /\ goal \in DOMAIN inodes /\ inodes' = inodes
           \/ /\ state' = "walk" /\ goal \notin DOMAIN inodes
              /\ inodes' = WithChild(goal, FileInode(path, mode))
           \/ state' = "panic" /\ inodes' = inodes
    BY <1>5, ChildIsInodePath DEF AddFile, PreloadInv
  <2>2. CASE inodes' = inodes /\ (state' = "walk" => goal \in DOMAIN inodes)
             /\ state' \in {"walk", "panic"}
    <3>1. ModeRight' /\ Directories'
      BY <2>1, <2>2 DEF ServedInv, ModeRight, Directories
    <3>2. Visited'
      BY <2>1, <2>2 DEF ServedInv, Visited
    <3>. QED  BY <3>1, <3>2 DEF ServedInv
  <2>3. CASE /\ state' = "walk" /\ goal \notin DOMAIN inodes
             /\ inodes' = WithChild(goal, FileInode(path, mode))
    <3>1. /\ DOMAIN inodes' = DOMAIN inodes \cup {goal}
          /\ inodes'[goal] = FileInode(path, mode)
          /\ \A i \in DOMAIN inodes: inodes'[i] = inodes[i]
      BY <2>3, ChildAdded
    <3>2. /\ FileInode(path, mode) # DirInode /\ FileInode(path, mode).from = path
          /\ mode = ModeOf(source[path].attr)
      BY <2>1, FileIsNoDir DEF ServedInv, ModeRight
    <3>3. PlainNames(source) => goal \notin ReferenceDirs(source)
      BY <2>1, <2>3, FileIsNoDirectory
    <3>4. ModeRight'
      BY <2>1, <2>3, <3>1, <3>2 DEF ServedInv, ModeRight
    <3>5. Visited'
      BY <2>1, <2>3, <3>1 DEF ServedInv, Visited
    <3>6. Directories'
      <4>. HIDE DEF goal
      <4>. QED  BY <2>1, <3>1, <3>2, <3>3 DEF ServedInv, Directories
    <3>. QED  BY <3>4, <3>5, <3>6 DEF ServedInv
  <2>. QED  BY <2>1, <2>2, <2>3
<1>6. CASE Finish
  <2>1. /\ UNCHANGED <<source, todo, path, rest, parent, mode, inodes>>
        /\ state = "walk" /\ todo = {} /\ state' = "done"
    BY <1>6 DEF Finish
  <2>. QED  BY <2>1 DEF ServedInv, ModeRight, Visited, Directories
<1>7. CASE UNCHANGED vars
  BY <1>7 DEF vars, ServedInv, ModeRight, Visited, Directories
<1>. QED  BY <1>1, <1>2, <1>3, <1>4, <1>5, <1>6, <1>7 DEF Next

LEMMA ServedInvInit == Init => ServedInv
<1>. SUFFICES ASSUME Init PROVE ServedInv
  OBVIOUS
<1>1. DOMAIN inodes = {<<>>} /\ inodes[<<>>] = DirInode /\ state = "walk"
  BY DEF Init
<1>2. LoadablePaths(source) \subseteq todo
  BY DEF Init, LoadablePaths
<1>3. <<>> \in ReferenceDirs(source)
  BY DEF ReferenceDirs
<1>. QED  BY <1>1, <1>2, <1>3 DEF ServedInv, ModeRight, Visited, Directories

LEMMA ServedInvariant == Spec => []ServedInv
<1>. QED  BY PreloadInvariant, TreeSound, ServedInvInit, ServedInvNext, PTL DEF Spec

(* The walk serves the tree that the source directory stands for, which is *)
(* stated without any order: at every moment a part of it, and the whole   *)
(* of it when it is done, for any names and any source directory in which  *)
(* every stem is a name.                                                   *)
THEOREM ServedSound == Spec => []ServedTree
<1>1. PreloadInv /\ ServedInv /\ TreeWellFormed => ServedTree
  <2>. SUFFICES ASSUME PreloadInv, ServedInv, TreeWellFormed, PlainNames(source)
                PROVE  LET reference == Reference(source) IN
                       /\ \A i \in DOMAIN inodes:
                            i \in DOMAIN reference /\ inodes[i] \in reference[i]
                       /\ state = "done" => DOMAIN inodes = DOMAIN reference
    BY DEF ServedTree
  <2>. DEFINE dirs == ReferenceDirs(source)
              loadable == LoadablePaths(source)
              files == {InodePath(p) : p \in loadable}
              reference == Reference(source)
  <2>1. /\ DOMAIN reference = dirs \cup files
        /\ \A i \in dirs: reference[i] = {DirInode}
    BY DEF Reference
  <2>2. ASSUME NEW p \in loadable, InodePath(p) \notin dirs
        PROVE  FileInode(p, ModeOf(source[p].attr)) \in reference[InodePath(p)]
    <3>. DEFINE chosen == CHOOSE q \in loadable: InodePath(q) = InodePath(p)
    <3>1. chosen \in loadable /\ InodePath(chosen) = InodePath(p)
      OBVIOUS
    <3>2. chosen = p
      <4>. HIDE DEF chosen
      <4>. QED  BY <3>1, InodePathInjective DEF PreloadInv, Types
    <3>3. reference[InodePath(p)]
            = {FileInode(chosen, m) : m \in ModesFor(source[chosen].attr)}
      BY <2>2 DEF Reference
    <3>4. ModeOf(source[p].attr) \in ModesFor(source[p].attr)
      BY DEF ModeOf, ModesFor
    <3>. HIDE DEF chosen, reference
    <3>. QED  BY <3>2, <3>3, <3>4
  <2>3. ASSUME NEW i \in DOMAIN inodes
        PROVE  i \in DOMAIN reference /\ inodes[i] \in reference[i]
    <3>1. CASE inodes[i] = DirInode
      <4>1. i \in dirs
        BY <3>1 DEF ServedInv, Directories
      <4>. QED  BY <2>1, <3>1, <4>1
    <3>2. CASE inodes[i] # DirInode
      <4>. DEFINE p == inodes[i].from
      <4>1. /\ p \in loadable /\ i = InodePath(p)
            /\ inodes[i] = FileInode(p, ModeOf(source[p].attr)) /\ i \notin dirs
        BY <3>2 DEF PreloadInv, Inodes, ServedInv, ModeRight, Directories
      <4>. QED  BY <2>1, <2>2, <4>1
    <3>. QED  BY <3>1, <3>2
  <2>4. ASSUME state = "done" PROVE DOMAIN reference \subseteq DOMAIN inodes
    <3>1. files \subseteq DOMAIN inodes
      BY <2>4 DEF ServedInv, Visited
    <3>2. <<>> \in DOMAIN inodes
      BY DEF PreloadInv, Inodes
    <3>3. dirs \subseteq DOMAIN inodes
      BY <3>1, <3>2 DEF ReferenceDirs, TreeWellFormed
    <3>. QED  BY <2>1, <3>1, <3>3
  <2>. QED  BY <2>3, <2>4
<1>. QED  BY PreloadInvariant, TreeSound, ServedInvariant, <1>1, PTL

(* Whatever the names, a file that can be decrypted is served unless       *)
(* another one is to be mounted at the same path or below it.              *)
THEOREM HiddenSound == Spec => []HiddenOnlyByAnother
<1>1. PreloadInv /\ ServedInv => HiddenOnlyByAnother
  <2>. SUFFICES ASSUME PreloadInv, ServedInv, state = "done",
                       NEW p \in LoadablePaths(source),
                       ~\E i \in DOMAIN inodes: inodes[i].from = p
                PROVE  \E q \in LoadablePaths(source) \ {p}:
                         InodePath(p) \in ProperPrefixes(InodePath(q)) \cup {InodePath(q)}
    BY DEF HiddenOnlyByAnother
  <2>. DEFINE goal == InodePath(p)
  <2>1. goal \in DOMAIN inodes
    BY DEF ServedInv, Visited
  <2>2. goal \in Seq(Nat) /\ Len(goal) \in Nat \ {0} /\ goal # <<>>
    BY PathsTyped, InodePathIs, EmptySeq DEF PreloadInv, Types
  <2>3. CASE inodes[goal] = DirInode
    <3>1. PICK q \in LoadablePaths(source): goal \in ProperPrefixes(InodePath(q))
      BY <2>1, <2>2, <2>3 DEF ServedInv, Directories, ReferenceDirs
    <3>2. q # p
      BY <2>2, <3>1, PrefixIs
    <3>. QED  BY <3>1, <3>2
  <2>4. CASE inodes[goal] # DirInode
    <3>. DEFINE q == inodes[goal].from
    <3>1. q \in LoadablePaths(source) /\ goal = InodePath(q)
      BY <2>1, <2>4 DEF PreloadInv, Inodes
    <3>2. q # p
      BY <2>1
    <3>. QED  BY <3>1, <3>2
  <2>. QED  BY <2>3, <2>4
<1>. QED  BY PreloadInvariant, ServedInvariant, <1>1, PTL
=============================================================================
