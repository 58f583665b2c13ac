-------------------------- MODULE NamespaceProofs --------------------------
(***************************************************************************)
(* The calls that change names, for any number of inodes, names and paths: *)
(* a name never leads to a free inode, i_links_count is never below the    *)
(* number of names and, without disk errors, equal to it, and then every   *)
(* inode in use has a path from the root.                                  *)
(***************************************************************************)
EXTENDS Namespace, FiniteSetTheorems, WellFoundedInduction, TLAPS

-----------------------------------------------------------------------------
(* A filesystem: what Namespace says of fs, of any f *)

FsType(f) == f \in [mode   : [Inodes -> {"none", "file", "dir", "symlink"}],
                    links  : [Inodes -> Nat],
                    bitmap : SUBSET Inodes,
                    ents   : [Inodes -> [Names -> Seq(Inodes)]],
                    dotdot : [Inodes -> Inodes],
                    target : [Inodes -> Targets \cup {<<>>}]]

Dirs(f) == {d \in f.bitmap : f.mode[d] = "dir"}
\* Directory d has i, and nothing else, under the name n.
At(f, d, n, i) == d \in Dirs(f) /\ n \in Names /\ f.ents[d][n] = <<i>>
Places(f, i) == {t \in Inodes \X Names \X {1} : At(f, t[1], t[2], i)}
Held(f, i) == i = RootIno \/ \E d, n : At(f, d, n, i)
Kids(f, i) == {d \in Dirs(f) : Held(f, d) /\ f.dotdot[d] = i}
Need(f, i) == Cardinality(Places(f, i)) +
              IF f.mode[i] = "dir" THEN 1 + Cardinality(Kids(f, i)) ELSE 0

\* A slot is empty or has one inode, which is in use; and a directory has one
\* name, where its ".." leads.
Slots(f) == \A d \in Dirs(f), n \in Names :
    f.ents[d][n] = <<>> \/ \E i \in f.bitmap \ {RootIno} : f.ents[d][n] = <<i>>
OneParent(f) == \A i \in Dirs(f) : \A d, n : At(f, d, n, i) =>
    f.dotdot[i] = d /\ \A e, m : At(f, e, m, i) => e = d /\ m = n
Shape(f) == /\ FsType(f) /\ RootIno \in Dirs(f) /\ f.dotdot[RootIno] = RootIno
            /\ Slots(f) /\ OneParent(f)
Enough(f) == \A i \in f.bitmap : Held(f, i) => f.links[i] >= Need(f, i)
Counted(f) == \A i \in f.bitmap : f.links[i] = Need(f, i)
\* Whatever is in use, but the root, is named from outside: so no part of the
\* filesystem is cut off the root.
Rooted(f) == \A X \in SUBSET (f.bitmap \ {RootIno}) :
    X # {} => \E d, n, i : At(f, d, n, i) /\ d \notin X /\ i \in X
\* A rename may cut a part off, when it moves a directory below itself.
Exact(f) == Counted(f) /\ ("renameInside" \in Habits \/ Rooted(f))
Good(f) == Shape(f) /\ Enough(f)

LEMMA Constants ==
    /\ Inodes \subseteq Nat /\ RootIno \in Inodes /\ IsFiniteSet(Inodes) /\ IsFiniteSet(Names)
    /\ Paths \subseteq Seq(Names) \ {<<>>} /\ Targets \subseteq Seq(Names) \ {<<>>}
    /\ MaxFaults \in Nat /\ MaxWalk \in Nat
  BY NamespaceAssumption

LEMMA Single == \A i, j : <<i>> # <<>> /\ Head(<<i>>) = i /\ Tail(<<i>>) = <<>> /\ (<<i>> = <<j>> => i = j)
  OBVIOUS

\* What a slot has.
LEMMA InUse ==
    ASSUME NEW f, Slots(f), NEW d, NEW n, NEW i, At(f, d, n, i)
    PROVE  d \in Dirs(f) /\ d \in f.bitmap /\ n \in Names /\ i \in f.bitmap /\ i # RootIno
  <1>1. d \in Dirs(f) /\ n \in Names /\ f.ents[d][n] = <<i>>
    BY DEF At
  <1>2. f.ents[d][n] # <<>>
    BY <1>1, Single
  <1>3. PICK k \in f.bitmap \ {RootIno} : f.ents[d][n] = <<k>>
    BY <1>1, <1>2 DEF Slots
  <1>4. k = i
    BY <1>1, <1>3, Single
  <1> QED
    BY <1>1, <1>3, <1>4 DEF Dirs

-----------------------------------------------------------------------------
(* Counting *)

LEMMA Places3 == ASSUME NEW f, FsType(f), NEW i, NEW t
                 PROVE  t \in Places(f, i) <=> \E d, n : t = <<d, n, 1>> /\ At(f, d, n, i)
  BY DEF Places, At, Dirs, FsType

LEMMA Finite ==
    ASSUME NEW f, FsType(f), NEW i
    PROVE  /\ IsFiniteSet(Places(f, i)) /\ Cardinality(Places(f, i)) \in Nat
           /\ IsFiniteSet(Kids(f, i)) /\ Cardinality(Kids(f, i)) \in Nat
           /\ Need(f, i) \in Nat
  <1>1. IsFiniteSet(Places(f, i))
    <2> DEFINE pair == [t \in Places(f, i) |-> <<t[1], t[2]>>]
    <2>1. \A t \in Places(f, i) : t \in Inodes \X Names \X {1}
      BY DEF Places
    <2>2. pair \in Injection(Places(f, i), Inodes \X Names)
      BY <2>1 DEF Injection, IsInjective
    <2>3. IsFiniteSet(Inodes \X Names)
      BY Constants, FS_Product
    <2> QED
      BY <2>2, <2>3, FS_Injection
  <1>2. IsFiniteSet(Kids(f, i))
    <2>1. Kids(f, i) \in SUBSET Inodes
      BY DEF Kids, Dirs, FsType
    <2> QED
      BY <2>1, Constants, FS_Subset
  <1> QED
    BY <1>1, <1>2, FS_CardinalityType DEF Need

\* What Need is made of.
LEMMA NeedKept ==
    ASSUME NEW f, NEW g, NEW i, Places(g, i) = Places(f, i),
           g.mode[i] = f.mode[i], f.mode[i] = "dir" => Kids(g, i) = Kids(f, i)
    PROVE  Need(g, i) = Need(f, i)
  BY DEF Need

\* An inode that is not held by a name needs no link but its own ".".
LEMMA HeldIs == ASSUME NEW f, FsType(f), NEW i
                PROVE  Held(f, i) <=> i = RootIno \/ Places(f, i) # {}
  BY Places3 DEF Held

LEMMA NeedsOne ==
    ASSUME NEW f, FsType(f), NEW i, Held(f, i)
    PROVE  Need(f, i) >= 1 \/ i = RootIno
  <1> SUFFICES ASSUME i # RootIno PROVE Need(f, i) >= 1
    BY Finite
  <1>1. Places(f, i) # {}
    BY HeldIs
  <1>2. Cardinality(Places(f, i)) >= 1
    BY <1>1, Finite, FS_EmptySet
  <1> QED
    BY <1>2, Finite DEF Need

\* One place or one child more, or less.
LEMMA PlacesSame ==
    ASSUME NEW f, NEW g, FsType(f), FsType(g), NEW j, \A e, x : At(g, e, x, j) <=> At(f, e, x, j)
    PROVE  Places(g, j) = Places(f, j) /\ (Held(g, j) <=> Held(f, j))
  BY Places3 DEF Held

LEMMA PlacesMore ==
    ASSUME NEW f, NEW g, FsType(f), FsType(g), NEW j, NEW d, NEW n, ~At(f, d, n, j),
           \A e, x : At(g, e, x, j) <=> At(f, e, x, j) \/ (e = d /\ x = n)
    PROVE  Cardinality(Places(g, j)) = Cardinality(Places(f, j)) + 1
  <1>1. Places(g, j) = Places(f, j) \cup {<<d, n, 1>>} /\ <<d, n, 1>> \notin Places(f, j)
    BY Places3
  <1> QED
    BY <1>1, Finite, FS_AddElement

LEMMA PlacesLess ==
    ASSUME NEW f, NEW g, FsType(f), FsType(g), NEW j, NEW d, NEW n, At(f, d, n, j),
           \A e, x : At(g, e, x, j) <=> At(f, e, x, j) /\ ~(e = d /\ x = n)
    PROVE  Cardinality(Places(g, j)) = Cardinality(Places(f, j)) - 1
  <1>1. Places(g, j) = Places(f, j) \ {<<d, n, 1>>} /\ <<d, n, 1>> \in Places(f, j)
    BY Places3
  <1> QED
    BY <1>1, Finite, FS_RemoveElement

LEMMA KidsSame ==
    ASSUME NEW f, NEW g, NEW j, \A k : k \in Kids(g, j) <=> k \in Kids(f, j)
    PROVE  Kids(g, j) = Kids(f, j)
  OBVIOUS

LEMMA KidsMore ==
    ASSUME NEW f, NEW g, FsType(f), NEW j, NEW i, i \notin Kids(f, j),
           \A k : k \in Kids(g, j) <=> k \in Kids(f, j) \/ k = i
    PROVE  Cardinality(Kids(g, j)) = Cardinality(Kids(f, j)) + 1
  <1>1. Kids(g, j) = Kids(f, j) \cup {i}
    OBVIOUS
  <1>2. IsFiniteSet(Kids(f, j))
    BY Finite
  <1> QED
    BY <1>1, <1>2, FS_AddElement

LEMMA KidsLess ==
    ASSUME NEW f, NEW g, FsType(f), NEW j, NEW i, i \in Kids(f, j),
           \A k : k \in Kids(g, j) <=> k \in Kids(f, j) /\ k # i
    PROVE  Cardinality(Kids(g, j)) = Cardinality(Kids(f, j)) - 1
  <1>1. Kids(g, j) = Kids(f, j) \ {i}
    OBVIOUS
  <1>2. IsFiniteSet(Kids(f, j))
    BY Finite
  <1> QED
    BY <1>1, <1>2, FS_RemoveElement

-----------------------------------------------------------------------------
(* What is named from the root *)

\* Names lead nowhere out of S.
Shut(f, S) == \A d, n, i : At(f, d, n, i) /\ d \in S => i \in S
\* i is no directory, or none that b is below.
MayMove(f, i, b) == \/ "renameInside" \in Habits \/ f.mode[i] # "dir"
                    \/ \E S : i \in S /\ b \notin S /\ Shut(f, S)

\* One i is named, or named otherwise, from outside of what is below it; or it is freed.
LEMMA RootedStill ==
    ASSUME NEW f, NEW g, Rooted(f), NEW S, NEW i \in S, Shut(f, S), g.bitmap \subseteq f.bitmap \cup {i},
           \A e, x, j : At(f, e, x, j) /\ j # i /\ j \in g.bitmap => At(g, e, x, j),
           i \in g.bitmap => \E e, x : At(g, e, x, i) /\ e \notin S
    PROVE  Rooted(g)
  <1> SUFFICES ASSUME NEW X \in SUBSET (g.bitmap \ {RootIno}), X # {}
               PROVE  \E d, n, j : At(g, d, n, j) /\ d \notin X /\ j \in X
    BY DEF Rooted
  <1>1. CASE X \subseteq S /\ i \in X
    BY <1>1
  <1>2. CASE X \subseteq S /\ i \notin X
    <2>1. X \in SUBSET (f.bitmap \ {RootIno})
      BY <1>2
    <2>2. PICK d, n, j : At(f, d, n, j) /\ d \notin X /\ j \in X
      BY <2>1 DEF Rooted
    <2> QED
      BY <1>2, <2>2
  <1>3. CASE ~(X \subseteq S)
    <2>1. X \ S \in SUBSET (f.bitmap \ {RootIno}) /\ X \ S # {}
      BY <1>3
    <2>2. PICK d, n, j : At(f, d, n, j) /\ d \notin X \ S /\ j \in X \ S
      BY <2>1 DEF Rooted
    <2>3. d \notin S
      BY <2>2 DEF Shut
    <2> QED
      BY <2>2, <2>3
  <1> QED
    BY <1>1, <1>2, <1>3

\* Below an inode without entries there is nothing.
LEMMA ShutAlone == ASSUME NEW f, NEW i, \A x, j : ~At(f, i, x, j) PROVE Shut(f, {i})
  BY DEF Shut

-----------------------------------------------------------------------------
(* What the calls do to a filesystem in all *)

\* create_file, mkdir and symlink: a new inode i, under the name n of d.
LEMMA NewName ==
    ASSUME NEW f, NEW g, Good(f), FsType(g),
           NEW d \in Dirs(f), NEW n \in Names, f.ents[d][n] = <<>>,
           NEW i \in Inodes \ f.bitmap, g.bitmap = f.bitmap \cup {i},
           \A j \in f.bitmap : g.mode[j] = f.mode[j] /\ g.dotdot[j] = f.dotdot[j],
           \A e \in Dirs(f), x \in Names :
               g.ents[e][x] = IF e = d /\ x = n THEN <<i>> ELSE f.ents[e][x],
           g.mode[i] = "dir" => g.dotdot[i] = d /\ \A x \in Names : g.ents[i][x] = <<>>,
           g.links[i] = IF g.mode[i] = "dir" THEN 2 ELSE 1,
           \A j \in f.bitmap :
               g.links[j] = IF j = d /\ g.mode[i] = "dir" THEN f.links[j] + 1 ELSE f.links[j]
    PROVE  Good(g) /\ (Exact(f) => Exact(g))
  <1>0. /\ FsType(f) /\ RootIno \in Dirs(f) /\ f.dotdot[RootIno] = RootIno
        /\ Slots(f) /\ OneParent(f) /\ Enough(f)
    BY DEF Good, Shape
  <1>1. /\ d \in f.bitmap /\ i # d /\ i # RootIno /\ f.bitmap \subseteq Inodes
        /\ \A e : e \in Dirs(g) <=> e \in Dirs(f) \/ (e = i /\ g.mode[i] = "dir")
    BY <1>0 DEF Dirs, FsType
  <1>2. \A e, x, j : At(f, e, x, j) => e \in f.bitmap /\ j \in f.bitmap /\ j # RootIno
    BY <1>0, InUse
  <1>3. \A e, x, j : At(g, e, x, j) <=> At(f, e, x, j) \/ (e = d /\ x = n /\ j = i)
    <2> SUFFICES ASSUME NEW e, NEW x, NEW j
                 PROVE  At(g, e, x, j) <=> At(f, e, x, j) \/ (e = d /\ x = n /\ j = i)
      OBVIOUS
    <2>1. CASE e \in Dirs(f) /\ x \in Names
      BY <1>1, <2>1, Single DEF At
    <2>2. CASE e = i /\ g.mode[i] = "dir" /\ x \in Names
      BY <1>1, <2>2, Single DEF At, Dirs
    <2> QED
      BY <1>1, <2>1, <2>2 DEF At
  <1>4. Shape(g)
    <2>1. RootIno \in Dirs(g) /\ g.dotdot[RootIno] = RootIno
      BY <1>0, <1>1 DEF Dirs
    <2>2. Slots(g)
      <3> SUFFICES ASSUME NEW e \in Dirs(g), NEW x \in Names
                   PROVE  g.ents[e][x] = <<>> \/ \E k \in g.bitmap \ {RootIno} : g.ents[e][x] = <<k>>
        BY DEF Slots
      <3>1. CASE e \in Dirs(f)
        BY <1>0, <1>1, <3>1 DEF Slots
      <3>2. CASE e = i /\ g.mode[i] = "dir"
        BY <3>2
      <3> QED
        BY <1>1, <3>1, <3>2
    <2>3. OneParent(g)
      <3> SUFFICES ASSUME NEW j \in Dirs(g), NEW e, NEW x, At(g, e, x, j)
                   PROVE  g.dotdot[j] = e /\ \A y, m : At(g, y, m, j) => y = e /\ m = x
        BY DEF OneParent
      <3>1. CASE j = i
        <4>1. \A y, m : At(g, y, m, i) => y = d /\ m = n
          BY <1>2, <1>3
        <4>2. g.mode[i] = "dir"
          BY <3>1 DEF Dirs
        <4> QED
          BY <3>1, <4>1, <4>2
      <3>2. CASE j # i
        <4>1. \A y, m : At(g, y, m, j) <=> At(f, y, m, j)
          BY <1>3, <3>2
        <4>2. j \in Dirs(f) /\ j \in f.bitmap
          BY <1>1, <3>2 DEF Dirs
        <4> QED
          BY <1>0, <4>1, <4>2 DEF OneParent
      <3> QED
        BY <3>1, <3>2
    <2> QED
      BY <1>0, <2>1, <2>2, <2>3 DEF Shape
  <1>5. \A j \in f.bitmap : Places(g, j) = Places(f, j) /\ (Held(g, j) <=> Held(f, j))
    BY <1>0, <1>3, PlacesSame
  <1>6. Held(g, i) /\ Cardinality(Places(g, i)) = 1
    <2>1. Cardinality(Places(f, i)) = 0
      <3>1. Places(f, i) = {}
        BY <1>0, <1>2, Places3
      <3> QED
        BY <3>1, FS_EmptySet
    <2>2. ~At(f, d, n, i) /\ At(g, d, n, i) /\ \A e, x : At(g, e, x, i) <=> At(f, e, x, i) \/ (e = d /\ x = n)
      BY <1>2, <1>3
    <2> QED
      BY <1>0, <2>1, <2>2, PlacesMore DEF Held
  <1>7. \A j, k : k \in Kids(g, j) <=> k \in Kids(f, j) \/ (k = i /\ g.mode[i] = "dir" /\ j = d)
    BY <1>1, <1>5, <1>6 DEF Kids, Dirs
  <1>8. Need(g, i) = g.links[i]
    <2>1. \A k : k \notin Kids(f, i)
      <3> SUFFICES ASSUME NEW k \in Kids(f, i) PROVE FALSE
        OBVIOUS
      <3>1. k \in Dirs(f) /\ Held(f, k) /\ f.dotdot[k] = i
        BY DEF Kids
      <3>2. PICK e, x : At(f, e, x, k)
        BY <1>0, <1>1, <3>1 DEF Held
      <3> QED
        BY <1>0, <1>2, <3>1, <3>2 DEF OneParent
    <2>2. Kids(g, i) = {}
      BY <1>1, <1>7, <2>1
    <2> QED
      BY <1>6, <2>2, FS_EmptySet DEF Need
  <1>9. \A j \in f.bitmap : Need(g, j) = IF j = d /\ g.mode[i] = "dir" THEN Need(f, j) + 1
                                        ELSE Need(f, j)
    <2> SUFFICES ASSUME NEW j \in f.bitmap
                 PROVE  Need(g, j) = IF j = d /\ g.mode[i] = "dir" THEN Need(f, j) + 1 ELSE Need(f, j)
      OBVIOUS
    <2>1. Places(g, j) = Places(f, j) /\ g.mode[j] = f.mode[j]
      BY <1>5
    <2>2. CASE j = d /\ g.mode[i] = "dir"
      <3>0. i \notin Dirs(f)
        BY <1>1 DEF Dirs
      <3>1. i \notin Kids(f, j) /\ \A k : k \in Kids(g, j) <=> k \in Kids(f, j) \/ k = i
        BY <1>7, <2>2, <3>0 DEF Kids
      <3>2. Cardinality(Kids(g, j)) = Cardinality(Kids(f, j)) + 1
        BY <1>0, <3>1, KidsMore
      <3>3. f.mode[j] = "dir"
        BY <2>2 DEF Dirs
      <3>4. /\ Need(g, j) = Cardinality(Places(f, j)) + (1 + Cardinality(Kids(g, j)))
            /\ Need(f, j) = Cardinality(Places(f, j)) + (1 + Cardinality(Kids(f, j)))
        BY <2>1, <3>3 DEF Need
      <3>5. Cardinality(Places(f, j)) \in Nat /\ Cardinality(Kids(f, j)) \in Nat
        BY <1>0, Finite
      <3> QED
        BY <2>2, <3>2, <3>4, <3>5
    <2>3. CASE ~(j = d /\ g.mode[i] = "dir")
      <3>1. Kids(g, j) = Kids(f, j)
        BY <1>7, <2>3, KidsSame
      <3> QED
        BY <2>1, <2>3, <3>1, NeedKept
    <2> QED
      BY <2>2, <2>3
  <1>10. \A j \in f.bitmap : f.links[j] \in Nat /\ Need(f, j) \in Nat /\ g.links[j] \in Nat
    BY <1>0, <1>1, Finite DEF FsType
  <1>11. Enough(g)
    BY <1>0, <1>5, <1>8, <1>9, <1>10 DEF Enough
  <1>12. Counted(f) => Counted(g)
    BY <1>8, <1>9, <1>10 DEF Counted
  <1>13. Rooted(f) => Rooted(g)
    <2>1. Shut(f, {i}) /\ At(g, d, n, i) /\ d \notin {i}
      BY <1>1, <1>2, <1>3, ShutAlone
    <2>2. \A e, x, j : At(f, e, x, j) => At(g, e, x, j)
      BY <1>3
    <2> QED
      BY <2>1, <2>2, RootedStill
  <1> QED
    BY <1>4, <1>11, <1>12, <1>13 DEF Good, Exact

\* link: one name and one link more for an i that is no directory.
LEMMA NameMore ==
    ASSUME NEW f, NEW g, Good(f), FsType(g),
           NEW d \in Dirs(f), NEW n \in Names, f.ents[d][n] = <<>>,
           NEW i \in f.bitmap, f.mode[i] # "dir",
           g.bitmap = f.bitmap, g.mode = f.mode, g.dotdot = f.dotdot,
           \A e \in Dirs(f), x \in Names :
               g.ents[e][x] = IF e = d /\ x = n THEN <<i>> ELSE f.ents[e][x],
           \A j \in f.bitmap : g.links[j] = IF j = i THEN f.links[j] + 1 ELSE f.links[j]
    PROVE  Good(g) /\ (Exact(f) => Exact(g))
  <1>0. /\ FsType(f) /\ RootIno \in Dirs(f) /\ f.dotdot[RootIno] = RootIno
        /\ Slots(f) /\ OneParent(f) /\ Enough(f)
    BY DEF Good, Shape
  <1>1. i # RootIno /\ Dirs(g) = Dirs(f) /\ i \notin Dirs(f) /\ f.bitmap \subseteq Inodes
    BY <1>0 DEF Dirs, FsType
  <1>2. \A e, x, j : At(g, e, x, j) <=> At(f, e, x, j) \/ (e = d /\ x = n /\ j = i)
    <2> SUFFICES ASSUME NEW e, NEW x, NEW j
                 PROVE  At(g, e, x, j) <=> At(f, e, x, j) \/ (e = d /\ x = n /\ j = i)
      OBVIOUS
    <2>1. CASE e \in Dirs(f) /\ x \in Names
      BY <1>1, <2>1, Single DEF At
    <2> QED
      BY <1>1, <2>1 DEF At
  <1>3. ~At(f, d, n, i)
    BY Single DEF At
  <1>4. Shape(g)
    <2>1. Slots(g)
      BY <1>0, <1>1 DEF Slots
    <2>2. OneParent(g)
      BY <1>0, <1>1, <1>2 DEF OneParent
    <2> QED
      BY <1>0, <1>1, <2>1, <2>2 DEF Shape
  <1>5. \A j \in f.bitmap \ {i} : Places(g, j) = Places(f, j) /\ (Held(g, j) <=> Held(f, j))
    BY <1>0, <1>2, PlacesSame
  <1>6. Cardinality(Places(g, i)) = Cardinality(Places(f, i)) + 1
    BY <1>0, <1>2, <1>3, PlacesMore
  <1>7. \A j : Kids(g, j) = Kids(f, j)
    <2>1. \A k \in Dirs(f) : Held(g, k) <=> Held(f, k)
      BY <1>1, <1>5 DEF Dirs
    <2> QED
      BY <1>1, <2>1 DEF Kids
  <1>8. \A j \in f.bitmap : /\ Need(g, j) = IF j = i THEN Need(f, j) + 1 ELSE Need(f, j)
                            /\ f.links[j] \in Nat /\ Need(f, j) \in Nat
    <2>1. \A j \in f.bitmap \ {i} : Need(g, j) = Need(f, j)
      BY <1>5, <1>7, NeedKept
    <2>2. Need(g, i) = Cardinality(Places(g, i)) + 0 /\ Need(f, i) = Cardinality(Places(f, i)) + 0
      BY DEF Need
    <2>3. \A j \in f.bitmap : f.links[j] \in Nat /\ Need(f, j) \in Nat
      BY <1>0, <1>1, Finite DEF FsType
    <2>4. Cardinality(Places(f, i)) \in Nat
      BY <1>0, Finite
    <2> QED
      BY <1>6, <2>1, <2>2, <2>3, <2>4
  <1>9. f.links[i] >= Need(f, i)
    <2>1. CASE Held(f, i)
      BY <1>0, <2>1 DEF Enough
    <2>2. CASE ~Held(f, i)
      <3>1. Cardinality(Places(f, i)) = 0
        BY <1>0, <2>2, HeldIs, FS_EmptySet
      <3>2. Need(f, i) = 0
        BY <3>1 DEF Need
      <3> QED
        BY <1>8, <3>2
    <2> QED
      BY <2>1, <2>2
  <1>10. Enough(g)
    <2> SUFFICES ASSUME NEW j \in f.bitmap, Held(g, j) PROVE g.links[j] >= Need(g, j)
      BY DEF Enough
    <2>1. CASE j = i
      BY <1>8, <1>9, <2>1
    <2>2. CASE j # i
      BY <1>0, <1>5, <1>8, <2>2 DEF Enough
    <2> QED
      BY <2>1, <2>2
  <1>11. Counted(f) => Counted(g)
    BY <1>8 DEF Counted
  <1>12. Rooted(f) => Rooted(g)
    <2>1. Shut(f, {i}) /\ At(g, d, n, i) /\ d \notin {i}
      <3>1. \A x, j : ~At(f, i, x, j)
        BY <1>1 DEF At
      <3> QED
        BY <1>1, <1>2, <3>1, ShutAlone
    <2>2. \A e, x, j : At(f, e, x, j) => At(g, e, x, j)
      BY <1>2
    <2> QED
      BY <2>1, <2>2, RootedStill
  <1> QED
    BY <1>4, <1>10, <1>11, <1>12 DEF Good, Exact

\* unlink and rmdir: one name less, and perhaps the inode is freed.  What is
\* left unlinked but not freed has more links than it needs.
LEMMA NameLess ==
    ASSUME NEW f, NEW g, Good(f), FsType(g), NEW d, NEW n, NEW i, At(f, d, n, i),
           \/ g.bitmap = f.bitmap
           \/ /\ g.bitmap = f.bitmap \ {i} /\ Cardinality(Places(f, i)) = 1
              /\ f.mode[i] = "dir" => \A x \in Names : f.ents[i][x] = <<>>,
           g.mode = f.mode, g.dotdot = f.dotdot,
           \A e \in Dirs(f), x \in Names :
               g.ents[e][x] = IF e = d /\ x = n THEN <<>> ELSE f.ents[e][x],
           \A j \in g.bitmap : \/ g.links[j] = f.links[j]
                               \/ j = i /\ f.mode[i] # "dir" /\ g.links[j] = f.links[j] - 1
                               \/ j = i /\ f.mode[i] = "dir"
                               \/ j = d /\ f.mode[i] = "dir" /\ g.links[j] = f.links[j] - 1
    PROVE  /\ Good(g)
           /\ /\ Exact(f)
              /\ i \in g.bitmap => f.mode[i] # "dir" /\ g.links[i] = f.links[i] - 1 /\ g.links[i] >= 1
              /\ f.mode[i] = "dir" => g.links[d] = f.links[d] - 1
              => Exact(g)
  <1>0. /\ FsType(f) /\ RootIno \in Dirs(f) /\ f.dotdot[RootIno] = RootIno
        /\ Slots(f) /\ OneParent(f) /\ Enough(f)
    BY DEF Good, Shape
  <1>1. /\ d \in Dirs(f) /\ n \in Names /\ i \in f.bitmap /\ i # RootIno
        /\ f.bitmap \subseteq Inodes /\ g.bitmap \subseteq f.bitmap
        /\ \A j \in f.bitmap : j # i => j \in g.bitmap
    BY <1>0, InUse DEF FsType
  <1>2. \A e : e \in Dirs(g) <=> e \in Dirs(f) /\ (e = i => i \in g.bitmap)
    BY <1>1 DEF Dirs
  <1>3. i \notin g.bitmap => \A x, j : ~At(f, i, x, j)
    BY Single DEF At, Dirs
  <1>4. \A e, x, j : At(g, e, x, j) <=> At(f, e, x, j) /\ ~(e = d /\ x = n)
    <2> SUFFICES ASSUME NEW e, NEW x, NEW j
                 PROVE  At(g, e, x, j) <=> At(f, e, x, j) /\ ~(e = d /\ x = n)
      OBVIOUS
    <2>1. CASE e \in Dirs(g) /\ x \in Names
      BY <1>2, <2>1, Single DEF At
    <2>2. CASE e = i /\ i \notin g.bitmap
      BY <1>2, <1>3, <2>2 DEF At
    <2> QED
      BY <1>2, <2>1, <2>2 DEF At
  <1>5. \A j : j # i => Places(g, j) = Places(f, j) /\ (Held(g, j) <=> Held(f, j))
    <2> SUFFICES ASSUME NEW j, j # i
                 PROVE  Places(g, j) = Places(f, j) /\ (Held(g, j) <=> Held(f, j))
      OBVIOUS
    <2>1. ~At(f, d, n, j)
      BY Single DEF At
    <2>2. \A e, x : At(g, e, x, j) <=> At(f, e, x, j)
      BY <1>4, <2>1
    <2> QED
      BY <1>0, <2>2, PlacesSame
  <1>6. Cardinality(Places(g, i)) = Cardinality(Places(f, i)) - 1
    BY <1>0, <1>4, PlacesLess
  <1>7. f.mode[i] = "dir" => i \in Dirs(f) /\ f.dotdot[i] = d /\ ~Held(g, i)
    <2> SUFFICES ASSUME f.mode[i] = "dir" PROVE i \in Dirs(f) /\ f.dotdot[i] = d /\ ~Held(g, i)
      OBVIOUS
    <2>1. i \in Dirs(f)
      BY <1>1 DEF Dirs
    <2>2. f.dotdot[i] = d /\ \A e, m : At(f, e, m, i) => e = d /\ m = n
      BY <1>0, <2>1 DEF OneParent
    <2> QED
      BY <1>1, <1>4, <2>1, <2>2 DEF Held
  <1>8. Shape(g)
    <2>1. Slots(g)
      <3> SUFFICES ASSUME NEW e \in Dirs(g), NEW x \in Names
                   PROVE  g.ents[e][x] = <<>> \/ \E k \in g.bitmap \ {RootIno} : g.ents[e][x] = <<k>>
        BY DEF Slots
      <3>1. CASE e = d /\ x = n
        BY <1>1, <3>1
      <3>2. CASE ~(e = d /\ x = n)
        <4>1. e \in Dirs(f) /\ g.ents[e][x] = f.ents[e][x]
          BY <1>2, <3>2
        <4>2. CASE f.ents[e][x] = <<>>
          BY <4>1, <4>2
        <4>3. ASSUME NEW k \in f.bitmap \ {RootIno}, f.ents[e][x] = <<k>>
              PROVE  k \in g.bitmap
          <5>1. At(f, e, x, k)
            BY <4>1, <4>3 DEF At
          <5>2. CASE i \notin g.bitmap /\ k = i
            <6>1. <<e, x, 1>> \in Places(f, i) /\ <<d, n, 1>> \in Places(f, i)
              BY <1>0, <5>1, <5>2, Places3
            <6>2. PICK t : Places(f, i) = {t}
              BY <1>0, <1>1, <5>2, Finite, FS_Singleton
            <6> QED
              BY <3>2, <6>1, <6>2
          <5> QED
            BY <1>1, <5>2
        <4> QED
          BY <1>0, <4>1, <4>2, <4>3 DEF Slots
      <3> QED
        BY <3>1, <3>2
    <2>2. OneParent(g)
      <3> SUFFICES ASSUME NEW j \in Dirs(g), NEW e, NEW x, At(g, e, x, j)
                   PROVE  g.dotdot[j] = e /\ \A y, m : At(g, y, m, j) => y = e /\ m = x
        BY DEF OneParent
      <3>1. j \in Dirs(f) /\ At(f, e, x, j)
        BY <1>2, <1>4
      <3> QED
        BY <1>0, <1>4, <3>1 DEF OneParent
    <2> QED
      BY <1>0, <1>1, <1>2, <2>1, <2>2 DEF Shape
  <1>9. \A j, k : k \in Kids(g, j) <=> k \in Kids(f, j) /\ k # i
    <2> SUFFICES ASSUME NEW j, NEW k PROVE k \in Kids(g, j) <=> k \in Kids(f, j) /\ k # i
      OBVIOUS
    <2>1. CASE k # i
      BY <1>2, <1>5, <2>1 DEF Kids
    <2>2. CASE k = i
      BY <1>7, <2>2 DEF Kids, Dirs
    <2> QED
      BY <2>1, <2>2
  <1>10. \A j : f.mode[i] = "dir" => (i \in Kids(f, j) <=> j = d)
    BY <1>7 DEF Kids, Held
  <1>11. \A j \in g.bitmap : j # i =>
           Need(g, j) = IF j = d /\ f.mode[i] = "dir" THEN Need(f, j) - 1 ELSE Need(f, j)
    <2> SUFFICES ASSUME NEW j \in g.bitmap, j # i
                 PROVE  Need(g, j) = IF j = d /\ f.mode[i] = "dir" THEN Need(f, j) - 1 ELSE Need(f, j)
      OBVIOUS
    <2>1. Places(g, j) = Places(f, j)
      BY <1>5
    <2>2. CASE j = d /\ f.mode[i] = "dir"
      <3>1. Cardinality(Kids(g, j)) = Cardinality(Kids(f, j)) - 1
        BY <1>0, <1>9, <1>10, <2>2, KidsLess
      <3>2. f.mode[j] = "dir"
        BY <1>1, <2>2 DEF Dirs
      <3>3. /\ Need(g, j) = Cardinality(Places(f, j)) + (1 + Cardinality(Kids(g, j)))
            /\ Need(f, j) = Cardinality(Places(f, j)) + (1 + Cardinality(Kids(f, j)))
        BY <2>1, <3>2 DEF Need
      <3>4. Cardinality(Places(f, j)) \in Nat /\ Cardinality(Kids(f, j)) \in Nat
        BY <1>0, Finite
      <3> QED
        BY <2>2, <3>1, <3>3, <3>4
    <2>3. CASE ~(j = d /\ f.mode[i] = "dir")
      <3>1. i \notin Kids(f, j)
        <4>1. CASE f.mode[i] = "dir"
          BY <1>10, <2>3, <4>1
        <4>2. CASE f.mode[i] # "dir"
          BY <4>2 DEF Kids, Dirs
        <4> QED
          BY <4>1, <4>2
      <3>2. Kids(g, j) = Kids(f, j)
        BY <1>9, <3>1, KidsSame
      <3> QED
        BY <2>1, <2>3, <3>2, NeedKept
    <2> QED
      BY <2>2, <2>3
  <1>12. f.mode[i] # "dir" => Need(g, i) = Need(f, i) - 1
    BY <1>0, <1>6, Finite DEF Need
  <1>13. \A j \in f.bitmap : f.links[j] \in Nat /\ Need(f, j) \in Nat
    BY <1>0, <1>1, Finite DEF FsType
  <1>14. Enough(g)
    <2> SUFFICES ASSUME NEW j \in g.bitmap, Held(g, j) PROVE g.links[j] >= Need(g, j)
      BY DEF Enough
    <2>1. CASE j = i
      <3>1. Held(f, i) /\ f.mode[i] # "dir"
        BY <1>7, <2>1 DEF Held
      <3>2. f.links[i] >= Need(f, i) /\ f.links[i] \in Nat /\ Need(f, i) \in Nat
        BY <1>0, <1>1, <1>13, <3>1 DEF Enough
      <3>3. g.links[i] = f.links[i] \/ g.links[i] = f.links[i] - 1
        BY <2>1, <3>1
      <3> QED
        BY <1>12, <2>1, <3>1, <3>2, <3>3
    <2>2. CASE j # i
      <3>1. f.links[j] >= Need(f, j) /\ f.links[j] \in Nat /\ Need(f, j) \in Nat
        BY <1>0, <1>1, <1>5, <1>13, <2>2 DEF Enough
      <3> QED
        BY <1>11, <2>2, <3>1
    <2> QED
      BY <2>1, <2>2
  <1>15. /\ Counted(f)
         /\ i \in g.bitmap => f.mode[i] # "dir" /\ g.links[i] = f.links[i] - 1 /\ g.links[i] >= 1
         /\ f.mode[i] = "dir" => g.links[d] = f.links[d] - 1
         => Counted(g)
    <2> SUFFICES ASSUME Counted(f), NEW j \in g.bitmap,
                        i \in g.bitmap => f.mode[i] # "dir" /\ g.links[i] = f.links[i] - 1,
                        f.mode[i] = "dir" => g.links[d] = f.links[d] - 1
                 PROVE  g.links[j] = Need(g, j)
      BY DEF Counted
    <2>1. f.links[j] = Need(f, j) /\ Need(f, j) \in Nat
      BY <1>1, <1>13 DEF Counted
    <2>2. CASE j = i
      BY <1>12, <2>1, <2>2
    <2>3. CASE j # i
      BY <1>11, <2>1, <2>3
    <2> QED
      BY <2>2, <2>3
  <1>16. /\ Counted(f) /\ Rooted(f)
         /\ i \in g.bitmap => f.mode[i] # "dir" /\ g.links[i] = f.links[i] - 1 /\ g.links[i] >= 1
         => Rooted(g)
    <2> SUFFICES ASSUME Counted(f), Rooted(f),
                        i \in g.bitmap =>
                            f.mode[i] # "dir" /\ g.links[i] = f.links[i] - 1 /\ g.links[i] >= 1
                 PROVE  Rooted(g)
      OBVIOUS
    <2>1. \A x, j : ~At(f, i, x, j)
      BY <1>3 DEF At, Dirs
    <2>2. \A e, x, j : At(f, e, x, j) /\ j # i /\ j \in g.bitmap => At(g, e, x, j)
      <3>1. \A j : At(f, d, n, j) => j = i
        BY Single DEF At
      <3> QED
        BY <1>4, <3>1
    <2>3. ASSUME i \in g.bitmap PROVE \E e, x : At(g, e, x, i) /\ e \notin {i}
      <3>1. f.mode[i] # "dir" /\ g.links[i] = f.links[i] - 1 /\ g.links[i] >= 1
        BY <2>3
      <3>2. Need(f, i) = Cardinality(Places(f, i)) + 0
        BY <3>1 DEF Need
      <3>3. Cardinality(Places(f, i)) \in Nat /\ f.links[i] = Need(f, i)
        <4>1. f.links[i] = Need(f, i)
          BY <1>1 DEF Counted
        <4>2. Cardinality(Places(f, i)) \in Nat
          BY <1>0, Finite
        <4> QED
          BY <4>1, <4>2
      <3>4. Cardinality(Places(g, i)) >= 1
        BY <1>6, <3>1, <3>2, <3>3
      <3>5. Places(g, i) # {}
        BY <3>4, Finite, FS_EmptySet
      <3>6. PICK e, x : At(g, e, x, i)
        BY <1>1, <3>5, HeldIs DEF Held
      <3> QED
        BY <1>4, <2>1, <3>6
    <2> QED
      BY <1>1, <2>1, <2>2, <2>3, ShutAlone, RootedStill
  <1> QED
    BY <1>8, <1>14, <1>15, <1>16 DEF Good, Exact

\* rename, once the target is gone: i moves from the name n of d to m of e.
LEMMA NameMoved ==
    ASSUME NEW f, NEW g, Good(f), FsType(g), NEW d, NEW n, NEW i, At(f, d, n, i),
           NEW e \in Dirs(f), NEW m \in Names, f.ents[e][m] = <<>>, MayMove(f, i, e),
           g.bitmap = f.bitmap, g.mode = f.mode,
           \A j \in f.bitmap :
               g.dotdot[j] = IF j = i /\ f.mode[i] = "dir" THEN e ELSE f.dotdot[j],
           \A y \in Dirs(f), x \in Names :
               g.ents[y][x] = IF y = e /\ x = m THEN <<i>>
                              ELSE IF y = d /\ x = n THEN <<>> ELSE f.ents[y][x],
           \A j \in f.bitmap :
               g.links[j] = IF f.mode[i] # "dir" \/ d = e THEN f.links[j]
                            ELSE IF j = d THEN f.links[j] - 1
                            ELSE IF j = e THEN f.links[j] + 1 ELSE f.links[j]
    PROVE  Good(g) /\ (Exact(f) => Exact(g))
  <1>0. /\ FsType(f) /\ RootIno \in Dirs(f) /\ f.dotdot[RootIno] = RootIno
        /\ Slots(f) /\ OneParent(f) /\ Enough(f)
    BY DEF Good, Shape
  <1>1. /\ d \in Dirs(f) /\ n \in Names /\ i \in f.bitmap /\ i # RootIno
        /\ f.bitmap \subseteq Inodes /\ Dirs(g) = Dirs(f) /\ RootIno \in f.bitmap
        /\ ~(d = e /\ n = m) /\ \A j : ~At(f, e, m, j)
    <2>1. \A j : ~At(f, e, m, j)
      BY Single DEF At
    <2>2. Dirs(g) = Dirs(f)
      BY DEF Dirs
    <2>3. d \in Dirs(f) /\ n \in Names /\ i \in f.bitmap /\ i # RootIno
      BY <1>0, InUse
    <2>4. f.bitmap \subseteq Inodes /\ RootIno \in f.bitmap
      BY <1>0 DEF FsType, Dirs
    <2>5. ~(d = e /\ n = m)
      BY <2>1
    <2> QED
      BY <2>1, <2>2, <2>3, <2>4, <2>5
  <1>2. \A y, x, j : At(g, y, x, j) <=> (At(f, y, x, j) /\ ~(y = d /\ x = n)) \/ (y = e /\ x = m /\ j = i)
    <2> SUFFICES ASSUME NEW y, NEW x, NEW j
                 PROVE  At(g, y, x, j) <=>
                          (At(f, y, x, j) /\ ~(y = d /\ x = n)) \/ (y = e /\ x = m /\ j = i)
      OBVIOUS
    <2>1. CASE y \in Dirs(f) /\ x \in Names
      BY <1>1, <2>1, Single DEF At
    <2> QED
      BY <1>1, <2>1 DEF At
  <1>3. \A j : At(f, d, n, j) => j = i
    BY Single DEF At
  <1>4. \A j : j # i => Places(g, j) = Places(f, j) /\ (Held(g, j) <=> Held(f, j))
    <2> SUFFICES ASSUME NEW j, j # i
                 PROVE  Places(g, j) = Places(f, j) /\ (Held(g, j) <=> Held(f, j))
      OBVIOUS
    <2>1. \A y, x : At(g, y, x, j) <=> At(f, y, x, j)
      BY <1>2, <1>3
    <2> QED
      BY <1>0, <2>1, PlacesSame
  <1>5. Held(f, i) /\ Held(g, i)
    BY <1>2 DEF Held
  <1>6. Cardinality(Places(g, i)) = Cardinality(Places(f, i))
    <2> DEFINE P == Places(f, i) \ {<<d, n, 1>>}
    <2>1. Places(g, i) = P \cup {<<e, m, 1>>} /\ <<e, m, 1>> \notin P /\ <<d, n, 1>> \in Places(f, i)
      BY <1>0, <1>1, <1>2, Places3
    <2>2. IsFiniteSet(P) /\ Cardinality(P) = Cardinality(Places(f, i)) - 1
      BY <1>0, <2>1, Finite, FS_RemoveElement
    <2>3. Cardinality(Places(g, i)) = Cardinality(P) + 1
      <3> HIDE DEF P
      <3> QED
        BY <2>1, <2>2, FS_AddElement
    <2> QED
      BY <1>0, <2>2, <2>3, Finite
  <1>7. f.mode[i] = "dir" => /\ i \in Dirs(f) /\ f.dotdot[i] = d
                            /\ \A y, x : At(f, y, x, i) => y = d /\ x = n
    <2> SUFFICES ASSUME f.mode[i] = "dir" PROVE i \in Dirs(f)
      BY <1>0 DEF OneParent
    <2> QED
      BY <1>1 DEF Dirs
  <1>8. Shape(g)
    <2>1. Slots(g)
      BY <1>0, <1>1 DEF Slots
    <2>2. OneParent(g)
      <3> SUFFICES ASSUME NEW j \in Dirs(g), NEW y, NEW x, At(g, y, x, j)
                   PROVE  g.dotdot[j] = y /\ \A a, b : At(g, a, b, j) => a = y /\ b = x
        BY DEF OneParent
      <3>1. j \in Dirs(f) /\ j \in f.bitmap
        BY <1>1 DEF Dirs
      <3>2. CASE j = i
        <4>1. f.mode[i] = "dir"
          BY <3>1, <3>2 DEF Dirs
        <4>2. \A a, b : At(g, a, b, i) => a = e /\ b = m
          BY <1>2, <1>7, <4>1
        <4> QED
          BY <3>1, <3>2, <4>1, <4>2
      <3>3. CASE j # i
        <4>1. \A a, b : At(g, a, b, j) <=> At(f, a, b, j)
          BY <1>2, <1>3, <3>3
        <4>2. g.dotdot[j] = f.dotdot[j]
          BY <3>1, <3>3
        <4> QED
          BY <1>0, <3>1, <4>1, <4>2 DEF OneParent
      <3> QED
        BY <3>2, <3>3
    <2>3. g.dotdot[RootIno] = RootIno
      BY <1>0, <1>1
    <2> QED
      BY <1>0, <1>1, <2>1, <2>2, <2>3 DEF Shape
  <1>9. \A j, k : k # i => (k \in Kids(g, j) <=> k \in Kids(f, j))
    BY <1>1, <1>4 DEF Kids, Dirs
  <1>10. \A j : /\ i \in Kids(f, j) <=> f.mode[i] = "dir" /\ j = d
                /\ i \in Kids(g, j) <=> f.mode[i] = "dir" /\ j = e
    <2>1. f.mode[i] # "dir" => i \notin Dirs(f)
      BY DEF Dirs
    <2> QED
      BY <1>1, <1>5, <1>7, <2>1 DEF Kids
  <1>11. \A j \in f.bitmap :
           Need(g, j) = IF f.mode[i] # "dir" \/ d = e THEN Need(f, j)
                        ELSE IF j = d THEN Need(f, j) - 1
                        ELSE IF j = e THEN Need(f, j) + 1 ELSE Need(f, j)
    <2> SUFFICES ASSUME NEW j \in f.bitmap
                 PROVE  Need(g, j) = IF f.mode[i] # "dir" \/ d = e THEN Need(f, j)
                                     ELSE IF j = d THEN Need(f, j) - 1
                                     ELSE IF j = e THEN Need(f, j) + 1 ELSE Need(f, j)
      OBVIOUS
    <2>1. Cardinality(Places(g, j)) = Cardinality(Places(f, j))
      BY <1>4, <1>6
    <2>2. /\ Need(g, j) = Cardinality(Places(f, j)) +
                  IF f.mode[j] = "dir" THEN 1 + Cardinality(Kids(g, j)) ELSE 0
          /\ Need(f, j) = Cardinality(Places(f, j)) +
                  IF f.mode[j] = "dir" THEN 1 + Cardinality(Kids(f, j)) ELSE 0
      BY <2>1 DEF Need
    <2>3. Cardinality(Places(f, j)) \in Nat /\ Cardinality(Kids(f, j)) \in Nat
      BY <1>0, Finite
    <2>4. CASE f.mode[i] # "dir" \/ d = e \/ (j # d /\ j # e)
      <3>1. Kids(g, j) = Kids(f, j)
        BY <1>9, <1>10, <2>4, KidsSame
      <3> QED
        BY <2>2, <2>4, <3>1
    <2>5. CASE f.mode[i] = "dir" /\ d # e /\ j = d
      <3>1. i \in Kids(f, j) /\ \A k : k \in Kids(g, j) <=> k \in Kids(f, j) /\ k # i
        BY <1>9, <1>10, <2>5
      <3>2. Cardinality(Kids(g, j)) = Cardinality(Kids(f, j)) - 1
        BY <1>0, <3>1, KidsLess
      <3>3. f.mode[j] = "dir"
        BY <1>1, <2>5 DEF Dirs
      <3> QED
        BY <2>2, <2>3, <2>5, <3>2, <3>3
    <2>6. CASE f.mode[i] = "dir" /\ d # e /\ j = e
      <3>1. i \notin Kids(f, j) /\ \A k : k \in Kids(g, j) <=> k \in Kids(f, j) \/ k = i
        BY <1>9, <1>10, <2>6
      <3>2. Cardinality(Kids(g, j)) = Cardinality(Kids(f, j)) + 1
        BY <1>0, <3>1, KidsMore
      <3>3. f.mode[j] = "dir"
        BY <2>6 DEF Dirs
      <3> QED
        BY <2>2, <2>3, <2>6, <3>2, <3>3
    <2> QED
      BY <2>4, <2>5, <2>6
  <1>12. \A j \in f.bitmap : f.links[j] \in Nat /\ Need(f, j) \in Nat
    BY <1>0, <1>1, Finite DEF FsType
  <1>13. Enough(g)
    <2> SUFFICES ASSUME NEW j \in f.bitmap, Held(g, j) PROVE g.links[j] >= Need(g, j)
      BY DEF Enough
    <2>1. f.links[j] >= Need(f, j)
      BY <1>0, <1>4, <1>5 DEF Enough
    <2> QED
      BY <1>11, <1>12, <2>1
  <1>14. Counted(f) => Counted(g)
    <2> SUFFICES ASSUME Counted(f), NEW j \in f.bitmap PROVE g.links[j] = Need(g, j)
      BY DEF Counted
    <2>1. f.links[j] = Need(f, j)
      BY DEF Counted
    <2> QED
      BY <1>11, <2>1
  <1>15. "renameInside" \in Habits \/ (Rooted(f) => Rooted(g))
    <2>0. /\ \A y, x, j : At(f, y, x, j) /\ j # i => At(g, y, x, j)
          /\ At(g, e, m, i)
      BY <1>2, <1>3
    <2>1. CASE f.mode[i] # "dir"
      <3>1. Shut(f, {i}) /\ e \notin {i}
        <4>1. i \notin Dirs(f)
          BY <2>1 DEF Dirs
        <4> QED
          BY <4>1, ShutAlone DEF At
      <3> QED
        BY <2>0, <3>1, RootedStill
    <2>2. ASSUME NEW S, i \in S, e \notin S, Shut(f, S) PROVE Rooted(f) => Rooted(g)
      BY <2>0, <2>2, RootedStill
    <2> QED
      BY <2>1, <2>2 DEF MayMove
  <1> QED
    BY <1>8, <1>13, <1>14, <1>15 DEF Good, Exact

\* Links added and no name: nothing is lost.
LEMMA LinksMore ==
    ASSUME NEW f, NEW g, Good(f), FsType(g), g.bitmap = f.bitmap, g.mode = f.mode,
           g.dotdot = f.dotdot, g.ents = f.ents, \A j \in f.bitmap : g.links[j] >= f.links[j]
    PROVE  Good(g)
  <1>0. /\ FsType(f) /\ RootIno \in Dirs(f) /\ f.dotdot[RootIno] = RootIno
        /\ Slots(f) /\ OneParent(f) /\ Enough(f) /\ f.bitmap \subseteq Inodes
    BY DEF Good, Shape, FsType
  <1>1. Dirs(g) = Dirs(f)
    BY DEF Dirs
  <1>2. \A d, n, i : At(g, d, n, i) <=> At(f, d, n, i)
    BY <1>1 DEF At
  <1>3. \A i : Places(g, i) = Places(f, i) /\ (Held(g, i) <=> Held(f, i))
    BY <1>0, <1>2, PlacesSame
  <1>4. \A i : Kids(g, i) = Kids(f, i)
    BY <1>1, <1>3 DEF Kids
  <1>5. \A i : Need(g, i) = Need(f, i)
    BY <1>3, <1>4 DEF Need
  <1>6. Enough(g)
    <2> SUFFICES ASSUME NEW j \in f.bitmap, Held(g, j) PROVE g.links[j] >= Need(g, j)
      BY DEF Enough
    <2>1. f.links[j] >= Need(f, j) /\ g.links[j] >= f.links[j]
      BY <1>0, <1>3 DEF Enough
    <2>2. f.links[j] \in Nat /\ g.links[j] \in Nat /\ Need(f, j) \in Nat
      BY <1>0, Finite DEF FsType
    <2> QED
      BY <1>5, <2>1, <2>2
  <1>7. Shape(g)
    BY <1>0, <1>1, <1>2 DEF Shape, Slots, OneParent
  <1> QED
    BY <1>6, <1>7 DEF Good

-----------------------------------------------------------------------------
(* Path walks, by induction on their steps *)

LEMMA Induct ==
    ASSUME NEW S, 0 \in S, \A k \in Nat : k \in S /\ k < MaxWalk => k + 1 \in S
    PROVE  MaxWalk \in S
  <1> DEFINE T == (0 .. MaxWalk) \ S
  <1> SUFFICES ASSUME T # {} PROVE FALSE
    BY Constants
  <1>1. PICK x \in T : \A y \in T : ~(<<y, x>> \in OpToRel(<, Nat))
    <2>1. T \subseteq Nat
      OBVIOUS
    <2> HIDE DEF T
    <2> QED
      BY <2>1, NatLessThanWellFounded, WFMin
  <1>2. \A y \in T : ~(y < x)
    <2> SUFFICES ASSUME NEW y \in T, y < x PROVE FALSE
      OBVIOUS
    <2>1. <<y, x>> \in Nat \X Nat
      BY Constants
    <2>2. <<y, x>> \in OpToRel(<, Nat)
      BY <2>1 DEF OpToRel
    <2> QED
      BY <1>1, <2>2
  <1>3. x # 0 /\ x - 1 \in Nat /\ x - 1 < MaxWalk /\ x - 1 <= MaxWalk
    BY Constants
  <1>4. x - 1 \in S
    BY <1>2, <1>3
  <1> QED
    BY <1>3, <1>4

\* The steps of a walk, one after the other.
Steps(f, path, follow, n, g) ==
    g = [k \in 0 .. n |-> IF k = 0 THEN WalkStart(path) ELSE WalkStep(f, g[k - 1], follow)]
Result(w) == IF w.err = "none" /\ w.rest # <<>> THEN [w EXCEPT !.err = "SYMLINK_LOOP"] ELSE w

LEMMA WalkIs ==
    ASSUME NEW f, NEW path, NEW follow \in BOOLEAN
    PROVE  \E g : /\ g[0] = WalkStart(path)
                  /\ \A k \in Nat : k < MaxWalk => g[k + 1] = WalkStep(f, g[k], follow)
                  /\ Walk(f, path, follow) = Result(g[MaxWalk])
  <1> DEFINE Can(n) == \E g : Steps(f, path, follow, n, g)
             S == {n \in Nat : Can(n)}
  <1>1. 0 \in S
    <2> DEFINE g == [k \in 0 .. 0 |-> WalkStart(path)]
    <2>1. Steps(f, path, follow, 0, g)
      BY DEF Steps
    <2> QED
      BY <2>1
  <1>2. ASSUME NEW n \in Nat, n \in S PROVE n + 1 \in S
    <2>1. PICK g : Steps(f, path, follow, n, g)
      BY <1>2
    <2> DEFINE h == [k \in 0 .. n + 1 |-> IF k <= n THEN g[k] ELSE WalkStep(f, g[n], follow)]
    <2>2. Steps(f, path, follow, n + 1, h)
      BY <2>1 DEF Steps
    <2> HIDE DEF h
    <2> QED
      BY <2>2
  <1>3. MaxWalk \in S
    <2> HIDE DEF S
    <2> QED
      BY <1>1, <1>2, Induct
  <1> DEFINE g == CHOOSE g : Steps(f, path, follow, MaxWalk, g)
  <1>4. Walk(f, path, follow) = Result(g[MaxWalk])
    BY DEF Walk, Steps, Result
  <1>5. Steps(f, path, follow, MaxWalk, g)
    BY <1>3
  <1> HIDE DEF g
  <1>6. g[0] = WalkStart(path) /\ \A k \in Nat : k < MaxWalk => g[k + 1] = WalkStep(f, g[k], follow)
    <2>1. DOMAIN g = 0 .. MaxWalk
      BY <1>5 DEF Steps
    <2>2. \A k \in 0 .. MaxWalk : g[k] = IF k = 0 THEN WalkStart(path) ELSE WalkStep(f, g[k - 1], follow)
      BY <1>5 DEF Steps
    <2>3. ASSUME NEW k \in Nat, k < MaxWalk PROVE g[k + 1] = WalkStep(f, g[k], follow)
      <3>1. k + 1 \in 0 .. MaxWalk /\ k + 1 # 0 /\ (k + 1) - 1 = k
        BY <2>3, Constants
      <3> QED
        BY <2>2, <3>1
    <2>4. 0 \in 0 .. MaxWalk
      BY Constants
    <2> QED
      BY <2>2, <2>3, <2>4
  <1> QED
    BY <1>4, <1>6

\* Where a walk is: at the root or at an inode that has a name.
WalkType(f) == [at : f.bitmap, rest : Seq(Names), via : BOOLEAN,
                err : {"none", "NO_DIRECTORY", "FILE_NOT_FOUND", "SYMLINK_LOOP"}]
Walks(f, w) == w \in WalkType(f) /\ Held(f, w.at)

\* What a step does: the walk is over, or it fails, or it reads the next name, which
\* leads to i.
Entry(f, w) == f.ents[w.at][Head(w.rest)]
Enters(f, w, follow, v, i) ==
    /\ Entry(f, w) = <<i>> /\ At(f, w.at, Head(w.rest), i)
    /\ \/ /\ f.mode[i] = "symlink" /\ (Tail(w.rest) # <<>> \/ follow)
          /\ v = [w EXCEPT !.at = RootIno, !.rest = f.target[i] \o Tail(w.rest), !.via = TRUE]
       \/ /\ ~(f.mode[i] = "symlink" /\ (Tail(w.rest) # <<>> \/ follow))
          /\ v = [w EXCEPT !.at = i, !.rest = Tail(w.rest)]
Over(w) == w.err # "none" \/ w.rest = <<>>
Stepped(f, w, follow, v) ==
    \/ Over(w) /\ v = w
    \/ ~Over(w) /\ f.mode[w.at] # "dir" /\ v = [w EXCEPT !.err = "NO_DIRECTORY"]
    \/ ~Over(w) /\ f.mode[w.at] = "dir" /\ Entry(f, w) = <<>> /\ v = [w EXCEPT !.err = "FILE_NOT_FOUND"]
    \/ ~Over(w) /\ f.mode[w.at] = "dir" /\ \E i \in f.bitmap : Enters(f, w, follow, v, i)

LEMMA StepIs ==
    ASSUME NEW f, Shape(f), NEW w \in WalkType(f), NEW follow \in BOOLEAN
    PROVE  Stepped(f, w, follow, WalkStep(f, w, follow))
  <1> DEFINE v == WalkStep(f, w, follow)
  <1>1. CASE Over(w)
    BY <1>1 DEF WalkStep, Over, Stepped
  <1>2. CASE ~Over(w) /\ f.mode[w.at] # "dir"
    <2>1. v = [w EXCEPT !.err = "NO_DIRECTORY"]
      BY <1>2, Zenon DEF WalkStep, Over
    <2> QED
      BY <1>2, <2>1 DEF Stepped
  <1>3. CASE ~Over(w) /\ f.mode[w.at] = "dir" /\ Entry(f, w) = <<>>
    <2>1. v = [w EXCEPT !.err = "FILE_NOT_FOUND"]
      BY <1>3, Zenon DEF WalkStep, Over, Entry
    <2> QED
      BY <1>3, <2>1 DEF Stepped
  <1>4. CASE ~Over(w) /\ f.mode[w.at] = "dir" /\ Entry(f, w) # <<>>
    <2>1. w.at \in f.bitmap /\ w.rest \in Seq(Names) /\ w.rest # <<>>
      BY <1>4 DEF WalkType, Over
    <2>2. Head(w.rest) \in Names /\ w.at \in Dirs(f)
      BY <1>4, <2>1 DEF Dirs
    <2>3. PICK i \in f.bitmap : Entry(f, w) = <<i>>
      BY <1>4, <2>2 DEF Shape, Slots, Entry
    <2>4. Head(Entry(f, w)) = i /\ At(f, w.at, Head(w.rest), i)
      BY <2>2, <2>3, Single DEF At, Entry
    <2>5. CASE f.mode[i] = "symlink" /\ (Tail(w.rest) # <<>> \/ follow)
      <3>1. v = [w EXCEPT !.at = RootIno, !.rest = f.target[i] \o Tail(w.rest), !.via = TRUE]
        BY <1>4, <2>4, <2>5, Zenon DEF WalkStep, Over, Entry
      <3>2. Enters(f, w, follow, v, i)
        BY <2>3, <2>4, <2>5, <3>1, Zenon DEF Enters
      <3> QED
        BY <1>4, <3>2, Zenon DEF Stepped
    <2>6. CASE ~(f.mode[i] = "symlink" /\ (Tail(w.rest) # <<>> \/ follow))
      <3>1. v = [w EXCEPT !.at = i, !.rest = Tail(w.rest)]
        BY <1>4, <2>4, <2>6, Zenon DEF WalkStep, Over, Entry
      <3>2. Enters(f, w, follow, v, i)
        BY <2>3, <2>4, <2>6, <3>1, Zenon DEF Enters
      <3> QED
        BY <1>4, <3>2, Zenon DEF Stepped
    <2> QED
      BY <2>5, <2>6
  <1> QED
    BY <1>1, <1>2, <1>3, <1>4

LEMMA StepWalks ==
    ASSUME NEW f, Shape(f), NEW w, Walks(f, w), NEW follow \in BOOLEAN
    PROVE  Walks(f, WalkStep(f, w, follow))
  <1>1. w \in WalkType(f) /\ Held(f, w.at)
    BY DEF Walks
  <1>2. RootIno \in f.bitmap /\ Held(f, RootIno)
    BY DEF Shape, Dirs, Held
  <1>3. PICK v : v = WalkStep(f, w, follow)
    OBVIOUS
  <1> SUFFICES Walks(f, v)
    BY <1>3
  <1>4. Stepped(f, w, follow, v)
    BY <1>1, <1>3, StepIs
  <1>5. CASE v = w
    BY <1>5
  <1>6. CASE v = [w EXCEPT !.err = "NO_DIRECTORY"] \/ v = [w EXCEPT !.err = "FILE_NOT_FOUND"]
    <2>1. v \in WalkType(f) /\ v.at = w.at
      BY <1>1, <1>6 DEF WalkType
    <2> QED
      BY <1>1, <2>1 DEF Walks
  <1>7. ASSUME NEW i \in f.bitmap, Enters(f, w, follow, v, i), ~Over(w) PROVE Walks(f, v)
    <2>1. Held(f, i)
      BY <1>7 DEF Held, Enters
    <2>2. f.target[i] \in Seq(Names)
      <3>1. i \in Inodes /\ f.target \in [Inodes -> Targets \cup {<<>>}]
        BY DEF Shape, FsType
      <3>2. <<>> \in Seq(Names) /\ Targets \subseteq Seq(Names)
        BY Constants
      <3> QED
        BY <3>1, <3>2
    <2>3. w.rest \in Seq(Names) /\ w.rest # <<>>
      BY <1>1, <1>7 DEF WalkType, Over
    <2>4. Tail(w.rest) \in Seq(Names) /\ f.target[i] \o Tail(w.rest) \in Seq(Names)
      BY <2>2, <2>3
    <2>5. CASE v = [w EXCEPT !.at = RootIno, !.rest = f.target[i] \o Tail(w.rest), !.via = TRUE]
      <3>1. v \in WalkType(f) /\ v.at = RootIno
        BY <1>1, <1>2, <2>4, <2>5 DEF WalkType
      <3> QED
        BY <1>2, <3>1 DEF Walks
    <2>6. CASE v = [w EXCEPT !.at = i, !.rest = Tail(w.rest)]
      <3>1. v \in WalkType(f) /\ v.at = i
        BY <1>1, <2>4, <2>6 DEF WalkType
      <3> QED
        BY <2>1, <3>1 DEF Walks
    <2> QED
      BY <1>7, <2>5, <2>6 DEF Enters
  <1> QED
    BY <1>4, <1>5, <1>6, <1>7, Zenon DEF Stepped

\* A walk starts at the root, goes on in steps, and ends where a name leads; nothing
\* of the path is left when it has found something.
LEMMA WalkRuns ==
    ASSUME NEW f, Shape(f), NEW path \in Seq(Names), NEW follow \in BOOLEAN
    PROVE  \E g : /\ g[0] = WalkStart(path)
                  /\ \A k \in Nat : k < MaxWalk => g[k + 1] = WalkStep(f, g[k], follow)
                  /\ \A k \in Nat : k <= MaxWalk => Walks(f, g[k])
                  /\ Walk(f, path, follow) = Result(g[MaxWalk])
  <1>1. PICK g : /\ g[0] = WalkStart(path)
                 /\ \A k \in Nat : k < MaxWalk => g[k + 1] = WalkStep(f, g[k], follow)
                 /\ Walk(f, path, follow) = Result(g[MaxWalk])
    BY WalkIs
  <1> DEFINE S == {k \in Nat : \A j \in 0 .. k : Walks(f, g[j])}
  <1>2. 0 \in S
    <2>1. RootIno \in f.bitmap /\ Held(f, RootIno)
      BY DEF Shape, Dirs, Held
    <2>2. WalkStart(path) \in WalkType(f) /\ WalkStart(path).at = RootIno
      BY <2>1 DEF WalkStart, WalkType
    <2>3. Walks(f, g[0])
      BY <1>1, <2>1, <2>2 DEF Walks
    <2> QED
      BY <2>3
  <1>3. ASSUME NEW k \in Nat, k \in S, k < MaxWalk PROVE k + 1 \in S
    <2>1. Walks(f, g[k + 1])
      BY <1>1, <1>3, StepWalks
    <2> QED
      BY <1>3, <2>1
  <1>4. MaxWalk \in S
    <2> HIDE DEF S
    <2> QED
      BY <1>2, <1>3, Induct
  <1>5. \A k \in Nat : k <= MaxWalk => Walks(f, g[k])
    BY <1>4
  <1> QED
    BY <1>1, <1>5

LEMMA ResultIs ==
    ASSUME NEW f, NEW w, Walks(f, w)
    PROVE  /\ Walks(f, Result(w)) /\ Result(w).at = w.at /\ Result(w).via = w.via
           /\ w.err = "none" /\ w.rest # <<>> => Result(w).err = "SYMLINK_LOOP"
           /\ w.err # "none" \/ w.rest = <<>> => Result(w) = w
           /\ Found(Result(w)) <=> w.err = "none" /\ w.rest = <<>>
           /\ Found(Result(w)) => Result(w) = w
  BY DEF Result, Walks, WalkType, Found

LEMMA WalkEnds ==
    ASSUME NEW f, Shape(f), NEW path \in Seq(Names), NEW follow \in BOOLEAN
    PROVE  Walks(f, Walk(f, path, follow))
  <1>1. PICK g : /\ \A k \in Nat : k <= MaxWalk => Walks(f, g[k])
                 /\ Walk(f, path, follow) = Result(g[MaxWalk])
    BY WalkRuns
  <1>2. Walks(f, g[MaxWalk])
    BY <1>1, Constants
  <1> QED
    BY <1>1, <1>2, ResultIs

\* Following a link at the end changes nothing when a directory is there.
Followed(f, v, w) == v = w \/ v.err # "none" \/ (v.rest = <<>> /\ f.mode[v.at] # "dir")

LEMMA FollowStep ==
    ASSUME NEW f, Shape(f), NEW v \in WalkType(f), NEW w \in WalkType(f), Followed(f, v, w)
    PROVE  Followed(f, WalkStep(f, v, FALSE), WalkStep(f, w, TRUE))
  <1>1. PICK x, y : x = WalkStep(f, v, FALSE) /\ y = WalkStep(f, w, TRUE)
    OBVIOUS
  <1>2. Stepped(f, v, FALSE, x) /\ Stepped(f, w, TRUE, y)
    BY <1>1, StepIs
  <1> SUFFICES Followed(f, x, y)
    BY <1>1
  <1>3. CASE Over(v)
    <2>1. x = v
      BY <1>2, <1>3, Zenon DEF Stepped
    <2>2. v = w => y = w
      BY <1>2, <1>3, Zenon DEF Stepped
    <2> QED
      BY <2>1, <2>2 DEF Followed
  <1>4. CASE ~Over(v)
    <2>1. v = w
      BY <1>4 DEF Followed, Over
    <2>2. CASE x = [v EXCEPT !.err = "NO_DIRECTORY"] \/ x = [v EXCEPT !.err = "FILE_NOT_FOUND"]
      <3>1. x.err # "none"
        BY <2>2 DEF WalkType
      <3> QED
        BY <3>1 DEF Followed
    <2>3. ASSUME f.mode[v.at] = "dir", NEW i \in f.bitmap, Enters(f, v, FALSE, x, i) PROVE Followed(f, x, y)
      <3>1. Entry(f, v) # <<>>
        BY <2>3, Single DEF Enters
      <3>2. PICK j \in f.bitmap : Enters(f, v, TRUE, y, j)
        BY <1>2, <1>4, <2>1, <2>3, <3>1, Zenon DEF Stepped
      <3>3. j = i
        BY <2>3, <3>2, Single DEF Enters
      <3>4. CASE f.mode[i] = "symlink" /\ Tail(v.rest) = <<>>
        <4>1. x = [v EXCEPT !.at = i, !.rest = Tail(v.rest)]
          BY <2>3, <3>4, Zenon DEF Enters
        <4>2. x.at = i /\ x.rest = <<>>
          BY <3>4, <4>1 DEF WalkType
        <4> QED
          BY <3>4, <4>2 DEF Followed
      <3>5. CASE ~(f.mode[i] = "symlink" /\ Tail(v.rest) = <<>>)
        BY <2>3, <3>2, <3>3, <3>5, Zenon DEF Enters, Followed
      <3> QED
        BY <3>4, <3>5
    <2> QED
      BY <1>2, <1>4, <2>2, <2>3, Zenon DEF Stepped
  <1> QED
    BY <1>3, <1>4

LEMMA FollowSame ==
    ASSUME NEW f, Shape(f), NEW path \in Seq(Names),
           Found(Walk(f, path, FALSE)), f.mode[Walk(f, path, FALSE).at] = "dir"
    PROVE  Walk(f, path, TRUE) = Walk(f, path, FALSE)
  <1>1. PICK a : /\ a[0] = WalkStart(path)
                 /\ \A k \in Nat : k < MaxWalk => a[k + 1] = WalkStep(f, a[k], FALSE)
                 /\ \A k \in Nat : k <= MaxWalk => Walks(f, a[k])
                 /\ Walk(f, path, FALSE) = Result(a[MaxWalk])
    BY WalkRuns
  <1>2. PICK b : /\ b[0] = WalkStart(path)
                 /\ \A k \in Nat : k < MaxWalk => b[k + 1] = WalkStep(f, b[k], TRUE)
                 /\ \A k \in Nat : k <= MaxWalk => Walks(f, b[k])
                 /\ Walk(f, path, TRUE) = Result(b[MaxWalk])
    BY WalkRuns
  <1> DEFINE S == {k \in Nat : Followed(f, a[k], b[k])}
  <1>3. 0 \in S
    BY <1>1, <1>2 DEF Followed
  <1>4. ASSUME NEW k \in Nat, k \in S, k < MaxWalk PROVE k + 1 \in S
    <2>1. a[k] \in WalkType(f) /\ b[k] \in WalkType(f) /\ Followed(f, a[k], b[k])
      BY <1>1, <1>2, <1>4, Constants DEF Walks
    <2>2. Followed(f, a[k + 1], b[k + 1])
      BY <1>1, <1>2, <1>4, <2>1, FollowStep
    <2> QED
      BY <2>2
  <1>5. MaxWalk \in S
    <2> HIDE DEF S
    <2> QED
      BY <1>3, <1>4, Induct
  <1>6. Followed(f, a[MaxWalk], b[MaxWalk]) /\ Walks(f, a[MaxWalk])
    BY <1>1, <1>5, Constants
  <1>7. a[MaxWalk].err = "none" /\ Walk(f, path, FALSE) = a[MaxWalk]
    <2>1. Found(Result(a[MaxWalk]))
      BY <1>1, Zenon
    <2> QED
      BY <1>1, <1>6, <2>1, ResultIs, Zenon
  <1>8. a[MaxWalk] = b[MaxWalk]
    BY <1>6, <1>7 DEF Followed
  <1> QED
    BY <1>1, <1>2, <1>8, Zenon

LEMMA OneName == \A n : <<>> \o <<n>> = <<n>> /\ Head(<<n>>) = n /\ Tail(<<n>>) = <<>>
  OBVIOUS

LEMMA Longer ==
    ASSUME NEW s \in Seq(Names), NEW n \in Names
    PROVE  s \o <<n>> \in Seq(Names) /\ s \o <<n>> # <<>>
  OBVIOUS

LEMMA LongerHead ==
    ASSUME NEW s \in Seq(Names), s # <<>>, NEW n \in Names
    PROVE  /\ Head(s) \in Names /\ Tail(s) \in Seq(Names)
           /\ Head(s \o <<n>>) = Head(s) /\ Tail(s \o <<n>>) = Tail(s) \o <<n>>
  OBVIOUS

LEMMA Assoc ==
    ASSUME NEW s \in Seq(Names), NEW t \in Seq(Names), NEW n \in Names
    PROVE  t \o (s \o <<n>>) = (t \o s) \o <<n>>
  OBVIOUS

LEMMA FrontLast ==
    ASSUME NEW path \in Seq(Names), path # <<>>
    PROVE  Front(path) \in Seq(Names) /\ Last(path) \in Names /\ path = Front(path) \o <<Last(path)>>
  BY DEF Front, Last

Extends(n, v, w) == w.at = v.at /\ w.err = v.err /\ w.rest = v.rest \o <<n>>

\* The walk w of a path beside the walk v of its front: n is the name that v has not
\* to go.
Beside(f, n, follow, v, w) ==
    \/ v.err # "none"
    \/ Extends(n, v, w)
    \/ v.rest = <<>> /\ f.mode[v.at] # "dir" /\ (follow => w.err # "none")
    \/ v.rest = <<>> /\ f.ents[v.at][n] = <<>> /\ w.err = "FILE_NOT_FOUND"
    \/ /\ v.rest = <<>> /\ f.mode[v.at] = "dir" /\ f.ents[v.at][n] # <<>>
       /\ w.err = "none" /\ w.rest = <<>> /\ w.at = Head(f.ents[v.at][n])

LEMMA BesideStep ==
    ASSUME NEW f, Shape(f), NEW n \in Names, NEW follow \in BOOLEAN,
           NEW v \in WalkType(f), NEW w \in WalkType(f), Beside(f, n, follow, v, w)
    PROVE  Beside(f, n, follow, WalkStep(f, v, follow), WalkStep(f, w, FALSE))
  <1>1. PICK x, y : x = WalkStep(f, v, follow) /\ y = WalkStep(f, w, FALSE)
    OBVIOUS
  <1>2. Stepped(f, v, follow, x) /\ Stepped(f, w, FALSE, y)
    BY <1>1, StepIs
  <1> SUFFICES Beside(f, n, follow, x, y)
    BY <1>1
  <1>3. Over(v) => x = v
    BY <1>2, Zenon DEF Stepped
  <1>4. Over(w) => y = w
    BY <1>2, Zenon DEF Stepped
  <1>5. CASE v.err # "none"
    BY <1>3, <1>5 DEF Over, Beside
  <1>6. CASE v.err = "none" /\ v.rest = <<>> /\ ~Extends(n, v, w)
    BY <1>3, <1>4, <1>6 DEF Over, Beside
  <1>7. CASE v.err = "none" /\ v.rest = <<>> /\ Extends(n, v, w)
    <2>1. x = v /\ w.at = v.at /\ w.err = "none" /\ w.rest = <<n>>
      BY <1>3, <1>7, OneName DEF Over, Extends
    <2>2. ~Over(w) /\ Entry(f, w) = f.ents[v.at][n] /\ Tail(w.rest) = <<>>
      BY <2>1, OneName DEF Over, Entry
    <2>3. CASE f.mode[v.at] # "dir"
      <3>1. y = [w EXCEPT !.err = "NO_DIRECTORY"]
        BY <1>2, <2>1, <2>2, <2>3, Zenon DEF Stepped, Enters, At, Dirs
      <3>2. y.err # "none"
        BY <3>1 DEF WalkType
      <3> QED
        BY <1>7, <2>1, <2>3, <3>2 DEF Beside
    <2>4. CASE Entry(f, w) = <<>> /\ y = [w EXCEPT !.err = "FILE_NOT_FOUND"]
      <3>1. y.err = "FILE_NOT_FOUND"
        BY <2>4 DEF WalkType
      <3> QED
        BY <1>7, <2>1, <2>2, <2>4, <3>1 DEF Beside
    <2>5. ASSUME NEW i \in f.bitmap, Enters(f, w, FALSE, y, i) PROVE Beside(f, n, follow, x, y)
      <3>1. y = [w EXCEPT !.at = i, !.rest = Tail(w.rest)]
        BY <2>2, <2>5, Zenon DEF Enters
      <3>2. y.at = i /\ y.rest = <<>> /\ y.err = "none"
        BY <2>1, <2>2, <3>1 DEF WalkType
      <3>3. f.mode[v.at] = "dir" /\ f.ents[v.at][n] # <<>> /\ Head(f.ents[v.at][n]) = i
        BY <2>1, <2>2, <2>5, Single DEF Enters, At, Dirs
      <3> QED
        BY <1>7, <2>1, <3>2, <3>3 DEF Beside
    <2> QED
      BY <1>2, <2>1, <2>2, <2>3, <2>4, <2>5, Zenon DEF Stepped
  <1>8. CASE v.err = "none" /\ v.rest # <<>>
    <2>1. Extends(n, v, w)
      BY <1>8 DEF Beside
    <2>2. w.at = v.at /\ w.err = "none" /\ w.rest = v.rest \o <<n>> /\ v.rest \in Seq(Names)
      BY <1>8, <2>1 DEF WalkType, Extends
    <2>3. /\ ~Over(v) /\ ~Over(w) /\ Head(w.rest) = Head(v.rest) /\ Entry(f, w) = Entry(f, v)
          /\ Tail(w.rest) = Tail(v.rest) \o <<n>> /\ Tail(w.rest) # <<>> /\ Tail(v.rest) \in Seq(Names)
      <3>1. Head(w.rest) = Head(v.rest) /\ Tail(w.rest) = Tail(v.rest) \o <<n>> /\ Tail(v.rest) \in Seq(Names)
        BY <1>8, <2>2, LongerHead
      <3>2. w.rest # <<>> /\ Tail(w.rest) # <<>>
        BY <2>2, <3>1, Longer
      <3> QED
        BY <1>8, <2>2, <3>1, <3>2 DEF Over, Entry
    <2>4. CASE x = [v EXCEPT !.err = "NO_DIRECTORY"] \/ x = [v EXCEPT !.err = "FILE_NOT_FOUND"]
      <3>1. x.err # "none"
        BY <2>4 DEF WalkType
      <3> QED
        BY <3>1 DEF Beside
    <2>5. ASSUME f.mode[v.at] = "dir", NEW i \in f.bitmap, Enters(f, v, follow, x, i)
          PROVE  Beside(f, n, follow, x, y)
      <3>1. Entry(f, w) # <<>>
        BY <2>3, <2>5, Single DEF Enters
      <3>2. PICK j \in f.bitmap : Enters(f, w, FALSE, y, j)
        BY <1>2, <2>2, <2>3, <2>5, <3>1, Zenon DEF Stepped
      <3>3. j = i
        BY <2>3, <2>5, <3>2, Single DEF Enters
      <3>4. CASE f.mode[i] = "symlink" /\ (Tail(v.rest) # <<>> \/ follow)
        <4>1. x = [v EXCEPT !.at = RootIno, !.rest = f.target[i] \o Tail(v.rest), !.via = TRUE]
          BY <2>5, <3>4, Zenon DEF Enters
        <4>2. y = [w EXCEPT !.at = RootIno, !.rest = f.target[i] \o Tail(w.rest), !.via = TRUE]
          BY <2>3, <3>2, <3>3, <3>4, Zenon DEF Enters
        <4>3. f.target[i] \in Seq(Names)
          <5>1. i \in Inodes /\ f.target \in [Inodes -> Targets \cup {<<>>}]
            BY DEF Shape, FsType
          <5>2. <<>> \in Seq(Names) /\ Targets \subseteq Seq(Names)
            BY Constants
          <5> QED
            BY <5>1, <5>2
        <4>4. f.target[i] \o Tail(w.rest) = (f.target[i] \o Tail(v.rest)) \o <<n>>
          <5>1. f.target[i] \o (Tail(v.rest) \o <<n>>) = (f.target[i] \o Tail(v.rest)) \o <<n>>
            BY <2>3, <4>3, Assoc
          <5> QED
            BY <2>3, <5>1
        <4>5. Extends(n, x, y)
          <5>1. x.at = RootIno /\ x.err = "none" /\ x.rest = f.target[i] \o Tail(v.rest)
            BY <1>8, <4>1 DEF WalkType
          <5>2. y.at = RootIno /\ y.err = "none" /\ y.rest = f.target[i] \o Tail(w.rest)
            BY <2>2, <4>2 DEF WalkType
          <5> QED
            BY <4>4, <5>1, <5>2, Zenon DEF Extends
        <4> QED
          BY <4>5 DEF Beside
      <3>5. CASE f.mode[i] = "symlink" /\ ~(Tail(v.rest) # <<>> \/ follow)
        <4>1. x = [v EXCEPT !.at = i, !.rest = Tail(v.rest)]
          BY <2>5, <3>5, Zenon DEF Enters
        <4>2. x.at = i /\ x.rest = <<>>
          BY <3>5, <4>1 DEF WalkType
        <4> QED
          BY <3>5, <4>2 DEF Beside
      <3>6. CASE f.mode[i] # "symlink"
        <4>1. x = [v EXCEPT !.at = i, !.rest = Tail(v.rest)]
          BY <2>5, <3>6, Zenon DEF Enters
        <4>2. y = [w EXCEPT !.at = i, !.rest = Tail(w.rest)]
          BY <3>2, <3>3, <3>6, Zenon DEF Enters
        <4>3. Extends(n, x, y)
          <5>1. x.at = i /\ x.err = "none" /\ x.rest = Tail(v.rest)
            BY <1>8, <4>1 DEF WalkType
          <5>2. y.at = i /\ y.err = "none" /\ y.rest = Tail(w.rest)
            BY <2>2, <4>2 DEF WalkType
          <5> QED
            BY <2>3, <5>1, <5>2, Zenon DEF Extends
        <4> QED
          BY <4>3 DEF Beside
      <3> QED
        BY <3>4, <3>5, <3>6
    <2> QED
      BY <1>2, <2>3, <2>4, <2>5, Zenon DEF Stepped
  <1> QED
    BY <1>5, <1>6, <1>7, <1>8

\* What a path leads to is the entry under its last name, where its front leads.
LEMMA LastName ==
    ASSUME NEW f, Shape(f), NEW path \in Seq(Names), path # <<>>, NEW follow \in BOOLEAN,
           NEW d, d = Walk(f, Front(path), follow).at,
           Found(Walk(f, Front(path), follow)), NEW s, s = f.ents[d][Last(path)]
    PROVE  /\ follow /\ Found(Namei(f, path)) => f.mode[d] = "dir"
           /\ f.mode[d] = "dir" =>
                 /\ Found(Namei(f, path)) => s # <<>> /\ Namei(f, path).at = Head(s)
                 /\ Namei(f, path).err = "FILE_NOT_FOUND" => s = <<>>
  <1> DEFINE n == Last(path)
  <1>0. Front(path) \in Seq(Names) /\ n \in Names /\ path = Front(path) \o <<n>>
    BY FrontLast
  <1>1. PICK a : /\ a[0] = WalkStart(Front(path))
                 /\ \A k \in Nat : k < MaxWalk => a[k + 1] = WalkStep(f, a[k], follow)
                 /\ \A k \in Nat : k <= MaxWalk => Walks(f, a[k])
                 /\ Walk(f, Front(path), follow) = Result(a[MaxWalk])
    BY <1>0, WalkRuns
  <1>2. PICK b : /\ b[0] = WalkStart(path)
                 /\ \A k \in Nat : k < MaxWalk => b[k + 1] = WalkStep(f, b[k], FALSE)
                 /\ \A k \in Nat : k <= MaxWalk => Walks(f, b[k])
                 /\ Walk(f, path, FALSE) = Result(b[MaxWalk])
    BY WalkRuns
  <1> DEFINE S == {k \in Nat : Beside(f, n, follow, a[k], b[k])}
  <1>3. 0 \in S
    <2>1. Extends(n, a[0], b[0])
      BY <1>0, <1>1, <1>2 DEF WalkStart, Extends
    <2> QED
      BY <2>1 DEF Beside
  <1>4. ASSUME NEW k \in Nat, k \in S, k < MaxWalk PROVE k + 1 \in S
    <2>1. a[k] \in WalkType(f) /\ b[k] \in WalkType(f) /\ Beside(f, n, follow, a[k], b[k])
      BY <1>1, <1>2, <1>4, Constants DEF Walks
    <2>2. a[k + 1] = WalkStep(f, a[k], follow) /\ b[k + 1] = WalkStep(f, b[k], FALSE)
      BY <1>1, <1>2, <1>4
    <2>3. Beside(f, n, follow, a[k + 1], b[k + 1])
      BY <1>0, <2>1, <2>2, BesideStep
    <2> QED
      BY <2>3
  <1>5. MaxWalk \in S
    <2> HIDE DEF S
    <2> QED
      BY <1>3, <1>4, Induct
  <1> DEFINE v == a[MaxWalk]
             w == b[MaxWalk]
  <1>6. Beside(f, n, follow, v, w) /\ Walks(f, v) /\ Walks(f, w)
    BY <1>1, <1>2, <1>5, Constants
  <1>7. v.err = "none" /\ v.rest = <<>> /\ v.at = d
    <2>1. Found(Result(v)) /\ Result(v).at = d
      BY <1>1, Zenon
    <2> QED
      BY <1>6, <2>1, ResultIs
  <1>8. Namei(f, path) = Result(w)
    BY <1>2, Zenon DEF Namei
  <1> HIDE DEF v, w, n
  <1>9. CASE Extends(n, v, w)
    <2>1. w.rest = <<n>> /\ w.err = "none"
      BY <1>7, <1>9, OneName DEF Extends
    <2>2. Result(w).err = "SYMLINK_LOOP"
      BY <1>6, <2>1, Single, ResultIs
    <2> QED
      BY <1>8, <2>2 DEF Found
  <1>10. CASE s = <<>> /\ w.err = "FILE_NOT_FOUND"
    <2>1. Result(w) = w
      BY <1>6, <1>10, ResultIs
    <2> QED
      BY <1>8, <1>10, <2>1 DEF Found
  <1>11. CASE f.mode[d] = "dir" /\ s # <<>> /\ w.err = "none" /\ w.rest = <<>> /\ w.at = Head(s)
    <2>1. Result(w) = w
      BY <1>6, <1>11, ResultIs
    <2> QED
      BY <1>8, <1>11, <2>1 DEF Found
  <1>12. CASE f.mode[d] # "dir" /\ (follow => w.err # "none")
    <2>1. w.err # "none" => Result(w) = w
      BY <1>6, ResultIs
    <2> QED
      BY <1>8, <1>12, <2>1 DEF Found
  <1>13. Extends(n, v, w) \/ (f.mode[d] # "dir" /\ (follow => w.err # "none"))
         \/ (s = <<>> /\ w.err = "FILE_NOT_FOUND")
         \/ (f.mode[d] = "dir" /\ s # <<>> /\ w.err = "none" /\ w.rest = <<>> /\ w.at = Head(s))
    BY <1>6, <1>7 DEF Beside, n
  <1> QED
    BY <1>9, <1>10, <1>11, <1>12, <1>13

\* The walk b in another filesystem q beside the walk a in f, where q differs only in
\* entries that lead nowhere: to nothing, to no directory, or to an empty one.
Stuck(f, i) == f.mode[i] # "dir" \/ \A x \in Names : f.ents[i][x] = <<>>
Differs(f, q) ==
    /\ q.mode = f.mode
    /\ \A y \in Dirs(f), x \in Names :
          \/ q.ents[y][x] = f.ents[y][x] \/ f.ents[y][x] = <<>>
          \/ \E i : f.ents[y][x] = <<i>> /\ Stuck(f, i)
Along(f, v, w) == v = w \/ v.err # "none" \/ v.via \/ Stuck(f, v.at)

LEMMA AlongStep ==
    ASSUME NEW f, Shape(f), NEW q, Differs(f, q), NEW v \in WalkType(f), NEW w, Along(f, v, w)
    PROVE  Along(f, WalkStep(f, v, TRUE), WalkStep(q, w, FALSE))
  <1>1. PICK x, y : x = WalkStep(f, v, TRUE) /\ y = WalkStep(q, w, FALSE)
    OBVIOUS
  <1>2. Stepped(f, v, TRUE, x)
    BY <1>1, StepIs
  <1> SUFFICES Along(f, x, y)
    BY <1>1
  <1>3. CASE x = [v EXCEPT !.err = "NO_DIRECTORY"] \/ x = [v EXCEPT !.err = "FILE_NOT_FOUND"]
    <2>1. x.err # "none"
      BY <1>3 DEF WalkType
    <2> QED
      BY <2>1 DEF Along
  <1>4. CASE Over(v) /\ x = v
    <2>1. v = w => y = w
      BY <1>1, <1>4 DEF Over, WalkStep
    <2> QED
      BY <1>4, <2>1 DEF Along
  <1>5. ASSUME ~Over(v), f.mode[v.at] = "dir", NEW i \in f.bitmap, Enters(f, v, TRUE, x, i)
        PROVE  Along(f, x, y)
    <2>1. Entry(f, v) = <<i>> /\ v.at \in Dirs(f) /\ Head(v.rest) \in Names
      BY <1>5 DEF Enters, At
    <2>2. CASE f.mode[i] = "symlink"
      <3>1. x = [v EXCEPT !.at = RootIno, !.rest = f.target[i] \o Tail(v.rest), !.via = TRUE]
        BY <1>5, <2>2, Zenon DEF Enters
      <3>2. x.via
        BY <3>1 DEF WalkType
      <3> QED
        BY <3>2 DEF Along
    <2>3. CASE f.mode[i] # "symlink"
      <3>1. x = [v EXCEPT !.at = i, !.rest = Tail(v.rest)]
        BY <1>5, <2>3, Zenon DEF Enters
      <3>2. x.at = i /\ x.via = v.via /\ x.err = v.err
        BY <3>1 DEF WalkType
      <3>3. CASE Stuck(f, i)
        BY <3>2, <3>3 DEF Along
      <3>4. CASE v.via
        BY <3>2, <3>4 DEF Along
      <3>5. CASE Stuck(f, v.at)
        <4>1. Entry(f, v) = <<>>
          BY <1>5, <2>1, <3>5 DEF Stuck, Entry
        <4> QED
          BY <2>1, <4>1, Single
      <3>6. CASE v = w /\ ~Stuck(f, i)
        <4>1. q.ents[v.at][Head(v.rest)] = <<i>> /\ q.mode = f.mode
          BY <2>1, <3>6, Single DEF Differs, Entry
        <4>2. y = [v EXCEPT !.at = i, !.rest = Tail(v.rest)]
          <5>1. Head(<<i>>) = i /\ <<i>> # <<>>
            BY Single
          <5>2. ~(w.err # "none" \/ w.rest = <<>>) /\ ~(q.mode[w.at] # "dir") /\ q.mode[i] # "symlink"
            BY <1>5, <2>3, <3>6, <4>1 DEF Over
          <5>3. q.ents[w.at][Head(w.rest)] = <<i>>
            BY <3>6, <4>1
          <5> QED
            BY <1>1, <3>6, <5>1, <5>2, <5>3, Zenon DEF WalkStep
        <4> QED
          BY <3>1, <4>2 DEF Along
      <3> QED
        BY <1>5, <3>3, <3>4, <3>5, <3>6 DEF Along, Over
    <2> QED
      BY <2>2, <2>3
  <1> QED
    BY <1>2, <1>3, <1>4, <1>5, Zenon DEF Stepped

LEMMA SameDir ==
    ASSUME NEW f, Shape(f), NEW q, Differs(f, q), NEW path \in Seq(Names),
           NEW d, d = Walk(f, path, TRUE), Found(d), ~d.via, ~Stuck(f, d.at)
    PROVE  Walk(q, path, FALSE) = d
  <1>1. PICK a : /\ a[0] = WalkStart(path)
                 /\ \A k \in Nat : k < MaxWalk => a[k + 1] = WalkStep(f, a[k], TRUE)
                 /\ \A k \in Nat : k <= MaxWalk => Walks(f, a[k])
                 /\ Walk(f, path, TRUE) = Result(a[MaxWalk])
    BY WalkRuns
  <1>2. PICK b : /\ b[0] = WalkStart(path)
                 /\ \A k \in Nat : k < MaxWalk => b[k + 1] = WalkStep(q, b[k], FALSE)
                 /\ Walk(q, path, FALSE) = Result(b[MaxWalk])
    BY WalkIs
  <1> DEFINE S == {k \in Nat : Along(f, a[k], b[k])}
  <1>3. 0 \in S
    BY <1>1, <1>2 DEF Along
  <1>4. ASSUME NEW k \in Nat, k \in S, k < MaxWalk PROVE k + 1 \in S
    <2>1. a[k] \in WalkType(f) /\ Along(f, a[k], b[k])
      BY <1>1, <1>4, Constants DEF Walks
    <2>2. a[k + 1] = WalkStep(f, a[k], TRUE) /\ b[k + 1] = WalkStep(q, b[k], FALSE)
      BY <1>1, <1>2, <1>4
    <2>3. Along(f, a[k + 1], b[k + 1])
      BY <2>1, <2>2, AlongStep
    <2> QED
      BY <2>3
  <1>5. MaxWalk \in S
    <2> HIDE DEF S
    <2> QED
      BY <1>3, <1>4, Induct
  <1>6. Along(f, a[MaxWalk], b[MaxWalk]) /\ Walks(f, a[MaxWalk])
    BY <1>1, <1>5, Constants
  <1>7. d = Result(a[MaxWalk])
    BY <1>1, Zenon
  <1>8. d = a[MaxWalk] /\ d.err = "none"
    <2>1. Found(Result(a[MaxWalk]))
      BY <1>7, Zenon
    <2> QED
      BY <1>6, <1>7, <2>1, ResultIs DEF Found
  <1>9. a[MaxWalk] = b[MaxWalk]
    BY <1>6, <1>8 DEF Along
  <1> QED
    BY <1>2, <1>7, <1>9, Zenon

-----------------------------------------------------------------------------
(* What the pieces of the calls do *)

\* One field at a time.
Replaced(f, g, field) ==
    /\ FsType(g)
    /\ field = "mode" \/ g.mode = f.mode
    /\ field = "links" \/ g.links = f.links
    /\ field = "bitmap" \/ g.bitmap = f.bitmap
    /\ field = "ents" \/ g.ents = f.ents
    /\ field = "dotdot" \/ g.dotdot = f.dotdot
    /\ field = "target" \/ g.target = f.target

SetMode(f, v) == [f EXCEPT !.mode = v]
SetLinks(f, v) == [f EXCEPT !.links = v]
SetBitmap(f, v) == [f EXCEPT !.bitmap = v]
SetEnts(f, v) == [f EXCEPT !.ents = v]
SetDotdot(f, v) == [f EXCEPT !.dotdot = v]
SetTarget(f, v) == [f EXCEPT !.target = v]
SetEntry(f, d, n, s) == [f EXCEPT !.ents[d][n] = s]

LEMMA ReplaceMode ==
    ASSUME NEW f, FsType(f), NEW v \in [Inodes -> {"none", "file", "dir", "symlink"}],
           NEW g, g = SetMode(f, v)
    PROVE  Replaced(f, g, "mode") /\ g.mode = v
  BY DEF FsType, Replaced, SetMode

LEMMA ReplaceLinks ==
    ASSUME NEW f, FsType(f), NEW v \in [Inodes -> Nat], NEW g, g = SetLinks(f, v)
    PROVE  Replaced(f, g, "links") /\ g.links = v
  BY DEF FsType, Replaced, SetLinks

LEMMA ReplaceBitmap ==
    ASSUME NEW f, FsType(f), NEW v \in SUBSET Inodes, NEW g, g = SetBitmap(f, v)
    PROVE  Replaced(f, g, "bitmap") /\ g.bitmap = v
  BY DEF FsType, Replaced, SetBitmap

LEMMA ReplaceEnts ==
    ASSUME NEW f, FsType(f), NEW v \in [Inodes -> [Names -> Seq(Inodes)]], NEW g, g = SetEnts(f, v)
    PROVE  Replaced(f, g, "ents") /\ g.ents = v
  BY DEF FsType, Replaced, SetEnts

LEMMA ReplaceDotdot ==
    ASSUME NEW f, FsType(f), NEW v \in [Inodes -> Inodes], NEW g, g = SetDotdot(f, v)
    PROVE  Replaced(f, g, "dotdot") /\ g.dotdot = v
  BY DEF FsType, Replaced, SetDotdot

LEMMA ReplaceTarget ==
    ASSUME NEW f, FsType(f), NEW v \in [Inodes -> Targets \cup {<<>>}], NEW g, g = SetTarget(f, v)
    PROVE  Replaced(f, g, "target") /\ g.target = v
  BY DEF FsType, Replaced, SetTarget

LEMMA BitmapIs ==
    ASSUME NEW f, FsType(f), NEW i \in Inodes
    PROVE  /\ Replaced(f, Allocate(f, i), "bitmap") /\ Allocate(f, i).bitmap = f.bitmap \cup {i}
           /\ Replaced(f, Release(f, i), "bitmap") /\ Release(f, i).bitmap = f.bitmap \ {i}
  <1>1. f.bitmap \cup {i} \in SUBSET Inodes /\ f.bitmap \ {i} \in SUBSET Inodes
    BY DEF FsType
  <1> QED
    BY <1>1, ReplaceBitmap DEF Allocate, Release, SetBitmap

LEMMA DropLinkIs ==
    ASSUME NEW f, FsType(f), NEW i \in Inodes, f.links[i] >= 1, NEW g, g = DropLink(f, i)
    PROVE  /\ Replaced(f, g, "links")
           /\ g.links[i] = f.links[i] - 1 /\ \A j \in Inodes : j # i => g.links[j] = f.links[j]
  <1> DEFINE v == [f.links EXCEPT ![i] = @ - 1]
  <1>1. /\ v \in [Inodes -> Nat]
        /\ v[i] = f.links[i] - 1 /\ \A j \in Inodes : j # i => v[j] = f.links[j]
    BY DEF FsType
  <1>2. g = SetLinks(f, v)
    BY DEF DropLink, SetLinks
  <1> HIDE DEF v
  <1> QED
    BY <1>1, <1>2, ReplaceLinks

LEMMA AddLinksIs ==
    ASSUME NEW f, FsType(f), NEW i \in Inodes, NEW g, g = AddLinks(f, i, 1)
    PROVE  /\ Replaced(f, g, "links")
           /\ g.links[i] = f.links[i] + 1 /\ \A j \in Inodes : j # i => g.links[j] = f.links[j]
  <1> DEFINE v == [f.links EXCEPT ![i] = @ + 1]
  <1>1. /\ v \in [Inodes -> Nat]
        /\ v[i] = f.links[i] + 1 /\ \A j \in Inodes : j # i => v[j] = f.links[j]
    BY DEF FsType
  <1>2. g = SetLinks(f, v)
    BY DEF AddLinks, SetLinks
  <1> HIDE DEF v
  <1> QED
    BY <1>1, <1>2, ReplaceLinks

LEMMA EntryIs ==
    ASSUME NEW f, FsType(f), NEW d \in Inodes, NEW n \in Names, NEW s \in Seq(Inodes),
           NEW g, g = SetEntry(f, d, n, s)
    PROVE  /\ Replaced(f, g, "ents")
           /\ \A e \in Inodes, x \in Names :
                 g.ents[e][x] = IF e = d /\ x = n THEN s ELSE f.ents[e][x]
  <1> DEFINE v == [f.ents EXCEPT ![d][n] = s]
  <1>1. /\ v \in [Inodes -> [Names -> Seq(Inodes)]]
        /\ \A e \in Inodes, x \in Names : v[e][x] = IF e = d /\ x = n THEN s ELSE f.ents[e][x]
    BY DEF FsType
  <1>2. g = SetEnts(f, v)
    BY DEF SetEntry, SetEnts
  <1> HIDE DEF v
  <1> QED
    BY <1>1, <1>2, ReplaceEnts

LEMMA DropEntryIs ==
    ASSUME NEW f, FsType(f), NEW d \in Inodes, NEW n \in Names, NEW i, f.ents[d][n] = <<i>>,
           NEW g, g = DropEntry(f, d, n)
    PROVE  /\ Replaced(f, g, "ents")
           /\ \A e \in Inodes, x \in Names :
                 g.ents[e][x] = IF e = d /\ x = n THEN <<>> ELSE f.ents[e][x]
  <1>0. <<>> \in Seq(Inodes)
    OBVIOUS
  <1>1. PICK s \in Seq(Inodes) : s = <<>>
    BY <1>0, Zenon
  <1>2. g = SetEntry(f, d, n, s)
    BY <1>1, Single DEF DropEntry, SetEntry
  <1>3. /\ Replaced(f, g, "ents")
        /\ \A e \in Inodes, x \in Names :
              g.ents[e][x] = IF e = d /\ x = n THEN s ELSE f.ents[e][x]
    BY <1>2, EntryIs
  <1> QED
    BY <1>1, <1>3

LEMMA AddEntryIs ==
    ASSUME NEW f, FsType(f), NEW d \in Inodes, NEW n \in Names, NEW i \in Inodes, f.ents[d][n] = <<>>,
           NEW front \in BOOLEAN, NEW g, g = AddEntry(f, d, n, i, front)
    PROVE  /\ Replaced(f, g, "ents")
           /\ \A e \in Inodes, x \in Names :
                 g.ents[e][x] = IF e = d /\ x = n THEN <<i>> ELSE f.ents[e][x]
  <1>1. <<i>> \o <<>> = <<i>> /\ Append(<<>>, i) = <<i>> /\ <<i>> \in Seq(Inodes)
    OBVIOUS
  <1>2. PICK s \in Seq(Inodes) : s = <<i>>
    BY <1>1
  <1>3. g = SetEntry(f, d, n, s)
    BY <1>1, <1>2 DEF AddEntry, SetEntry
  <1>4. /\ Replaced(f, g, "ents")
        /\ \A e \in Inodes, x \in Names :
              g.ents[e][x] = IF e = d /\ x = n THEN s ELSE f.ents[e][x]
    BY <1>3, EntryIs
  <1> QED
    BY <1>2, <1>4

LEMMA NewInodeIs ==
    ASSUME NEW f, FreeInodes(f) # {}
    PROVE  NewInode(f) \in Inodes \ f.bitmap
  <1>1. FreeInodes(f) \subseteq Nat
    BY Constants DEF FreeInodes
  <1>2. PICK i \in FreeInodes(f) : \A j \in FreeInodes(f) : ~(<<j, i>> \in OpToRel(<, Nat))
    BY <1>1, NatLessThanWellFounded, WFMin
  <1>3. \A j \in FreeInodes(f) : i <= j
    <2> SUFFICES ASSUME NEW j \in FreeInodes(f), j < i PROVE FALSE
      BY <1>1
    <2>1. <<j, i>> \in OpToRel(<, Nat)
      BY <1>1 DEF OpToRel
    <2> QED
      BY <1>2, <2>1
  <1>4. NewInode(f) \in FreeInodes(f)
    BY <1>3 DEF NewInode
  <1> QED
    BY <1>4 DEF FreeInodes

\* An outcome o: the filesystem g, how the call returns and whether the disk failed.
Is(o, g, ret, hit) == /\ DOMAIN o = {"fs", "ret", "hit"} /\ hit \in BOOLEAN
                      /\ o.fs = g /\ o.ret = ret /\ o.hit = hit

LEMMA OutcomeIs == ASSUME NEW g, NEW ret, NEW hit \in BOOLEAN
                   PROVE  Is(Outcome(g, ret, hit), g, ret, hit)
  BY DEF Is, Outcome

LEMMA BasicOutcomes ==
    ASSUME NEW f, NEW o
    PROVE  /\ o \in Ok(f) => Is(o, f, "ok", FALSE)
           /\ o \in Fails(f) => Is(o, f, "neg", FALSE)
           /\ o \in DiskFull(f) => Is(o, f, "full", FALSE)
           /\ o \in DiskFails(f) => Is(o, f, "pos", TRUE)
           /\ o \in Access(f) => Is(o, f, "ok", FALSE) \/ Is(o, f, "pos", TRUE)
           /\ \A g : o \in Write(f, g) => Is(o, g, "ok", FALSE) \/ Is(o, f, "pos", TRUE)
  BY OutcomeIs DEF Ok, Fails, DiskFull, DiskFails, Access, Write

\* After another one that went well, and with its error negated.
LEMMA AfterIs ==
    ASSUME NEW q, NEW g, NEW ret, NEW hit, Is(q, g, ret, hit), NEW other \in BOOLEAN,
           NEW o, o = [q EXCEPT !.hit = @ \/ other]
    PROVE  Is(o, g, ret, hit \/ other)
  BY DEF Is

LEMMA NegatedIs ==
    ASSUME NEW q, NEW g, NEW ret, NEW hit, Is(q, g, ret, hit),
           NEW o, o = [q EXCEPT !.ret = IF @ = "pos" THEN "neg" ELSE @]
    PROVE  Is(o, g, IF ret = "pos" THEN "neg" ELSE ret, hit)
  BY DEF Is

\* A new inode i, of kind k.
SetNode(f, i, k, n) == [f EXCEPT !.mode[i] = k, !.links[i] = n]
NodeIn(f, g, i, k, n) ==
    /\ FsType(g) /\ g.bitmap = f.bitmap /\ g.mode[i] = k /\ g.links[i] = n
    /\ \A j \in Inodes : j # i => /\ g.mode[j] = f.mode[j] /\ g.links[j] = f.links[j]
                                  /\ g.ents[j] = f.ents[j] /\ g.dotdot[j] = f.dotdot[j]

LEMMA SetNodeIs ==
    ASSUME NEW f, FsType(f), NEW i \in Inodes, NEW k \in {"file", "dir", "symlink"}, NEW n \in Nat,
           NEW g, g = SetNode(f, i, k, n)
    PROVE  NodeIn(f, g, i, k, n) /\ g.ents = f.ents /\ g.dotdot = f.dotdot /\ g.target = f.target
  <1>1. PICK v : v = [f.mode EXCEPT ![i] = k]
    OBVIOUS
  <1>2. PICK w : w = [f.links EXCEPT ![i] = n]
    OBVIOUS
  <1>3. v \in [Inodes -> {"none", "file", "dir", "symlink"}] /\ v[i] = k /\ \A j \in Inodes : j # i => v[j] = f.mode[j]
    BY <1>1 DEF FsType
  <1>4. w \in [Inodes -> Nat] /\ w[i] = n /\ \A j \in Inodes : j # i => w[j] = f.links[j]
    BY <1>2 DEF FsType
  <1>5. PICK h : h = SetMode(f, v)
    OBVIOUS
  <1>6. Replaced(f, h, "mode") /\ h.mode = v
    BY <1>3, <1>5, ReplaceMode
  <1>7. g = SetLinks(h, w)
    BY <1>1, <1>2, <1>5, <1>6 DEF SetNode, SetMode, SetLinks, Replaced
  <1>8. Replaced(h, g, "links") /\ g.links = w
    BY <1>4, <1>6, <1>7, ReplaceLinks DEF Replaced
  <1> QED
    BY <1>3, <1>4, <1>6, <1>8 DEF Replaced, NodeIn

NewDir(f, i, d) == [f EXCEPT !.mode[i] = "dir", !.links[i] = 2, !.ents[i] = NoNames, !.dotdot[i] = d]
NewLink(f, i, to) == [f EXCEPT !.mode[i] = "symlink", !.links[i] = 1, !.target[i] = to]

LEMMA SetDirIs ==
    ASSUME NEW f, FsType(f), NEW i \in Inodes, NEW d \in Inodes,
           NEW g, g = NewDir(f, i, d)
    PROVE  NodeIn(f, g, i, "dir", 2) /\ g.dotdot[i] = d /\ \A x \in Names : g.ents[i][x] = <<>>
  <1>1. PICK v : v = [f.ents EXCEPT ![i] = NoNames]
    OBVIOUS
  <1>2. PICK w : w = [f.dotdot EXCEPT ![i] = d]
    OBVIOUS
  <1>3. /\ v \in [Inodes -> [Names -> Seq(Inodes)]] /\ \A x \in Names : v[i][x] = <<>>
        /\ \A j \in Inodes : j # i => v[j] = f.ents[j]
    BY <1>1 DEF FsType, NoNames
  <1>4. w \in [Inodes -> Inodes] /\ w[i] = d /\ \A j \in Inodes : j # i => w[j] = f.dotdot[j]
    BY <1>2 DEF FsType
  <1>5. PICK h : h = SetNode(f, i, "dir", 2)
    OBVIOUS
  <1>6. NodeIn(f, h, i, "dir", 2) /\ h.ents = f.ents /\ h.dotdot = f.dotdot
    BY <1>5, SetNodeIs
  <1>7. PICK e : e = SetEnts(h, v)
    OBVIOUS
  <1>8. Replaced(h, e, "ents") /\ e.ents = v
    BY <1>3, <1>6, <1>7, ReplaceEnts DEF NodeIn
  <1>9. g = SetDotdot(e, w)
    BY <1>1, <1>2, <1>5, <1>6, <1>7, <1>8 DEF NewDir, SetNode, SetEnts, SetDotdot, Replaced
  <1>10. Replaced(e, g, "dotdot") /\ g.dotdot = w
    <2>1. FsType(e)
      BY <1>8 DEF Replaced
    <2> QED
      BY <1>4, <1>9, <2>1, ReplaceDotdot
  <1>11. FsType(g) /\ g.mode = h.mode /\ g.links = h.links /\ g.bitmap = h.bitmap /\ g.ents = v
    BY <1>8, <1>10 DEF Replaced
  <1> QED
    BY <1>3, <1>4, <1>6, <1>10, <1>11 DEF NodeIn

LEMMA SetLinkIs ==
    ASSUME NEW f, FsType(f), NEW i \in Inodes, NEW to \in Targets,
           NEW g, g = NewLink(f, i, to)
    PROVE  NodeIn(f, g, i, "symlink", 1)
  <1>1. PICK v : v = [f.target EXCEPT ![i] = to]
    OBVIOUS
  <1>2. v \in [Inodes -> Targets \cup {<<>>}]
    BY <1>1 DEF FsType
  <1>3. PICK h : h = SetNode(f, i, "symlink", 1)
    OBVIOUS
  <1>4. NodeIn(f, h, i, "symlink", 1) /\ h.target = f.target
    BY <1>3, SetNodeIs
  <1>5. g = SetTarget(h, v)
    BY <1>1, <1>3, <1>4 DEF NewLink, SetNode, SetTarget
  <1>6. Replaced(h, g, "target")
    BY <1>2, <1>4, <1>5, ReplaceTarget DEF NodeIn
  <1>7. /\ FsType(g) /\ g.mode = h.mode /\ g.links = h.links /\ g.bitmap = h.bitmap
        /\ g.ents = h.ents /\ g.dotdot = h.dotdot
    BY <1>6 DEF Replaced
  <1> QED
    BY <1>4, <1>7 DEF NodeIn

\* What a call may do: leave a good filesystem; and unless the disk fails, or is full
\* when it must not be, change nothing when it fails and keep the counts exact.
Fine(f, g, ret, hit) ==
    /\ Good(g)
    /\ ~hit => \/ ret = "full" /\ "linkWhenFull" \in Habits
               \/ (ret # "ok" => g = f) /\ (Exact(f) => Exact(g))

LEMMA LinkEntryIs ==
    ASSUME NEW f, NEW d, NEW n, NEW i, NEW o \in LinkEntry(f, d, n, i)
    PROVE  \/ f.mode[d] # "dir" /\ Is(o, f, "neg", FALSE)
           \/ f.mode[d] = "dir" /\ (Is(o, f, "pos", TRUE) \/ Is(o, f, "full", FALSE))
           \/ f.mode[d] = "dir" /\ \E front \in BOOLEAN : Is(o, AddEntry(f, d, n, i, front), "ok", FALSE)
  <1>1. CASE f.mode[d] # "dir"
    <2>1. o \in Fails(f)
      BY <1>1 DEF LinkEntry
    <2> QED
      BY <1>1, <2>1, BasicOutcomes
  <1>2. CASE f.mode[d] = "dir"
    <2>1. o \in DiskFails(f) \cup DiskFull(f) \/ \E front \in BOOLEAN : o \in Ok(AddEntry(f, d, n, i, front))
      BY <1>2 DEF LinkEntry
    <2> QED
      BY <1>2, <2>1, BasicOutcomes
  <1> QED
    BY <1>1, <1>2

LEMMA Parents ==
    ASSUME NEW f, Good(f), NEW path \in Paths
    PROVE  /\ path \in Seq(Names) /\ path # <<>> /\ Last(path) \in Names /\ Front(path) \in Seq(Names)
           /\ Walks(f, ParentDir(f, path)) /\ ParentDir(f, path).at \in f.bitmap
           /\ Walks(f, Namei(f, path)) /\ Namei(f, path).at \in f.bitmap
           /\ Walks(f, Namei(f, Front(path))) /\ Namei(f, Front(path)).at \in f.bitmap
           /\ f.bitmap \subseteq Inodes
  <1>1. path \in Seq(Names) /\ path # <<>>
    BY Constants
  <1>2. Last(path) \in Names /\ Front(path) \in Seq(Names)
    BY <1>1, FrontLast
  <1>3. Walks(f, ParentDir(f, path)) /\ Walks(f, Namei(f, path)) /\ Walks(f, Namei(f, Front(path)))
    BY <1>1, <1>2, WalkEnds DEF Good, ParentDir, Namei
  <1>4. \A w : Walks(f, w) => w.at \in f.bitmap
    BY DEF Walks, WalkType
  <1> QED
    BY <1>1, <1>2, <1>3, <1>4 DEF Good, Shape, FsType

-----------------------------------------------------------------------------
(* create_file, mkdir, symlink and link *)

Made(g, i) == SetNode(Allocate(g, i), i, "file", 1)
MakeFile(g, i) == Write(Allocate(g, i), Made(g, i))

\* Nothing has that path's last name in its directory, if there is one.
NoEntry(f, path) == LET d == ParentDir(f, path) IN
    Found(d) /\ f.mode[d.at] = "dir" => f.ents[d.at][Last(path)] = <<>>

LEMMA CreateFine ==
    ASSUME NEW f, Good(f), NEW path \in Paths, NEW o \in CreateFile(f, path)
    PROVE  \E g, ret, hit : Is(o, g, ret, hit) /\ (~hit /\ NoEntry(f, path) => Fine(f, g, ret, hit))
  <1> DEFINE d == ParentDir(f, path)
             i == NewInode(f)
             n == Last(path)
  <1>0. Shape(f) /\ FsType(f) /\ path \in Seq(Names) /\ path # <<>>
    BY Constants DEF Good, Shape
  <1>1. CASE ~Found(d) \/ FreeInodes(f) = {}
    <2>1. Is(o, f, "neg", FALSE)
      BY <1>1, BasicOutcomes DEF CreateFile
    <2> QED
      BY <2>1 DEF Fine
  <1>2. CASE Found(d) /\ FreeInodes(f) # {}
    <2>1. o \in Then(LinkEntry(f, d.at, n, i), LAMBDA g : MakeFile(g, i))
      BY <1>2 DEF CreateFile, MakeFile, Made, SetNode
    <2>2. PICK a \in LinkEntry(f, d.at, n, i) :
              o \in IF a.ret # "ok" THEN {a}
                    ELSE {[q EXCEPT !.hit = @ \/ a.hit] : q \in MakeFile(a.fs, i)}
      BY <2>1, Zenon DEF Then
    <2>4. CASE Is(a, f, "neg", FALSE) \/ Is(a, f, "full", FALSE) \/ Is(a, f, "pos", TRUE)
      <3>1. o = a
        BY <2>2, <2>4 DEF Is
      <3> QED
        BY <2>4, <3>1 DEF Fine
    <2>5. ASSUME f.mode[d.at] = "dir", NEW front \in BOOLEAN, Is(a, AddEntry(f, d.at, n, i, front), "ok", FALSE)
          PROVE  \E g, ret, hit : Is(o, g, ret, hit) /\ (~hit /\ NoEntry(f, path) => Fine(f, g, ret, hit))
      <3>1. PICK h : h = AddEntry(f, d.at, n, i, front)
        OBVIOUS
      <3>2. PICK q \in MakeFile(h, i) : o = [q EXCEPT !.hit = @ \/ FALSE]
        BY <2>2, <2>5, <3>1 DEF Is
      <3>3. Is(q, Made(h, i), "ok", FALSE) \/ Is(q, Allocate(h, i), "pos", TRUE)
        BY <3>2, BasicOutcomes DEF MakeFile
      <3>4. Is(o, Made(h, i), "ok", FALSE) \/ Is(o, Allocate(h, i), "pos", TRUE)
        BY <3>2, <3>3 DEF Is
      <3>5. ASSUME NoEntry(f, path)
            PROVE  Good(Made(h, i)) /\ (Exact(f) => Exact(Made(h, i)))
        <4> DEFINE A == Allocate(h, i)
        <4>1. i \in Inodes \ f.bitmap /\ d.at \in Dirs(f) /\ d.at \in Inodes /\ n \in Names /\ f.ents[d.at][n] = <<>>
          BY <1>2, <2>5, <3>5, NewInodeIs, Parents DEF Dirs, NoEntry
        <4> HIDE DEF d, i, n
        <4>2. /\ Replaced(f, h, "ents")
              /\ \A e \in Inodes, x \in Names :
                    h.ents[e][x] = IF e = d.at /\ x = n THEN <<i>> ELSE f.ents[e][x]
          BY <1>0, <3>1, <4>1, AddEntryIs
        <4>3. FsType(h) /\ h.bitmap = f.bitmap
          BY <4>2 DEF Replaced
        <4>4. Replaced(h, A, "bitmap") /\ A.bitmap = h.bitmap \cup {i}
          BY <4>1, <4>3, BitmapIs
        <4>5. FsType(A)
          BY <4>4 DEF Replaced
        <4> HIDE DEF A
        <4> DEFINE g == Made(h, i)
        <4>6. NodeIn(A, g, i, "file", 1)
          <5>1. g = SetNode(A, i, "file", 1)
            BY DEF A, Made
          <5> QED
            BY <4>1, <4>5, <5>1, SetNodeIs
        <4> HIDE DEF g
        <4>7. /\ FsType(g) /\ g.bitmap = f.bitmap \cup {i}
              /\ \A j \in f.bitmap : g.mode[j] = f.mode[j] /\ g.dotdot[j] = f.dotdot[j]
              /\ \A j \in f.bitmap : g.links[j] = f.links[j]
              /\ \A e \in Dirs(f) : g.ents[e] = h.ents[e]
              /\ g.mode[i] = "file" /\ g.links[i] = 1
          <5>1. /\ A.mode = f.mode /\ A.links = f.links /\ A.dotdot = f.dotdot /\ A.ents = h.ents
                /\ A.bitmap = f.bitmap \cup {i}
            BY <4>2, <4>4 DEF Replaced
          <5>2. Dirs(f) \subseteq f.bitmap /\ f.bitmap \subseteq Inodes
            BY <1>0 DEF Dirs, FsType
          <5> QED
            BY <4>1, <4>6, <5>1, <5>2 DEF NodeIn
        <4>8. \A e \in Dirs(f), x \in Names :
                 g.ents[e][x] = IF e = d.at /\ x = n THEN <<i>> ELSE f.ents[e][x]
          <5>1. \A e \in Dirs(f) : e \in Inodes
            BY <1>0 DEF Dirs, FsType
          <5> QED
            BY <4>2, <4>7, <5>1
        <4>9. Good(g) /\ (Exact(f) => Exact(g))
          BY <4>1, <4>7, <4>8, NewName
        <4> QED
          BY <4>9 DEF g
      <3> QED
        BY <3>4, <3>5 DEF Fine
    <2> QED
      BY <2>4, <2>5, LinkEntryIs
  <1> QED
    BY <1>1, <1>2

\* The end of open changes nothing.
Opened(X, mode, flags) == Then(X, LAMBDA g : OpenFile(g, mode, flags))

LEMMA ThenOpened ==
    ASSUME NEW X, NEW mode, NEW flags, NEW o \in Opened(X, mode, flags)
    PROVE  \E a \in X : \/ a.ret # "ok" /\ o = a
                        \/ /\ a.ret = "ok"
                           /\ \A g, hit : Is(a, g, "ok", hit) =>
                                  \/ Is(o, g, "ok", hit) \/ Is(o, g, "pos", TRUE)
                                  \/ Is(o, g, "neg", hit) /\ "DIRECTORY" \in flags
  <1> DEFINE Rest(g) == OpenFile(g, mode, flags)
  <1>0. o \in Then(X, LAMBDA g : Rest(g))
    BY DEF Opened
  <1> HIDE DEF Rest
  <1>1. PICK a \in X :
            o \in IF a.ret # "ok" THEN {a}
                  ELSE {[q EXCEPT !.hit = @ \/ a.hit] : q \in Rest(a.fs)}
    BY <1>0, Zenon DEF Then
  <1>2. CASE a.ret # "ok"
    BY <1>1, <1>2
  <1>3. CASE a.ret = "ok"
    <2> SUFFICES ASSUME NEW g, NEW hit, Is(a, g, "ok", hit)
                 PROVE  \/ Is(o, g, "ok", hit) \/ Is(o, g, "pos", TRUE)
                        \/ Is(o, g, "neg", hit) /\ "DIRECTORY" \in flags
      BY <1>3
    <2>1. PICK q \in Rest(g) : o = [q EXCEPT !.hit = @ \/ hit]
      BY <1>1, <1>3 DEF Is
    <2>2. \/ Is(q, g, "ok", FALSE) \/ Is(q, g, "pos", TRUE)
          \/ Is(q, g, "neg", FALSE) /\ "DIRECTORY" \in flags
      BY <2>1, BasicOutcomes DEF Rest, OpenFile
    <2>3. hit \in BOOLEAN
      BY DEF Is
    <2>4. \/ Is(o, g, "ok", FALSE \/ hit) \/ Is(o, g, "pos", TRUE \/ hit)
          \/ Is(o, g, "neg", FALSE \/ hit) /\ "DIRECTORY" \in flags
      BY <2>1, <2>2, <2>3, AfterIs
    <2> QED
      BY <2>3, <2>4
  <1> QED
    BY <1>2, <1>3

LEMMA OpenFine ==
    ASSUME NEW f, Good(f), NEW path \in Paths, NEW flags,
           ~Found(Lookup(f, path, flags)) => NoEntry(f, path) /\ "DIRECTORY" \notin flags,
           NEW o \in OpenCreate(f, path, flags)
    PROVE  \E g, ret, hit : Is(o, g, ret, hit) /\ (~hit => Fine(f, g, ret, hit))
  <1> DEFINE at == Lookup(f, path, flags)
             missing == Opened(CreateFile(f, path), "file", flags)
             found == IF "EXCL" \in flags THEN Fails(f) ELSE OpenFile(f, f.mode[at.at], flags)
             all == IF ~Found(at) THEN missing
                    ELSE found \cup {[p EXCEPT !.hit = TRUE] : p \in missing}
  <1>1. ASSUME NEW q \in missing
        PROVE  \E g, ret, hit : Is(q, g, ret, hit) /\ (~hit /\ ~Found(at) => Fine(f, g, ret, hit))
    <2>1. PICK p \in CreateFile(f, path) :
              \/ p.ret # "ok" /\ q = p
              \/ /\ p.ret = "ok"
                 /\ \A g, hit : Is(p, g, "ok", hit) =>
                        \/ Is(q, g, "ok", hit) \/ Is(q, g, "pos", TRUE)
                        \/ Is(q, g, "neg", hit) /\ "DIRECTORY" \in flags
      BY <1>1, ThenOpened
    <2>2. PICK g, ret, hit : Is(p, g, ret, hit) /\ (~hit /\ NoEntry(f, path) => Fine(f, g, ret, hit))
      BY CreateFine
    <2>3. CASE ret # "ok"
      BY <2>1, <2>2, <2>3 DEF Is
    <2>4. CASE ret = "ok"
      <3>1. \/ Is(q, g, "ok", hit) \/ Is(q, g, "pos", TRUE)
            \/ Is(q, g, "neg", hit) /\ "DIRECTORY" \in flags
        BY <2>1, <2>2, <2>4 DEF Is
      <3> QED
        BY <2>2, <2>4, <3>1
    <2> QED
      BY <2>3, <2>4
  <1> HIDE DEF missing
  <1>2. ASSUME NEW p \in all
        PROVE  \E g, ret, hit : Is(p, g, ret, hit) /\ (~hit => Fine(f, g, ret, hit))
    <2>1. CASE ~Found(at)
      BY <1>1, <1>2, <2>1
    <2>2. CASE p \in found
      <3>1. Is(p, f, "ok", FALSE) \/ Is(p, f, "neg", FALSE) \/ Is(p, f, "pos", TRUE)
        BY <2>2, BasicOutcomes DEF OpenFile
      <3> QED
        BY <3>1 DEF Fine
    <2>3. ASSUME NEW q \in missing, p = [q EXCEPT !.hit = TRUE]
          PROVE  \E g, ret : Is(p, g, ret, TRUE)
      <3>1. PICK g, ret, hit : Is(q, g, ret, hit)
        BY <1>1, <2>3
      <3>2. Is(p, g, ret, TRUE)
        BY <2>3, <3>1 DEF Is
      <3> QED
        BY <3>2
    <2> QED
      BY <1>2, <2>1, <2>2, <2>3
  <1> HIDE DEF found
  <1>3. o \in Negated(all)
    BY Zenon DEF OpenCreate, Opened, missing, found
  <1> HIDE DEF all
  <1>4. PICK p \in all : o = [p EXCEPT !.ret = IF @ = "pos" THEN "neg" ELSE @]
    BY <1>3, Zenon DEF Negated
  <1>5. PICK g, ret, hit : Is(p, g, ret, hit) /\ (~hit => Fine(f, g, ret, hit))
    BY <1>2
  <1>6. Is(o, g, IF ret = "pos" THEN "neg" ELSE ret, hit)
    BY <1>4, <1>5, NegatedIs
  <1>7. Fine(f, g, ret, hit) => Fine(f, g, IF ret = "pos" THEN "neg" ELSE ret, hit)
    BY DEF Fine
  <1> QED
    BY <1>5, <1>6, <1>7

LEMMA ThenAccess ==
    ASSUME NEW X, NEW o \in Then(X, Access)
    PROVE  \E a \in X : \/ a.ret # "ok" /\ o = a
                        \/ /\ a.ret = "ok"
                           /\ \A g, hit : Is(a, g, "ok", hit) => Is(o, g, "ok", hit) \/ Is(o, g, "pos", TRUE)
  <1>1. PICK a \in X :
            o \in IF a.ret # "ok" THEN {a}
                  ELSE {[q EXCEPT !.hit = @ \/ a.hit] : q \in Access(a.fs)}
    BY Zenon DEF Then
  <1>2. CASE a.ret # "ok"
    BY <1>1, <1>2
  <1>3. CASE a.ret = "ok"
    <2> SUFFICES ASSUME NEW g, NEW hit, Is(a, g, "ok", hit) PROVE Is(o, g, "ok", hit) \/ Is(o, g, "pos", TRUE)
      BY <1>3
    <2>1. PICK q \in Access(g) : o = [q EXCEPT !.hit = @ \/ hit]
      BY <1>1, <1>3 DEF Is
    <2>2. Is(q, g, "ok", FALSE) \/ Is(q, g, "pos", TRUE)
      BY <2>1, BasicOutcomes
    <2>3. hit \in BOOLEAN
      BY DEF Is
    <2>4. Is(o, g, "ok", FALSE \/ hit) \/ Is(o, g, "pos", TRUE \/ hit)
      BY <2>1, <2>2, <2>3, AfterIs
    <2> QED
      BY <2>3, <2>4
  <1> QED
    BY <1>2, <1>3

MadeDir(f, d, n, i) == NewDir(Allocate(AddLinks(AddEntry(f, d, n, i, FALSE), d, 1), i), i, d)

LEMMA MadeDirGood ==
    ASSUME NEW f, Good(f), NEW d \in Dirs(f), NEW n \in Names, f.ents[d][n] = <<>>,
           NEW i \in Inodes \ f.bitmap, NEW g, g = MadeDir(f, d, n, i)
    PROVE  Good(g) /\ (Exact(f) => Exact(g))
  <1>1. FsType(f) /\ d \in Inodes /\ d # i /\ f.bitmap \subseteq Inodes /\ \A e \in Dirs(f) : e \in f.bitmap
    BY DEF Good, Shape, FsType, Dirs
  <1> PICK front \in BOOLEAN : front = FALSE
    OBVIOUS
  <1>2. PICK h : h = AddEntry(f, d, n, i, front)
    OBVIOUS
  <1>3. /\ Replaced(f, h, "ents")
        /\ \A e \in Inodes, x \in Names :
              h.ents[e][x] = IF e = d /\ x = n THEN <<i>> ELSE f.ents[e][x]
    BY <1>1, <1>2, AddEntryIs
  <1>4. PICK k : k = AddLinks(h, d, 1)
    OBVIOUS
  <1>5. /\ Replaced(h, k, "links")
        /\ k.links[d] = h.links[d] + 1 /\ \A j \in Inodes : j # d => k.links[j] = h.links[j]
    <2>1. FsType(h)
      BY <1>3 DEF Replaced
    <2> QED
      BY <1>1, <1>4, <2>1, AddLinksIs
  <1>6. PICK a : a = Allocate(k, i)
    OBVIOUS
  <1>7. Replaced(k, a, "bitmap") /\ a.bitmap = k.bitmap \cup {i}
    BY <1>5, <1>6, BitmapIs DEF Replaced
  <1>8. NodeIn(a, g, i, "dir", 2) /\ g.dotdot[i] = d /\ \A x \in Names : g.ents[i][x] = <<>>
    <2>1. g = NewDir(a, i, d) /\ FsType(a)
      BY <1>2, <1>4, <1>6, <1>7 DEF MadeDir, Replaced
    <2> QED
      BY <1>1, <2>1, SetDirIs
  <1>9. /\ a.mode = f.mode /\ a.links = k.links /\ a.dotdot = f.dotdot /\ a.ents = h.ents
        /\ a.bitmap = f.bitmap \cup {i} /\ h.links = f.links
    BY <1>3, <1>5, <1>7 DEF Replaced
  <1>10. /\ FsType(g) /\ g.bitmap = f.bitmap \cup {i} /\ g.mode[i] = "dir" /\ g.links[i] = 2
         /\ \A j \in f.bitmap : g.mode[j] = f.mode[j] /\ g.dotdot[j] = f.dotdot[j]
         /\ \A j \in f.bitmap : g.links[j] = k.links[j]
         /\ \A e \in f.bitmap : g.ents[e] = h.ents[e]
    BY <1>1, <1>8, <1>9 DEF NodeIn
  <1>11. \A e \in Dirs(f), x \in Names :
           g.ents[e][x] = IF e = d /\ x = n THEN <<i>> ELSE f.ents[e][x]
    BY <1>1, <1>3, <1>10
  <1>12. \A j \in f.bitmap : g.links[j] = IF j = d /\ g.mode[i] = "dir" THEN f.links[j] + 1 ELSE f.links[j]
    BY <1>1, <1>5, <1>9, <1>10
  <1> QED
    BY <1>8, <1>10, <1>11, <1>12, NewName

LEMMA MkdirFine ==
    ASSUME NEW f, Good(f), NEW path \in Paths, "mkdirCutShort" \notin Habits, NEW o \in Mkdir(f, path)
    PROVE  \E g, ret, hit : Is(o, g, ret, hit) /\ Fine(f, g, ret, hit)
  <1> DEFINE d == ParentDir(f, path)
             i == NewInode(f)
             n == Last(path)
             bad == ~Found(d) \/ FreeInodes(f) = {} \/ f.mode[d.at] # "dir" \/ f.ents[d.at][n] # <<>>
             In(g) == MkdirIn(g, path, d.at, i)
             Rest(g) == Then(In(g), Access)
  <1>1. CASE bad
    <2>1. Is(o, f, "neg", FALSE)
      BY <1>1, BasicOutcomes DEF Mkdir
    <2> QED
      BY <2>1 DEF Fine
  <1>2. CASE ~bad
    <2>1. PICK m : m = MadeDir(f, d.at, n, i)
      OBVIOUS
    <2>2. Good(m) /\ (Exact(f) => Exact(m))
      <3>1. i \in Inodes \ f.bitmap /\ d.at \in Dirs(f) /\ n \in Names /\ f.ents[d.at][n] = <<>>
        BY <1>2, NewInodeIs, Parents DEF Dirs
      <3> QED
        BY <2>1, <3>1, MadeDirGood
    <2>3. In(f) = DiskFull(f) \cup DiskFails(f) \cup Ok(m)
      BY <2>1 DEF MkdirIn, MadeDir, NewDir
    <2>4. o \in Negated(Then(Access(f), LAMBDA g : Rest(g)))
      BY <1>2 DEF Mkdir
    <2>5. PICK p \in Then(Access(f), LAMBDA g : Rest(g)) :
              o = [p EXCEPT !.ret = IF @ = "pos" THEN "neg" ELSE @]
      BY <2>4, Zenon DEF Negated
    <2> HIDE DEF Rest
    <2>6. PICK a \in Access(f) :
              p \in IF a.ret # "ok" THEN {a}
                    ELSE {[q EXCEPT !.hit = @ \/ a.hit] : q \in Rest(a.fs)}
      BY <2>5, Zenon DEF Then
    <2>7. \/ Is(p, f, "pos", TRUE) \/ Is(p, f, "full", FALSE)
          \/ Is(p, m, "ok", FALSE) \/ Is(p, m, "pos", TRUE)
      <3>1. CASE Is(a, f, "pos", TRUE)
        BY <2>6, <3>1 DEF Is
      <3>2. CASE Is(a, f, "ok", FALSE)
        <4>1. PICK q \in Rest(f) : p = [q EXCEPT !.hit = @ \/ FALSE]
          BY <2>6, <3>2 DEF Is
        <4>2. PICK b \in In(f) :
                  \/ b.ret # "ok" /\ q = b
                  \/ /\ b.ret = "ok"
                     /\ \A g, hit : Is(b, g, "ok", hit) => Is(q, g, "ok", hit) \/ Is(q, g, "pos", TRUE)
          BY <4>1, ThenAccess DEF Rest
        <4>3. Is(b, m, "ok", FALSE) \/ Is(b, f, "full", FALSE) \/ Is(b, f, "pos", TRUE)
          BY <2>3, <4>2, BasicOutcomes
        <4>4. \/ Is(q, m, "ok", FALSE) \/ Is(q, m, "pos", TRUE)
              \/ Is(q, f, "full", FALSE) \/ Is(q, f, "pos", TRUE)
          BY <4>2, <4>3 DEF Is
        <4> QED
          BY <4>1, <4>4 DEF Is
      <3> QED
        BY <2>6, <3>1, <3>2, BasicOutcomes
    <2>8. \/ Is(o, f, "neg", TRUE) \/ Is(o, f, "full", FALSE)
          \/ Is(o, m, "ok", FALSE) \/ Is(o, m, "neg", TRUE)
      BY <2>5, <2>7 DEF Is
    <2> QED
      BY <2>2, <2>8 DEF Fine
  <1> QED
    BY <1>1, <1>2

LEMMA SymlinkFine ==
    ASSUME NEW f, Good(f), NEW to \in Targets, NEW dest \in Paths, NEW o \in Symlink(f, to, dest)
    PROVE  \E g, ret, hit : Is(o, g, ret, hit) /\ Fine(f, g, ret, hit)
  <1> DEFINE d == ParentDir(f, dest)
             i == NewInode(f)
             n == Last(dest)
             bad == ~Found(d) \/ FreeInodes(f) = {} \/ f.mode[d.at] # "dir" \/ f.ents[d.at][n] # <<>>
             made == NewLink(Allocate(AddEntry(f, d.at, n, i, FALSE), i), i, to)
  <1>1. CASE bad
    <2>1. Is(o, f, "neg", FALSE)
      BY <1>1, BasicOutcomes DEF Symlink
    <2> QED
      BY <2>1 DEF Fine
  <1>2. CASE ~bad
    <2>1. o \in DiskFull(f) \/ o \in Then(Write(f, made), Access)
      BY <1>2 DEF Symlink, SymlinkContent, NewLink
    <2>2. Good(made) /\ (Exact(f) => Exact(made))
      <3>1. /\ i \in Inodes \ f.bitmap /\ d.at \in Dirs(f) /\ n \in Names /\ f.ents[d.at][n] = <<>>
            /\ f.bitmap \subseteq Inodes /\ \A e \in Dirs(f) : e \in f.bitmap
        BY <1>2, NewInodeIs, Parents DEF Dirs
      <3>2. FsType(f)
        BY DEF Good, Shape
      <3> PICK front \in BOOLEAN : front = FALSE
        OBVIOUS
      <3>3. PICK h : h = AddEntry(f, d.at, n, i, front)
        OBVIOUS
      <3>4. PICK a : a = Allocate(h, i)
        OBVIOUS
      <3>5. PICK g : g = NewLink(a, i, to)
        OBVIOUS
      <3>6. g = made
        BY <3>3, <3>4, <3>5
      <3> HIDE DEF d, i, n, made
      <3>7. /\ Replaced(f, h, "ents")
            /\ \A e \in Inodes, x \in Names :
                  h.ents[e][x] = IF e = d.at /\ x = n THEN <<i>> ELSE f.ents[e][x]
        BY <3>1, <3>2, <3>3, AddEntryIs
      <3>8. /\ FsType(h) /\ h.mode = f.mode /\ h.links = f.links /\ h.dotdot = f.dotdot
            /\ h.bitmap = f.bitmap
        BY <3>7 DEF Replaced
      <3>9. Replaced(h, a, "bitmap") /\ a.bitmap = h.bitmap \cup {i}
        BY <3>1, <3>4, <3>8, BitmapIs
      <3>10. /\ FsType(a) /\ a.mode = f.mode /\ a.links = f.links /\ a.dotdot = f.dotdot
             /\ a.ents = h.ents /\ a.bitmap = f.bitmap \cup {i}
        BY <3>8, <3>9 DEF Replaced
      <3>11. NodeIn(a, g, i, "symlink", 1)
        BY <3>1, <3>5, <3>10, SetLinkIs
      <3>12. /\ FsType(g) /\ g.bitmap = f.bitmap \cup {i} /\ g.mode[i] = "symlink" /\ g.links[i] = 1
             /\ \A j \in f.bitmap : g.mode[j] = f.mode[j] /\ g.dotdot[j] = f.dotdot[j]
             /\ \A j \in f.bitmap : g.links[j] = f.links[j]
             /\ \A e \in f.bitmap : g.ents[e] = h.ents[e]
        BY <3>1, <3>10, <3>11 DEF NodeIn
      <3>13. \A e \in Dirs(f), x \in Names :
               g.ents[e][x] = IF e = d.at /\ x = n THEN <<i>> ELSE f.ents[e][x]
        BY <3>1, <3>7, <3>12
      <3>14. Good(g) /\ (Exact(f) => Exact(g))
        BY <3>1, <3>12, <3>13, NewName
      <3> QED
        BY <3>6, <3>14
    <2>3. PICK m : m = made
      OBVIOUS
    <2> HIDE DEF made
    <2>4. CASE o \in DiskFull(f)
      <3>1. Is(o, f, "full", FALSE)
        BY <2>4, BasicOutcomes
      <3> QED
        BY <3>1 DEF Fine
    <2>5. CASE o \in Then(Write(f, m), Access)
      <3>1. PICK a \in Write(f, m) :
                \/ a.ret # "ok" /\ o = a
                \/ /\ a.ret = "ok"
                   /\ \A g, hit : Is(a, g, "ok", hit) => Is(o, g, "ok", hit) \/ Is(o, g, "pos", TRUE)
        BY <2>5, ThenAccess
      <3>2. Is(a, m, "ok", FALSE) \/ Is(a, f, "pos", TRUE)
        BY <3>1, BasicOutcomes
      <3>3. Is(o, m, "ok", FALSE) \/ Is(o, m, "pos", TRUE) \/ Is(o, f, "pos", TRUE)
        BY <3>1, <3>2 DEF Is
      <3> QED
        BY <2>2, <2>3, <3>3 DEF Fine
    <2> QED
      BY <2>1, <2>3, <2>4, <2>5
  <1> QED
    BY <1>1, <1>2

LEMMA LinkCountedIs ==
    ASSUME NEW f, NEW d, NEW n, NEW i, NEW o \in LinkCounted(f, d, n, i), NEW g, g = AddLinks(f, i, 1),
           g.mode[d] = "dir"
    PROVE  \/ Is(o, f, "pos", TRUE) \/ Is(o, g, "pos", TRUE) \/ Is(o, g, "full", FALSE)
           \/ \E front \in BOOLEAN : Is(o, AddEntry(g, d, n, i, front), "ok", FALSE)
  <1> DEFINE Rest(h) == LinkEntry(h, d, n, i)
  <1>1. o \in Then(Write(f, g), LAMBDA h : Rest(h))
    BY DEF LinkCounted
  <1> HIDE DEF Rest
  <1>2. PICK a \in Write(f, g) :
            o \in IF a.ret # "ok" THEN {a}
                  ELSE {[q EXCEPT !.hit = @ \/ a.hit] : q \in Rest(a.fs)}
    BY <1>1, Zenon DEF Then
  <1>3. CASE Is(a, f, "pos", TRUE)
    BY <1>2, <1>3 DEF Is
  <1>4. CASE Is(a, g, "ok", FALSE)
    <2>1. PICK q \in LinkEntry(g, d, n, i) : o = [q EXCEPT !.hit = @ \/ FALSE]
      BY <1>2, <1>4 DEF Is, Rest
    <2>2. \/ Is(q, g, "pos", TRUE) \/ Is(q, g, "full", FALSE)
          \/ \E front \in BOOLEAN : Is(q, AddEntry(g, d, n, i, front), "ok", FALSE)
      BY <2>1, LinkEntryIs
    <2> QED
      BY <2>1, <2>2 DEF Is
  <1> QED
    BY <1>2, <1>3, <1>4, BasicOutcomes

LEMMA LinkFine ==
    ASSUME NEW f, Good(f), NEW src \in Paths, NEW dest \in Paths,
           Found(ParentDir(f, dest)) => /\ f.mode[ParentDir(f, dest).at] = "dir"
                                        /\ f.ents[ParentDir(f, dest).at][Last(dest)] = <<>>,
           Found(Namei(f, src)) => f.mode[Namei(f, src).at] # "dir",
           NEW o \in Link(f, src, dest), Habit("linkWhenFull", o.ret = "full")
    PROVE  \E g, ret, hit : Is(o, g, ret, hit) /\ Fine(f, g, ret, hit)
  <1> DEFINE d == ParentDir(f, dest)
             i == Namei(f, src)
             n == Last(dest)
             In(g) == LinkCounted(g, d.at, n, i.at)
             Rest(g) == Then(In(g), Access)
  <1>1. CASE ~Found(d)
    <2>1. Is(o, f, "ok", FALSE)
      BY <1>1, BasicOutcomes DEF Link
    <2> QED
      BY <2>1 DEF Fine
  <1>2. CASE Found(d) /\ (o = Outcome(f, "ok", TRUE) \/ ~Found(i))
    <2>1. Is(o, f, "ok", TRUE) \/ Is(o, f, "neg", FALSE)
      BY <1>2, OutcomeIs, BasicOutcomes DEF Link
    <2> QED
      BY <2>1 DEF Fine
  <1>3. CASE Found(d) /\ Found(i) /\ o # Outcome(f, "ok", TRUE)
    <2>1. o \in Then(Access(f), LAMBDA g : Rest(g))
      BY <1>3 DEF Link
    <2>2. /\ i.at \in f.bitmap /\ f.mode[i.at] # "dir" /\ d.at \in Dirs(f) /\ n \in Names
          /\ f.ents[d.at][n] = <<>> /\ FsType(f) /\ f.bitmap \subseteq Inodes
          /\ \A e \in Dirs(f) : e \in f.bitmap
      BY <1>3, Parents DEF Dirs, Good, Shape
    <2>3. PICK k : k = AddLinks(f, i.at, 1)
      OBVIOUS
    <2> HIDE DEF Rest, d, i, n
    <2>4. /\ Replaced(f, k, "links") /\ k.links[i.at] = f.links[i.at] + 1
          /\ \A j \in Inodes : j # i.at => k.links[j] = f.links[j]
      BY <2>2, <2>3, AddLinksIs
    <2>5. /\ FsType(k) /\ k.mode = f.mode /\ k.bitmap = f.bitmap /\ k.ents = f.ents
          /\ k.dotdot = f.dotdot
      BY <2>4 DEF Replaced
    <2>6. \A j \in f.bitmap : k.links[j] = IF j = i.at THEN f.links[j] + 1 ELSE f.links[j]
      BY <2>2, <2>4
    <2>7. Good(k)
      <3>2. \A j \in f.bitmap : f.links[j] \in Nat
        BY <2>2 DEF FsType
      <3>1. \A j \in f.bitmap : k.links[j] >= f.links[j]
        BY <2>6, <3>2
      <3> QED
        BY <2>5, <3>1, LinksMore
    <2>8. ASSUME NEW front \in BOOLEAN, NEW g, g = AddEntry(k, d.at, n, i.at, front)
          PROVE  Good(g) /\ (Exact(f) => Exact(g))
      <3>1. /\ Replaced(k, g, "ents")
            /\ \A e \in Inodes, x \in Names :
                  g.ents[e][x] = IF e = d.at /\ x = n THEN <<i.at>> ELSE k.ents[e][x]
        BY <2>2, <2>5, <2>8, AddEntryIs
      <3>2. /\ FsType(g) /\ g.mode = f.mode /\ g.bitmap = f.bitmap /\ g.dotdot = f.dotdot
            /\ g.links = k.links
        BY <2>5, <3>1 DEF Replaced
      <3>3. \A e \in Dirs(f), x \in Names :
               g.ents[e][x] = IF e = d.at /\ x = n THEN <<i.at>> ELSE f.ents[e][x]
        BY <2>2, <2>5, <3>1
      <3> QED
        BY <2>2, <2>6, <3>2, <3>3, NameMore
    <2>9. PICK a \in Access(f) :
              o \in IF a.ret # "ok" THEN {a}
                    ELSE {[q EXCEPT !.hit = @ \/ a.hit] : q \in Rest(a.fs)}
      BY <2>1, Zenon DEF Then
    <2>10. CASE Is(a, f, "pos", TRUE)
      <3>1. o = a
        BY <2>9, <2>10 DEF Is
      <3> QED
        BY <2>10, <3>1 DEF Fine
    <2>11. CASE Is(a, f, "ok", FALSE)
      <3>1. PICK q \in Rest(f) : o = [q EXCEPT !.hit = @ \/ FALSE]
        BY <2>9, <2>11 DEF Is
      <3>2. PICK b \in In(f) :
                \/ b.ret # "ok" /\ q = b
                \/ /\ b.ret = "ok"
                   /\ \A g, hit : Is(b, g, "ok", hit) => Is(q, g, "ok", hit) \/ Is(q, g, "pos", TRUE)
        BY <3>1, ThenAccess DEF Rest
      <3>3. \/ Is(b, f, "pos", TRUE) \/ Is(b, k, "pos", TRUE) \/ Is(b, k, "full", FALSE)
            \/ \E front \in BOOLEAN : Is(b, AddEntry(k, d.at, n, i.at, front), "ok", FALSE)
        BY <2>2, <2>3, <2>5, <3>2, LinkCountedIs DEF Dirs
      <3>4. CASE Is(b, f, "pos", TRUE) \/ Is(b, k, "pos", TRUE)
        <4>1. Is(o, f, "pos", TRUE) \/ Is(o, k, "pos", TRUE)
          BY <3>1, <3>2, <3>4 DEF Is
        <4> QED
          BY <2>7, <4>1 DEF Fine
      <3>6. CASE Is(b, k, "full", FALSE)
        <4>1. Is(o, k, "full", FALSE)
          BY <3>1, <3>2, <3>6 DEF Is
        <4>2. "linkWhenFull" \in Habits
          BY <4>1 DEF Is, Habit
        <4> QED
          BY <2>7, <4>1, <4>2 DEF Fine
      <3>5. ASSUME NEW front \in BOOLEAN, Is(b, AddEntry(k, d.at, n, i.at, front), "ok", FALSE)
            PROVE  \E g, ret, hit : Is(o, g, ret, hit) /\ Fine(f, g, ret, hit)
        <4>1. PICK g : g = AddEntry(k, d.at, n, i.at, front)
          OBVIOUS
        <4>2. Is(q, g, "ok", FALSE) \/ Is(q, g, "pos", TRUE)
          BY <3>2, <3>5, <4>1 DEF Is
        <4>3. Is(o, g, "ok", FALSE) \/ Is(o, g, "pos", TRUE)
          BY <3>1, <4>2 DEF Is
        <4> QED
          BY <2>8, <4>1, <4>3 DEF Fine
      <3> QED
        BY <3>3, <3>4, <3>5, <3>6
    <2> QED
      BY <2>9, <2>10, <2>11, BasicOutcomes
  <1> QED
    BY <1>1, <1>2, <1>3

-----------------------------------------------------------------------------
(* unlink and rmdir *)

\* g is f with another count for i, which may have become free.
Touched(f, g, i) ==
    /\ FsType(g) /\ g.mode = f.mode /\ g.ents = f.ents /\ g.dotdot = f.dotdot
    /\ g.bitmap = f.bitmap \/ g.bitmap = f.bitmap \ {i}
    /\ \A j \in Inodes : j # i => g.links[j] = f.links[j]
\* One link less, and after the last one i is free, unless the disk fails.
Uncounted(f, g, i, hit) ==
    /\ Touched(f, g, i)
    /\ g.bitmap = f.bitmap \/ f.links[i] <= 1
    /\ g.links[i] = f.links[i] \/ g.links[i] = f.links[i] - 1
    /\ ~hit /\ f.links[i] >= 1 => g.links[i] = f.links[i] - 1
    /\ ~hit /\ f.links[i] = 1 => g.bitmap = f.bitmap \ {i}
    /\ ~hit /\ f.links[i] # 1 => g.bitmap = f.bitmap

LEMMA RemoveInodeIs ==
    ASSUME NEW f, FsType(f), NEW i \in Inodes, NEW o \in RemoveInode(f, i)
    PROVE  \E g, ret, hit : Is(o, g, ret, hit) /\ (ret # "ok" => hit) /\ Uncounted(f, g, i, hit)
  <1>1. f.links[i] \in Nat
    BY DEF FsType
  <1>2. PICK g : g = DropLink(f, i)
    OBVIOUS
  <1>3. Uncounted(f, f, i, TRUE) /\ (f.links[i] = 0 => Uncounted(f, f, i, FALSE))
    BY <1>1 DEF Uncounted, Touched
  <1>4. f.links[i] >= 1 => Replaced(f, g, "links") /\ g.links[i] = f.links[i] - 1
                           /\ \A j \in Inodes : j # i => g.links[j] = f.links[j]
    BY <1>2, DropLinkIs
  <1>5. f.links[i] >= 1 => FsType(g) /\ Touched(f, g, i) /\ Uncounted(f, g, i, TRUE)
    BY <1>1, <1>4 DEF Replaced, Touched, Uncounted
  <1>6. CASE f.links[i] = 0
    <2>1. o \in Access(f)
      BY <1>6 DEF RemoveInode
    <2>2. Is(o, f, "ok", FALSE) \/ Is(o, f, "pos", TRUE)
      BY <2>1, BasicOutcomes
    <2> QED
      BY <1>3, <1>6, <2>2
  <1>7. CASE f.links[i] > 1
    <2>0. f.links[i] # 0
      BY <1>1, <1>7
    <2>1. o \in Write(f, g)
      BY <1>2, <1>7, <2>0, Zenon DEF RemoveInode
    <2>2. Is(o, g, "ok", FALSE) \/ Is(o, f, "pos", TRUE)
      BY <2>1, BasicOutcomes
    <2>3. Uncounted(f, g, i, FALSE)
      BY <1>1, <1>4, <1>5, <1>7 DEF Uncounted, Replaced
    <2> QED
      BY <1>3, <2>2, <2>3
  <1>8. CASE f.links[i] = 1
    <2>1. PICK h, k : h = Release(g, i) /\ k = Release(f, i)
      OBVIOUS
    <2>2. \/ o \in Ok(h) \/ o = Outcome(g, "ok", TRUE) \/ o = Outcome(g, "pos", TRUE)
          \/ o \in DiskFails(f) \/ o \in DiskFails(k)
      <3>1. ~(f.links[i] > 1) /\ f.links[i] # 0
        BY <1>8
      <3>2. RemoveInode(f, i) = Ok(h) \cup {Outcome(g, "ok", TRUE), Outcome(g, "pos", TRUE)}
                                \cup DiskFails(f) \cup DiskFails(k)
        BY <1>2, <2>1, <3>1, Zenon DEF RemoveInode
      <3> QED
        BY <3>2, Zenon
    <2>3. \/ Is(o, h, "ok", FALSE) \/ Is(o, g, "ok", TRUE) \/ Is(o, g, "pos", TRUE)
          \/ Is(o, f, "pos", TRUE) \/ Is(o, k, "pos", TRUE)
      BY <2>2, BasicOutcomes, OutcomeIs
    <2>4. /\ Replaced(g, h, "bitmap") /\ h.bitmap = g.bitmap \ {i}
          /\ Replaced(f, k, "bitmap") /\ k.bitmap = f.bitmap \ {i}
      BY <1>5, <1>8, <2>1, BitmapIs
    <2>5. Uncounted(f, h, i, FALSE)
      BY <1>4, <1>8, <2>4 DEF Uncounted, Touched, Replaced
    <2>6. Uncounted(f, k, i, TRUE)
      BY <1>8, <2>4 DEF Uncounted, Touched, Replaced
    <2>7. Uncounted(f, g, i, TRUE) /\ Uncounted(f, f, i, TRUE)
      <3>1. f.links[i] >= 1
        BY <1>8
      <3> QED
        BY <1>3, <1>5, <3>1, Zenon
    <2> QED
      BY <2>3, <2>5, <2>6, <2>7, Zenon
  <1> QED
    BY <1>1, <1>6, <1>7, <1>8

LEMMA RemoveDirIs ==
    ASSUME NEW f, FsType(f), NEW i \in Inodes, NEW o \in RemoveDir(f, i)
    PROVE  \E g, ret, hit : /\ Is(o, g, ret, hit) /\ (ret # "ok" => hit) /\ Touched(f, g, i)
                            /\ ~hit /\ f.links[i] = 2 => g.bitmap = f.bitmap \ {i}
  <1> DEFINE Rest(g) == RemoveInode(g, i)
  <1>1. o \in Then(RemoveInode(f, i), LAMBDA g : Rest(g))
    BY DEF RemoveDir
  <1> HIDE DEF Rest
  <1>2. PICK a \in RemoveInode(f, i) :
            o \in IF a.ret # "ok" THEN {a}
                  ELSE {[q EXCEPT !.hit = @ \/ a.hit] : q \in Rest(a.fs)}
    BY <1>1, Zenon DEF Then
  <1>3. PICK g, ret, hit : Is(a, g, ret, hit) /\ (ret # "ok" => hit) /\ Uncounted(f, g, i, hit)
    BY RemoveInodeIs
  <1>4. CASE ret # "ok"
    <2>1. o = a
      BY <1>2, <1>3, <1>4 DEF Is
    <2> QED
      BY <1>3, <1>4, <2>1 DEF Uncounted
  <1>5. CASE ret = "ok"
    <2>1. PICK q \in RemoveInode(g, i) : o = [q EXCEPT !.hit = @ \/ hit]
      BY <1>2, <1>3, <1>5 DEF Is, Rest
    <2>2. FsType(g) /\ hit \in BOOLEAN
      BY <1>3 DEF Uncounted, Touched, Is
    <2>3. PICK h, ret2, hit2 : Is(q, h, ret2, hit2) /\ (ret2 # "ok" => hit2) /\ Uncounted(g, h, i, hit2)
      BY <2>1, <2>2, RemoveInodeIs
    <2>4. Is(o, h, ret2, hit2 \/ hit)
      BY <2>1, <2>2, <2>3, AfterIs
    <2>5. Touched(f, h, i)
      BY <1>3, <2>3 DEF Uncounted, Touched
    <2>6. ~hit /\ ~hit2 /\ f.links[i] = 2 => h.bitmap = f.bitmap \ {i}
      BY <1>3, <2>3 DEF Uncounted
    <2> QED
      BY <2>3, <2>4, <2>5, <2>6
  <1> QED
    BY <1>4, <1>5

\* The links of an i that has a name in d.
LEMMA LinksAtLeast ==
    ASSUME NEW f, Good(f), NEW d, NEW n, NEW i, At(f, d, n, i)
    PROVE  /\ d \in Dirs(f) /\ d \in f.bitmap /\ d \in Inodes /\ n \in Names /\ i \in f.bitmap /\ i \in Inodes
           /\ f.links[i] \in Nat /\ f.links[i] >= 1 /\ f.links[d] \in Nat
           /\ f.links[i] = 1 => Cardinality(Places(f, i)) = 1 /\ f.mode[i] # "dir"
           /\ Stuck(f, i) => d # i
           /\ f.mode[i] = "dir" =>
                 /\ f.links[i] >= 2 /\ Cardinality(Places(f, i)) = 1 /\ f.dotdot[i] = d
                 /\ Held(f, d) => f.links[d] >= 2
                 /\ Stuck(f, i) /\ Exact(f) => f.links[i] = 2
  <1>0. /\ FsType(f) /\ RootIno \in Dirs(f) /\ f.dotdot[RootIno] = RootIno
        /\ Slots(f) /\ OneParent(f) /\ Enough(f)
    BY DEF Good, Shape
  <1>1. /\ d \in Dirs(f) /\ d \in f.bitmap /\ n \in Names /\ i \in f.bitmap /\ i # RootIno
        /\ f.bitmap \subseteq Inodes /\ f.mode[d] = "dir"
    BY <1>0, InUse DEF FsType, Dirs
  <1>2. /\ f.links[i] \in Nat /\ f.links[d] \in Nat
        /\ \A j : /\ Cardinality(Places(f, j)) \in Nat /\ Cardinality(Kids(f, j)) \in Nat
                  /\ IsFiniteSet(Places(f, j)) /\ IsFiniteSet(Kids(f, j))
    <2>1. f.links[i] \in Nat /\ f.links[d] \in Nat
      BY <1>0, <1>1 DEF FsType
    <2> QED
      BY <1>0, <2>1, Finite
  <1>3. <<d, n, 1>> \in Places(f, i) /\ Held(f, i)
    BY <1>0, Places3 DEF Held
  <1>4. Cardinality(Places(f, i)) >= 1
    BY <1>2, <1>3, FS_EmptySet
  <1>5. f.links[i] >= Need(f, i)
    BY <1>0, <1>1, <1>3 DEF Enough
  <1>6. f.mode[i] = "dir" => Need(f, i) = Cardinality(Places(f, i)) + (1 + Cardinality(Kids(f, i)))
    BY DEF Need
  <1>7. f.mode[i] # "dir" => Need(f, i) = Cardinality(Places(f, i)) + 0
    BY DEF Need
  <1>8. f.links[i] >= 1 /\ (f.links[i] = 1 => Cardinality(Places(f, i)) = 1 /\ f.mode[i] # "dir")
    BY <1>2, <1>4, <1>5, <1>6, <1>7
  <1>9. Stuck(f, i) => d # i
    BY <1>1, Single DEF At, Stuck
  <1>10. ASSUME f.mode[i] = "dir"
         PROVE  /\ f.links[i] >= 2 /\ Cardinality(Places(f, i)) = 1 /\ f.dotdot[i] = d
                /\ Held(f, d) => f.links[d] >= 2
                /\ Stuck(f, i) /\ Exact(f) => f.links[i] = 2
    <2>1. i \in Dirs(f)
      BY <1>1, <1>10 DEF Dirs
    <2>2. f.dotdot[i] = d /\ \A e, m : At(f, e, m, i) => e = d /\ m = n
      BY <1>0, <2>1 DEF OneParent
    <2>3. Cardinality(Places(f, i)) = 1
      <3>1. Places(f, i) = {<<d, n, 1>>}
        BY <1>0, <1>3, <2>2, Places3
      <3> QED
        BY <3>1, FS_Singleton
    <2>4. ASSUME Held(f, d) PROVE f.links[d] >= 2
      <3>1. i \in Kids(f, d)
        BY <1>3, <2>1, <2>2 DEF Kids
      <3>2. Cardinality(Kids(f, d)) >= 1
        BY <1>2, <3>1, FS_EmptySet
      <3>3. f.links[d] >= Need(f, d)
        BY <1>0, <1>1, <2>4 DEF Enough
      <3>4. Need(f, d) = Cardinality(Places(f, d)) + (1 + Cardinality(Kids(f, d)))
        BY <1>1 DEF Need
      <3> QED
        BY <1>2, <3>2, <3>3, <3>4
    <2>5. ASSUME Stuck(f, i), Exact(f) PROVE f.links[i] = 2
      <3>1. \A k : k \notin Kids(f, i)
        <4> SUFFICES ASSUME NEW k \in Kids(f, i) PROVE FALSE
          OBVIOUS
        <4>1. k \in Dirs(f) /\ Held(f, k) /\ f.dotdot[k] = i
          BY DEF Kids
        <4>2. PICK e, x : At(f, e, x, k)
          BY <1>0, <1>1, <4>1 DEF Held
        <4>3. At(f, i, x, k)
          BY <1>0, <4>1, <4>2 DEF OneParent
        <4> QED
          BY <1>10, <2>5, <4>3, Single DEF At, Stuck
      <3>2. Cardinality(Kids(f, i)) = 0
        <4>1. Kids(f, i) = {}
          BY <3>1
        <4> QED
          BY <4>1, FS_EmptySet
      <3>3. f.links[i] = Need(f, i)
        BY <1>1, <2>5 DEF Exact, Counted
      <3> QED
        BY <1>6, <1>10, <2>3, <3>2, <3>3
    <2> QED
      BY <1>2, <1>5, <1>6, <1>10, <2>2, <2>3, <2>4, <2>5
  <1> QED
    BY <1>1, <1>2, <1>8, <1>9, <1>10

\* i has lost its name n in d, and perhaps was freed.
Lost(f, g, d, n, i, hit) ==
    /\ At(f, d, n, i) /\ Good(g) /\ g.mode = f.mode /\ g.dotdot = f.dotdot
    /\ g.bitmap = f.bitmap \/ g.bitmap = f.bitmap \ {i}
    /\ \A e \in Dirs(f), x \in Names :
          g.ents[e][x] = IF e = d /\ x = n THEN <<>> ELSE f.ents[e][x]
    /\ ~hit => Stuck(f, i) /\ (Exact(f) => Exact(g))

LEMMA TargetAt ==
    ASSUME NEW f, Good(f), NEW path \in Paths, NEW d, d = Namei(f, Front(path)), Found(d),
           f.mode[d.at] = "dir", NEW i, i = Namei(f, path), Found(i)
    PROVE  At(f, d.at, Last(path), i.at) /\ Held(f, d.at)
  <1>1. /\ path \in Seq(Names) /\ path # <<>> /\ Last(path) \in Names /\ Walks(f, d)
        /\ d.at \in f.bitmap /\ Shape(f)
    BY Parents DEF Good
  <1>2. PICK follow \in BOOLEAN : follow = FALSE
    OBVIOUS
  <1>3. PICK s : s = f.ents[d.at][Last(path)]
    OBVIOUS
  <1>4. d = Walk(f, Front(path), follow)
    BY <1>2 DEF Namei
  <1>5. s # <<>> /\ i.at = Head(s)
    BY <1>1, <1>3, <1>4, LastName
  <1>6. d.at \in Dirs(f)
    BY <1>1 DEF Dirs
  <1>7. \E k \in f.bitmap : s = <<k>>
    BY <1>1, <1>3, <1>5, <1>6 DEF Shape, Slots
  <1>8. s = <<i.at>>
    BY <1>5, <1>7, Single
  <1> QED
    BY <1>1, <1>3, <1>6, <1>8 DEF At, Walks

LEMMA UnlinkNameIs ==
    ASSUME NEW f, NEW path, NEW o \in UnlinkFileByName(f, path),
           NEW d, d = Namei(f, Front(path)), NEW h, h = DropEntry(f, d.at, Last(path))
    PROVE  \/ /\ ~(Found(d) /\ f.mode[d.at] = "dir" /\ f.ents[d.at][Last(path)] # <<>>)
              /\ Is(o, f, "neg", FALSE)
           \/ /\ Found(d) /\ f.mode[d.at] = "dir" /\ f.ents[d.at][Last(path)] # <<>>
              /\ Is(o, f, "pos", TRUE) \/ Is(o, h, "ok", FALSE) \/ Is(o, h, "pos", TRUE)
  <1> DEFINE bad == ~Found(d) \/ f.mode[d.at] # "dir" \/ f.ents[d.at][Last(path)] = <<>>
  <1>1. CASE bad
    <2>1. o \in Fails(f)
      BY <1>1 DEF UnlinkFileByName
    <2> QED
      BY <1>1, <2>1, BasicOutcomes
  <1>2. CASE ~bad
    <2>1. o \in Then(Write(f, h), Access)
      BY <1>2 DEF UnlinkFileByName
    <2>2. PICK a \in Write(f, h) :
              \/ a.ret # "ok" /\ o = a
              \/ /\ a.ret = "ok"
                 /\ \A g, hit : Is(a, g, "ok", hit) => Is(o, g, "ok", hit) \/ Is(o, g, "pos", TRUE)
      BY <2>1, ThenAccess
    <2>3. Is(a, h, "ok", FALSE) \/ Is(a, f, "pos", TRUE)
      BY <2>2, BasicOutcomes
    <2>4. Is(o, f, "pos", TRUE) \/ Is(o, h, "ok", FALSE) \/ Is(o, h, "pos", TRUE)
      BY <2>2, <2>3 DEF Is
    <2> QED
      BY <1>2, <2>4
  <1> QED
    BY <1>1, <1>2

LEMMA DropAt ==
    ASSUME NEW f, Good(f), NEW d, NEW n, NEW i, At(f, d, n, i), NEW h, h = DropEntry(f, d, n)
    PROVE  /\ FsType(h) /\ h.mode = f.mode /\ h.links = f.links /\ h.bitmap = f.bitmap
           /\ h.dotdot = f.dotdot
           /\ \A e \in Dirs(f), x \in Names :
                 h.ents[e][x] = IF e = d /\ x = n THEN <<>> ELSE f.ents[e][x]
  <1>1. FsType(f) /\ d \in Inodes /\ n \in Names /\ f.ents[d][n] = <<i>>
    BY LinksAtLeast DEF Good, Shape, At
  <1>2. /\ Replaced(f, h, "ents")
        /\ \A e \in Inodes, x \in Names :
              h.ents[e][x] = IF e = d /\ x = n THEN <<>> ELSE f.ents[e][x]
    BY <1>1, DropEntryIs
  <1>3. \A e \in Dirs(f) : e \in Inodes
    BY <1>1 DEF Dirs, FsType
  <1> QED
    BY <1>2, <1>3 DEF Replaced

LEMMA UnlinkLost ==
    ASSUME NEW f, Good(f), NEW d, NEW n, NEW i, At(f, d, n, i), NEW h, h = DropEntry(f, d, n),
           NEW failed, NEW g, Uncounted(h, g, i, failed),
           NEW hit \in BOOLEAN, failed => hit, f.mode[i] = "dir" => hit
    PROVE  Lost(f, g, d, n, i, hit)
  <1>1. /\ FsType(h) /\ h.mode = f.mode /\ h.links = f.links /\ h.bitmap = f.bitmap
        /\ h.dotdot = f.dotdot
        /\ \A e \in Dirs(f), x \in Names :
              h.ents[e][x] = IF e = d /\ x = n THEN <<>> ELSE f.ents[e][x]
    BY ONLY Good(f), At(f, d, n, i), h = DropEntry(f, d, n), DropAt
  <1>2. /\ i \in f.bitmap /\ f.bitmap \subseteq Inodes /\ f.links[i] \in Nat /\ f.links[i] >= 1
        /\ f.links[i] = 1 => Cardinality(Places(f, i)) = 1 /\ f.mode[i] # "dir"
    <2>1. f.bitmap \subseteq Inodes
      BY DEF Good, Shape, FsType
    <2>2. /\ i \in f.bitmap /\ f.links[i] \in Nat /\ f.links[i] >= 1
          /\ f.links[i] = 1 => Cardinality(Places(f, i)) = 1 /\ f.mode[i] # "dir"
      BY ONLY Good(f), At(f, d, n, i), LinksAtLeast
    <2> QED
      BY <2>1, <2>2
  <1>3. /\ FsType(g) /\ g.mode = f.mode /\ g.dotdot = f.dotdot
        /\ g.bitmap = f.bitmap \/ (g.bitmap = f.bitmap \ {i} /\ f.links[i] = 1)
        /\ \A e \in Dirs(f), x \in Names :
              g.ents[e][x] = IF e = d /\ x = n THEN <<>> ELSE f.ents[e][x]
        /\ g.bitmap \subseteq f.bitmap
    BY <1>1, <1>2 DEF Uncounted, Touched
  <1>4. \A j \in g.bitmap : g.links[j] = f.links[j] \/ (j = i /\ g.links[j] = f.links[j] - 1)
    BY <1>1, <1>2, <1>3 DEF Uncounted, Touched
  <1>5. /\ Good(g)
        /\ /\ Exact(f)
           /\ i \in g.bitmap => f.mode[i] # "dir" /\ g.links[i] = f.links[i] - 1 /\ g.links[i] >= 1
           /\ f.mode[i] = "dir" => g.links[d] = f.links[d] - 1
           => Exact(g)
    BY <1>2, <1>3, <1>4, NameLess
  <1>6. ~hit => f.mode[i] # "dir" /\ (i \in g.bitmap => g.links[i] = f.links[i] - 1 /\ g.links[i] >= 1)
    BY <1>1, <1>2 DEF Uncounted
  <1> QED
    BY <1>3, <1>5, <1>6 DEF Lost, Stuck

\* unlink and rmdir change nothing, or take the name from the file.
Removed(f, path, g, ret, hit) ==
    \/ g = f /\ ret # "ok"
    \/ /\ Found(Namei(f, path)) /\ Found(Namei(f, Front(path)))
       /\ Lost(f, g, Namei(f, Front(path)).at, Last(path), Namei(f, path).at, hit)
       /\ ~hit => ret = "ok"

LEMMA NotRemoved == ASSUME NEW f, NEW path, NEW ret, ret # "ok"
                    PROVE  \A hit : Removed(f, path, f, ret, hit)
  BY DEF Removed

LEMMA UnlinkIs ==
    ASSUME NEW f, Good(f), NEW path \in Paths, NEW o \in Unlink(f, path)
    PROVE  \E g, ret, hit : Is(o, g, ret, hit) /\ Removed(f, path, g, ret, hit)
  <1> DEFINE i == Namei(f, path)
             d == Namei(f, Front(path))
             h == DropEntry(f, d.at, Last(path))
             Rest(g) == RemoveInode(g, i.at)
             remove == Then(UnlinkFileByName(f, path), LAMBDA g : Rest(g))
  <1>1. CASE ~Found(i)
    <2>1. Is(o, f, "neg", FALSE)
      BY <1>1, BasicOutcomes DEF Unlink
    <2> QED
      BY <2>1, NotRemoved
  <1>2. CASE Found(i)
    <2>1. \/ o \in DiskFails(f) \cup Fails(f)
          \/ o \in remove /\ f.mode[i.at] # "dir"
          \/ \E q \in remove : o = [q EXCEPT !.hit = TRUE]
      BY <1>2, Zenon DEF Unlink
    <2>2. ASSUME NEW q \in remove
          PROVE  \E g, ret, failed : /\ Is(q, g, ret, failed)
                                     /\ \A hit \in BOOLEAN :
                                          (failed => hit) /\ (f.mode[i.at] = "dir" => hit)
                                          => Removed(f, path, g, ret, hit)
      <3> HIDE DEF Rest
      <3>1. PICK a \in UnlinkFileByName(f, path) :
                q \in IF a.ret # "ok" THEN {a}
                      ELSE {[p EXCEPT !.hit = @ \/ a.hit] : p \in Rest(a.fs)}
        BY <2>2, Zenon DEF Then
      <3>2. CASE Is(a, f, "neg", FALSE) \/ Is(a, f, "pos", TRUE)
        <4>1. q = a
          BY <3>1, <3>2 DEF Is
        <4> QED
          BY <3>2, <4>1, NotRemoved
      <3>3. CASE Found(d) /\ f.mode[d.at] = "dir" /\ (Is(a, h, "ok", FALSE) \/ Is(a, h, "pos", TRUE))
        <4>1. At(f, d.at, Last(path), i.at)
          BY <1>2, <3>3, TargetAt
        <4>2. FsType(h) /\ i.at \in Inodes
          BY <4>1, DropAt, LinksAtLeast
        <4>3. \E g, ret, failed : Is(q, g, ret, failed) /\ (ret # "ok" => failed) /\ Uncounted(h, g, i.at, failed)
          <5>1. CASE Is(a, h, "pos", TRUE)
            <6>1. q = a
              BY <3>1, <5>1 DEF Is
            <6>2. Uncounted(h, h, i.at, TRUE)
              BY <4>2 DEF Uncounted, Touched
            <6> QED
              BY <5>1, <6>1, <6>2
          <5>2. CASE Is(a, h, "ok", FALSE)
            <6>1. PICK p \in RemoveInode(h, i.at) : q = [p EXCEPT !.hit = @ \/ FALSE]
              BY <3>1, <5>2 DEF Is, Rest
            <6>2. PICK g, ret, failed : Is(p, g, ret, failed) /\ (ret # "ok" => failed) /\ Uncounted(h, g, i.at, failed)
              BY <4>2, <6>1, RemoveInodeIs
            <6>3. Is(q, g, ret, failed)
              BY <6>1, <6>2 DEF Is
            <6> QED
              BY <6>2, <6>3
          <5> QED
            BY <3>3, <5>1, <5>2
        <4>4. PICK g, ret, failed : Is(q, g, ret, failed) /\ (ret # "ok" => failed) /\ Uncounted(h, g, i.at, failed)
          BY <4>3
        <4>5. \A hit \in BOOLEAN : (failed => hit) /\ (f.mode[i.at] = "dir" => hit)
                                   => Lost(f, g, d.at, Last(path), i.at, hit)
          BY <4>1, <4>4, UnlinkLost
        <4> QED
          BY <1>2, <3>3, <4>4, <4>5 DEF Removed
      <3> QED
        BY <3>1, <3>2, <3>3, UnlinkNameIs
    <2> HIDE DEF remove, i
    <2>3. CASE o \in DiskFails(f) \cup Fails(f)
      <3>1. Is(o, f, "pos", TRUE) \/ Is(o, f, "neg", FALSE)
        BY <2>3, BasicOutcomes
      <3> QED
        BY <3>1, NotRemoved
    <2>4. CASE o \in remove /\ f.mode[i.at] # "dir"
      <3>1. PICK g, ret, failed : /\ Is(o, g, ret, failed)
                                  /\ \A hit \in BOOLEAN : (failed => hit) /\ (f.mode[i.at] = "dir" => hit)
                                                          => Removed(f, path, g, ret, hit)
        BY <2>2, <2>4
      <3>2. failed \in BOOLEAN
        BY <3>1 DEF Is
      <3> QED
        BY <2>4, <3>1, <3>2
    <2>5. ASSUME NEW q \in remove, o = [q EXCEPT !.hit = TRUE]
          PROVE  \E g, ret, hit : Is(o, g, ret, hit) /\ Removed(f, path, g, ret, hit)
      <3>1. PICK g, ret, failed : /\ Is(q, g, ret, failed)
                                  /\ \A hit \in BOOLEAN : (failed => hit) /\ (f.mode[i.at] = "dir" => hit)
                                                          => Removed(f, path, g, ret, hit)
        BY <2>2, <2>5
      <3>2. PICK hit \in BOOLEAN : hit = TRUE
        OBVIOUS
      <3>3. Is(o, g, ret, hit)
        BY <2>5, <3>1, <3>2 DEF Is
      <3>4. Removed(f, path, g, ret, hit)
        BY <3>1, <3>2
      <3> QED
        BY <3>3, <3>4
    <2> QED
      BY <2>1, <2>3, <2>4, <2>5
  <1> QED
    BY <1>1, <1>2

LEMMA RmdirLost ==
    ASSUME NEW f, Good(f), NEW d, NEW n, NEW i, At(f, d, n, i), f.mode[i] = "dir", Stuck(f, i),
           Held(f, d), NEW h, h = DropEntry(f, d, n), NEW k, Touched(h, k, i),
           NEW g, \/ g = k
                  \/ /\ Replaced(k, g, "links") /\ g.links[d] = k.links[d] - 1
                     /\ \A j \in Inodes : j # d => g.links[j] = k.links[j],
           NEW hit \in BOOLEAN,
           ~hit => g # k \/ k.links[d] <= 1,
           ~hit /\ h.links[i] = 2 => k.bitmap = h.bitmap \ {i}
    PROVE  Lost(f, g, d, n, i, hit)
  <1>1. /\ FsType(h) /\ h.mode = f.mode /\ h.links = f.links /\ h.bitmap = f.bitmap
        /\ h.dotdot = f.dotdot
        /\ \A e \in Dirs(f), x \in Names :
              h.ents[e][x] = IF e = d /\ x = n THEN <<>> ELSE f.ents[e][x]
    BY ONLY Good(f), At(f, d, n, i), h = DropEntry(f, d, n), DropAt
  <1>2. /\ i \in f.bitmap /\ f.bitmap \subseteq Inodes /\ d \in Inodes /\ d # i
        /\ Cardinality(Places(f, i)) = 1 /\ f.links[d] >= 2 /\ f.links[d] \in Nat
        /\ Exact(f) => f.links[i] = 2
        /\ \A x \in Names : f.ents[i][x] = <<>>
    <2>1. f.bitmap \subseteq Inodes
      BY DEF Good, Shape, FsType
    <2>2. \A x \in Names : f.ents[i][x] = <<>>
      BY DEF Stuck
    <2> QED
      BY <2>1, <2>2, LinksAtLeast
  <1>3. /\ FsType(k) /\ k.mode = h.mode /\ k.ents = h.ents /\ k.dotdot = h.dotdot
        /\ k.bitmap = h.bitmap \/ k.bitmap = h.bitmap \ {i}
        /\ \A j \in Inodes : j # i => k.links[j] = h.links[j]
    BY DEF Touched
  <1>4. /\ FsType(g) /\ g.mode = k.mode /\ g.ents = k.ents /\ g.dotdot = k.dotdot /\ g.bitmap = k.bitmap
        /\ g.links[d] = k.links[d] \/ g.links[d] = k.links[d] - 1
        /\ \A j \in Inodes : j # d => g.links[j] = k.links[j]
    BY <1>3 DEF Replaced
  <1>5. \A e \in Dirs(f), x \in Names : g.ents[e][x] = IF e = d /\ x = n THEN <<>> ELSE f.ents[e][x]
    BY <1>1, <1>3, <1>4
  <1>6. \A j \in g.bitmap : \/ g.links[j] = f.links[j] \/ j = i
                            \/ j = d /\ g.links[j] = f.links[j] - 1
    BY <1>1, <1>2, <1>3, <1>4
  <1>7. /\ Good(g)
        /\ /\ Exact(f)
           /\ i \in g.bitmap => f.mode[i] # "dir" /\ g.links[i] = f.links[i] - 1 /\ g.links[i] >= 1
           /\ f.mode[i] = "dir" => g.links[d] = f.links[d] - 1
           => Exact(g)
    <2>1. /\ g.bitmap = f.bitmap \/ g.bitmap = f.bitmap \ {i}
          /\ g.mode = f.mode /\ g.dotdot = f.dotdot
      BY <1>1, <1>3, <1>4
    <2> QED
      BY <1>2, <1>4, <1>5, <1>6, <2>1, NameLess
  <1>8. ~hit /\ Exact(f) => i \notin g.bitmap /\ g.links[d] = f.links[d] - 1
    <2>1. k.links[d] = f.links[d] /\ ~(k.links[d] <= 1)
      BY <1>1, <1>2, <1>3
    <2>2. ~hit => g.links[d] = f.links[d] - 1
      BY <2>1
    <2> QED
      BY <1>1, <1>2, <1>4, <2>2
  <1> QED
    BY <1>1, <1>3, <1>4, <1>5, <1>7, <1>8 DEF Lost

LEMMA RmdirIs ==
    ASSUME NEW f, Good(f), NEW path \in Paths, NEW o \in Rmdir(f, path)
    PROVE  \E g, ret, hit : Is(o, g, ret, hit) /\ Removed(f, path, g, ret, hit)
  <1> DEFINE i == Namei(f, path)
             d == Namei(f, Front(path))
             n == Last(path)
             h == DropEntry(f, d.at, n)
             up == f.dotdot[i.at]
             Fewer(k) == IF k.links[up] > 1 THEN DropLink(k, up) ELSE k
             Rest3(k) == Write(k, Fewer(k))
             Rest2(m) == Then(RemoveDir(m, i.at), LAMBDA k : Rest3(k))
             Rest1(g) == Then(UnlinkFileByName(g, path), LAMBDA m : Rest2(m))
             bad == ~Found(i) \/ f.mode[i.at] # "dir" \/ ~IsEmpty(f, i.at)
  <1>1. CASE bad
    <2>1. o \in Fails(f)
      BY <1>1, Zenon DEF Rmdir
    <2>2. Is(o, f, "neg", FALSE)
      BY <2>1, BasicOutcomes
    <2> QED
      BY <2>2, NotRemoved
  <1>2. CASE ~bad
    <2>1. o \in Then(Access(f), LAMBDA g : Rest1(g))
      BY <1>2, Zenon DEF Rmdir
    <2> HIDE DEF Rest1
    <2>2. PICK a \in Access(f) :
              o \in IF a.ret # "ok" THEN {a}
                    ELSE {[q EXCEPT !.hit = @ \/ a.hit] : q \in Rest1(a.fs)}
      BY <2>1, Zenon DEF Then
    <2>3. CASE Is(a, f, "pos", TRUE)
      <3>1. o = a
        BY <2>2, <2>3 DEF Is
      <3> QED
        BY <2>3, <3>1, NotRemoved
    <2>4. CASE Is(a, f, "ok", FALSE)
      <3>1. PICK q \in Rest1(f) : o = [q EXCEPT !.hit = @ \/ FALSE]
        BY <2>2, <2>4 DEF Is
      <3>2. q \in Then(UnlinkFileByName(f, path), LAMBDA m : Rest2(m))
        BY <3>1 DEF Rest1
      <3> HIDE DEF Rest2
      <3>3. PICK b \in UnlinkFileByName(f, path) :
                q \in IF b.ret # "ok" THEN {b}
                      ELSE {[p EXCEPT !.hit = @ \/ b.hit] : p \in Rest2(b.fs)}
        BY <3>2, Zenon DEF Then
      <3>4. CASE Is(b, f, "neg", FALSE) \/ Is(b, f, "pos", TRUE)
        <4>1. q = b
          BY <3>3, <3>4 DEF Is
        <4>2. Is(o, f, "neg", FALSE) \/ Is(o, f, "pos", TRUE)
          BY <3>1, <3>4, <4>1 DEF Is
        <4> QED
          BY <4>2, NotRemoved
      <3>5. CASE Found(d) /\ f.mode[d.at] = "dir" /\ (Is(b, h, "ok", FALSE) \/ Is(b, h, "pos", TRUE))
        <4>1. At(f, d.at, n, i.at) /\ Held(f, d.at) /\ f.mode[i.at] = "dir" /\ Stuck(f, i.at)
          BY <1>2, <3>5, TargetAt DEF Stuck, IsEmpty
        <4>2. /\ FsType(h) /\ i.at \in Inodes /\ d.at \in Inodes /\ up = d.at /\ d.at # i.at
              /\ f.links[d.at] >= 2 /\ f.links[d.at] \in Nat /\ h.links = f.links
          BY <4>1, DropAt, LinksAtLeast
        <4> HIDE DEF h, up
        <4>3. \E g, ret, hit : Is(q, g, ret, hit) /\ (ret # "ok" => hit) /\ Lost(f, g, d.at, n, i.at, hit)
          <5>1. CASE Is(b, h, "pos", TRUE)
            <6>1. q = b
              BY <3>3, <5>1 DEF Is
            <6>2. Touched(h, h, i.at)
              BY <4>2 DEF Touched
            <6>3. Lost(f, h, d.at, n, i.at, TRUE)
              BY <4>1, <6>2, RmdirLost DEF h
            <6> QED
              BY <5>1, <6>1, <6>3
          <5>2. CASE Is(b, h, "ok", FALSE)
            <6>1. PICK p \in Rest2(h) : q = [p EXCEPT !.hit = @ \/ FALSE]
              BY <3>3, <5>2 DEF Is
            <6>2. p \in Then(RemoveDir(h, i.at), LAMBDA k : Rest3(k))
              BY <6>1 DEF Rest2
            <6> HIDE DEF Rest3
            <6>3. PICK c \in RemoveDir(h, i.at) :
                      p \in IF c.ret # "ok" THEN {c}
                            ELSE {[r EXCEPT !.hit = @ \/ c.hit] : r \in Rest3(c.fs)}
              BY <6>2, Zenon DEF Then
            <6>4. PICK k, ret, hit : /\ Is(c, k, ret, hit) /\ (ret # "ok" => hit) /\ Touched(h, k, i.at)
                                     /\ ~hit /\ h.links[i.at] = 2 => k.bitmap = h.bitmap \ {i.at}
              BY <4>2, RemoveDirIs
            <6>5. hit \in BOOLEAN
              BY <6>4 DEF Is
            <6>6. CASE ret # "ok"
              <7>1. p = c
                BY <6>3, <6>4, <6>6 DEF Is
              <7>2. Lost(f, k, d.at, n, i.at, hit)
                BY <4>1, <6>4, <6>5, <6>6, RmdirLost DEF h
              <7>3. Is(q, k, ret, hit)
                BY <6>1, <6>4, <6>5, <7>1 DEF Is
              <7> QED
                BY <6>4, <6>6, <7>2, <7>3
            <6>7. CASE ret = "ok"
              <7>1. PICK r \in Rest3(k) : p = [r EXCEPT !.hit = @ \/ hit]
                BY <6>3, <6>4, <6>7 DEF Is
              <7>2. PICK g : g = Fewer(k)
                OBVIOUS
              <7>3. Is(r, g, "ok", FALSE) \/ Is(r, k, "pos", TRUE)
                BY <7>1, <7>2, BasicOutcomes DEF Rest3
              <7>4. Is(p, g, "ok", FALSE \/ hit) \/ Is(p, k, "pos", TRUE \/ hit)
                BY <6>5, <7>1, <7>3, AfterIs
              <7>5. Is(q, g, "ok", hit) \/ Is(q, k, "pos", TRUE)
                BY <6>1, <6>5, <7>4 DEF Is
              <7>6. Lost(f, k, d.at, n, i.at, TRUE)
                BY <4>1, <6>4, RmdirLost DEF h
              <7>7. Lost(f, g, d.at, n, i.at, hit)
                <8>1. k.links[d.at] > 1 /\ k.links[d.at] >= 1 /\ k.links[d.at] \in Nat /\ FsType(k)
                  BY <4>2, <6>4 DEF Touched
                <8>2. g = DropLink(k, d.at)
                  BY <4>2, <7>2, <8>1
                <8>3. /\ Replaced(k, g, "links") /\ g.links[d.at] = k.links[d.at] - 1
                      /\ \A j \in Inodes : j # d.at => g.links[j] = k.links[j]
                  BY <4>2, <8>1, <8>2, DropLinkIs
                <8>4. g # k
                  BY <8>1, <8>3
                <8> QED
                  BY <4>1, <6>4, <6>5, <8>3, <8>4, RmdirLost DEF h
              <7> QED
                BY <7>5, <7>6, <7>7
            <6> QED
              BY <6>6, <6>7
          <5> QED
            BY <3>5, <5>1, <5>2
        <4>4. PICK g, ret, hit : Is(q, g, ret, hit) /\ (ret # "ok" => hit) /\ Lost(f, g, d.at, n, i.at, hit)
          BY <4>3
        <4>5. Is(o, g, ret, hit)
          BY <3>1, <4>4 DEF Is
        <4>6. Removed(f, path, g, ret, hit)
          BY <1>2, <3>5, <4>4 DEF Removed
        <4> QED
          BY <4>5, <4>6
      <3> QED
        BY <3>3, <3>4, <3>5, UnlinkNameIs
    <2> QED
      BY <2>2, <2>3, <2>4, BasicOutcomes
  <1> QED
    BY <1>1, <1>2

LEMMA RemovedFine ==
    ASSUME NEW f, Good(f), NEW path, NEW g, NEW ret, NEW hit, Removed(f, path, g, ret, hit)
    PROVE  Fine(f, g, ret, hit)
  BY DEF Removed, Lost, Fine

-----------------------------------------------------------------------------
(* rename *)

SetParent(f, i, d) == [f EXCEPT !.dotdot[i] = d]
Moved(f, i, fromDir, toDir) == AddLinks(DropLink(SetParent(f, i, toDir), fromDir), toDir, 1)

LEMMA SetParentIs ==
    ASSUME NEW f, FsType(f), NEW i \in Inodes, NEW d \in Inodes, NEW g, g = SetParent(f, i, d)
    PROVE  /\ Replaced(f, g, "dotdot")
           /\ g.dotdot[i] = d /\ \A j \in Inodes : j # i => g.dotdot[j] = f.dotdot[j]
  <1>1. PICK w : w = [f.dotdot EXCEPT ![i] = d]
    OBVIOUS
  <1>2. w \in [Inodes -> Inodes] /\ w[i] = d /\ \A j \in Inodes : j # i => w[j] = f.dotdot[j]
    BY <1>1 DEF FsType
  <1>3. g = SetDotdot(f, w)
    BY <1>1 DEF SetParent, SetDotdot
  <1>4. Replaced(f, g, "dotdot") /\ g.dotdot = w
    BY <1>2, <1>3, ReplaceDotdot
  <1> QED
    BY <1>2, <1>4

LEMMA MoveDirIs ==
    ASSUME NEW f, NEW i, NEW fromDir, NEW toDir, NEW o \in MoveDir(f, i, fromDir, toDir)
    PROVE  \E g, ret, hit : /\ Is(o, g, ret, hit)
                            /\ ~hit => ret = "ok" /\ g = Moved(f, i, fromDir, toDir)
  <1> DEFINE Rest2(h) == Write(h, AddLinks(h, toDir, 1))
             Rest1(g) == Then(Write(g, DropLink(g, fromDir)), LAMBDA h : Rest2(h))
  <1>1. PICK g1 : g1 = SetParent(f, i, toDir)
    OBVIOUS
  <1>2. PICK g2 : g2 = DropLink(g1, fromDir)
    OBVIOUS
  <1>3. PICK g3 : g3 = AddLinks(g2, toDir, 1)
    OBVIOUS
  <1>4. g3 = Moved(f, i, fromDir, toDir)
    BY <1>1, <1>2, <1>3 DEF Moved
  <1>5. o \in Then(Write(f, g1), LAMBDA g : Rest1(g))
    BY <1>1, Zenon DEF MoveDir, SetParent
  <1> HIDE DEF Rest1
  <1>6. PICK a \in Write(f, g1) :
            o \in IF a.ret # "ok" THEN {a}
                  ELSE {[q EXCEPT !.hit = @ \/ a.hit] : q \in Rest1(a.fs)}
    BY <1>5, Zenon DEF Then
  <1>7. CASE Is(a, f, "pos", TRUE)
    BY <1>6, <1>7 DEF Is
  <1>8. CASE Is(a, g1, "ok", FALSE)
    <2>1. PICK q \in Rest1(g1) : o = [q EXCEPT !.hit = @ \/ FALSE]
      BY <1>6, <1>8 DEF Is
    <2>2. q \in Then(Write(g1, g2), LAMBDA h : Rest2(h))
      BY <1>2, <2>1 DEF Rest1
    <2> HIDE DEF Rest2
    <2>3. PICK b \in Write(g1, g2) :
              q \in IF b.ret # "ok" THEN {b}
                    ELSE {[p EXCEPT !.hit = @ \/ b.hit] : p \in Rest2(b.fs)}
      BY <2>2, Zenon DEF Then
    <2>4. Is(q, g1, "pos", TRUE) \/ Is(q, g3, "ok", FALSE) \/ Is(q, g2, "pos", TRUE)
      <3>1. CASE Is(b, g1, "pos", TRUE)
        BY <2>3, <3>1 DEF Is
      <3>2. CASE Is(b, g2, "ok", FALSE)
        <4>1. PICK p \in Write(g2, g3) : q = [p EXCEPT !.hit = @ \/ FALSE]
          BY <1>3, <2>3, <3>2 DEF Is, Rest2
        <4>2. Is(p, g3, "ok", FALSE) \/ Is(p, g2, "pos", TRUE)
          BY <4>1, BasicOutcomes
        <4> QED
          BY <4>1, <4>2 DEF Is
      <3> QED
        BY <2>3, <3>1, <3>2, BasicOutcomes
    <2>5. Is(o, g1, "pos", TRUE) \/ Is(o, g3, "ok", FALSE) \/ Is(o, g2, "pos", TRUE)
      BY <2>1, <2>4 DEF Is
    <2> QED
      BY <1>4, <2>5
  <1> QED
    BY <1>6, <1>7, <1>8, BasicOutcomes

LEMMA RemoveOldNameIs ==
    ASSUME NEW f, NEW from, NEW o \in RemoveOldName(f, from), NEW d, d = Namei(f, Front(from))
    PROVE  \E g, ret, hit :
              /\ Is(o, g, ret, hit)
              /\ ~hit /\ Found(d) /\ f.mode[d.at] = "dir" /\ f.ents[d.at][Last(from)] # <<>>
                 => ret = "ok" /\ g = DropEntry(f, d.at, Last(from))
  <1>1. PICK h : h = DropEntry(f, d.at, Last(from))
    OBVIOUS
  <1>2. o \in Then(UnlinkFileByName(f, from), Access)
    BY Zenon DEF RemoveOldName
  <1>3. PICK a \in UnlinkFileByName(f, from) :
            \/ a.ret # "ok" /\ o = a
            \/ /\ a.ret = "ok"
               /\ \A g, hit : Is(a, g, "ok", hit) => Is(o, g, "ok", hit) \/ Is(o, g, "pos", TRUE)
    BY <1>2, ThenAccess
  <1>4. CASE /\ ~(Found(d) /\ f.mode[d.at] = "dir" /\ f.ents[d.at][Last(from)] # <<>>)
             /\ Is(a, f, "neg", FALSE)
    <2>1. o = a
      BY <1>3, <1>4 DEF Is
    <2> QED
      BY <1>4, <2>1
  <1>5. CASE Is(a, f, "pos", TRUE) \/ Is(a, h, "ok", FALSE) \/ Is(a, h, "pos", TRUE)
    <2>1. Is(o, f, "pos", TRUE) \/ Is(o, h, "ok", FALSE) \/ Is(o, h, "pos", TRUE)
      BY <1>3, <1>5 DEF Is
    <2> QED
      BY <1>1, <2>1
  <1> QED
    BY <1>1, <1>3, <1>4, <1>5, UnlinkNameIs

Settled(f, i, fromDir, toDir) == IF f.mode[i] = "dir" THEN Moved(f, i, fromDir, toDir) ELSE f
Linked(h, toDir, n, i, front, fromDir) == Settled(AddEntry(h, toDir, n, i, front), i, fromDir, toDir)
\* The end of rename, from the new name on.
LastSteps(f, i, fromDir, toDir, from) ==
    Then(IF f.mode[i] = "dir" THEN MoveDir(f, i, fromDir, toDir) ELSE Ok(f),
         LAMBDA m : Then(Access(m), LAMBDA q : RemoveOldName(q, from)))
\* The old name is there, and g is m without it.
OldGone(m, from, g, ret) ==
    LET d == Namei(m, Front(from)) IN
    Found(d) /\ m.mode[d.at] = "dir" /\ m.ents[d.at][Last(from)] # <<>>
    => ret = "ok" /\ g = DropEntry(m, d.at, Last(from))

LEMMA LastStepsIs ==
    ASSUME NEW f, NEW i, NEW fromDir, NEW toDir, NEW from, NEW o \in LastSteps(f, i, fromDir, toDir, from)
    PROVE  \E g, ret, hit : /\ Is(o, g, ret, hit)
                            /\ ~hit => OldGone(Settled(f, i, fromDir, toDir), from, g, ret)
  <1> DEFINE Rest2(q) == RemoveOldName(q, from)
             Rest1(m) == Then(Access(m), LAMBDA q : Rest2(q))
             first == IF f.mode[i] = "dir" THEN MoveDir(f, i, fromDir, toDir) ELSE Ok(f)
  <1>1. o \in Then(first, LAMBDA m : Rest1(m))
    BY Zenon DEF LastSteps
  <1> HIDE DEF Rest1
  <1>2. PICK a \in first :
            o \in IF a.ret # "ok" THEN {a}
                  ELSE {[q EXCEPT !.hit = @ \/ a.hit] : q \in Rest1(a.fs)}
    BY <1>1, Zenon DEF Then
  <1>3. PICK m, ret1, hit1 : /\ Is(a, m, ret1, hit1)
                             /\ ~hit1 => ret1 = "ok" /\ m = Settled(f, i, fromDir, toDir)
    <2>1. CASE f.mode[i] = "dir"
      BY <1>2, <2>1, MoveDirIs DEF Settled
    <2>2. CASE f.mode[i] # "dir"
      <3>1. Is(a, f, "ok", FALSE)
        BY <1>2, <2>2, BasicOutcomes
      <3> QED
        BY <2>2, <3>1 DEF Settled
    <2> QED
      BY <2>1, <2>2
  <1>4. hit1 \in BOOLEAN
    BY <1>3 DEF Is
  <1>5. CASE ret1 # "ok"
    <2>1. o = a
      BY <1>2, <1>3, <1>5 DEF Is
    <2> QED
      BY <1>3, <1>5, <2>1
  <1>6. CASE ret1 = "ok"
    <2>1. PICK q \in Rest1(m) : o = [q EXCEPT !.hit = @ \/ hit1]
      BY <1>2, <1>3, <1>6 DEF Is
    <2>2. q \in Then(Access(m), LAMBDA r : Rest2(r))
      BY <2>1 DEF Rest1
    <2> HIDE DEF Rest2
    <2>3. PICK b \in Access(m) :
              q \in IF b.ret # "ok" THEN {b}
                    ELSE {[p EXCEPT !.hit = @ \/ b.hit] : p \in Rest2(b.fs)}
      BY <2>2, Zenon DEF Then
    <2>4. CASE Is(b, m, "pos", TRUE)
      <3>1. q = b
        BY <2>3, <2>4 DEF Is
      <3>2. Is(o, m, "pos", TRUE)
        BY <2>1, <2>4, <3>1 DEF Is
      <3> QED
        BY <3>2
    <2>5. CASE Is(b, m, "ok", FALSE)
      <3>1. PICK p \in RemoveOldName(m, from) : q = [p EXCEPT !.hit = @ \/ FALSE]
        BY <2>3, <2>5 DEF Is, Rest2
      <3>2. PICK d : d = Namei(m, Front(from))
        OBVIOUS
      <3>3. PICK g, ret, hit :
              /\ Is(p, g, ret, hit)
              /\ ~hit /\ Found(d) /\ m.mode[d.at] = "dir" /\ m.ents[d.at][Last(from)] # <<>>
                 => ret = "ok" /\ g = DropEntry(m, d.at, Last(from))
        BY <3>1, <3>2, RemoveOldNameIs
      <3>4. Is(q, g, ret, hit)
        BY <3>1, <3>3 DEF Is
      <3>5. Is(o, g, ret, hit \/ hit1)
        BY <1>4, <2>1, <3>4, AfterIs
      <3>6. ~(hit \/ hit1) => OldGone(Settled(f, i, fromDir, toDir), from, g, ret)
        BY <1>3, <3>2, <3>3, Zenon DEF OldGone
      <3> QED
        BY <3>5, <3>6
    <2> QED
      BY <2>3, <2>4, <2>5, BasicOutcomes
  <1> QED
    BY <1>5, <1>6

LEMMA NewNameIs ==
    ASSUME NEW h, NEW i, NEW fromDir, NEW toDir, NEW from, NEW n,
           NEW o \in Then(LinkEntry(h, toDir, n, i), LAMBDA k : LastSteps(k, i, fromDir, toDir, from))
    PROVE  \E g, ret, hit :
              /\ Is(o, g, ret, hit)
              /\ ~hit => \/ g = h /\ ((h.mode[toDir] # "dir" /\ ret = "neg") \/ ret = "full")
                         \/ /\ h.mode[toDir] = "dir"
                            /\ \E front \in BOOLEAN :
                                  OldGone(Linked(h, toDir, n, i, front, fromDir), from, g, ret)
  <1> DEFINE Rest(k) == LastSteps(k, i, fromDir, toDir, from)
  <1>1. PICK a \in LinkEntry(h, toDir, n, i) :
            o \in IF a.ret # "ok" THEN {a}
                  ELSE {[q EXCEPT !.hit = @ \/ a.hit] : q \in Rest(a.fs)}
    <2>1. o \in Then(LinkEntry(h, toDir, n, i), LAMBDA k : Rest(k))
      OBVIOUS
    <2> HIDE DEF Rest
    <2> QED
      BY <2>1, Zenon DEF Then
  <1> HIDE DEF Rest
  <1>2. CASE h.mode[toDir] # "dir" /\ Is(a, h, "neg", FALSE)
    <2>1. o = a
      BY <1>1, <1>2 DEF Is
    <2> QED
      BY <1>2, <2>1
  <1>3. CASE Is(a, h, "pos", TRUE) \/ Is(a, h, "full", FALSE)
    <2>1. o = a
      BY <1>1, <1>3 DEF Is
    <2> QED
      BY <1>3, <2>1
  <1>4. ASSUME h.mode[toDir] = "dir", NEW front \in BOOLEAN,
               Is(a, AddEntry(h, toDir, n, i, front), "ok", FALSE)
        PROVE  \E g, ret, hit :
                  /\ Is(o, g, ret, hit)
                  /\ ~hit => OldGone(Linked(h, toDir, n, i, front, fromDir), from, g, ret)
    <2>1. PICK k : k = AddEntry(h, toDir, n, i, front)
      OBVIOUS
    <2>2. PICK q \in LastSteps(k, i, fromDir, toDir, from) : o = [q EXCEPT !.hit = @ \/ FALSE]
      BY <1>1, <1>4, <2>1 DEF Is, Rest
    <2>3. PICK g, ret, hit : /\ Is(q, g, ret, hit)
                             /\ ~hit => OldGone(Settled(k, i, fromDir, toDir), from, g, ret)
      BY <2>2, LastStepsIs
    <2>4. Is(o, g, ret, hit)
      BY <2>2, <2>3 DEF Is
    <2>5. ~hit => OldGone(Linked(h, toDir, n, i, front, fromDir), from, g, ret)
      BY <2>1, <2>3, Zenon DEF Linked
    <2> QED
      BY <2>4, <2>5
  <1>5. \/ h.mode[toDir] # "dir" /\ Is(a, h, "neg", FALSE)
        \/ Is(a, h, "pos", TRUE) \/ Is(a, h, "full", FALSE)
        \/ /\ h.mode[toDir] = "dir"
           /\ \E front \in BOOLEAN : Is(a, AddEntry(h, toDir, n, i, front), "ok", FALSE)
    BY <1>1, LinkEntryIs
  <1> QED
    BY <1>2, <1>3, <1>4, <1>5

LEMMA FromAt ==
    ASSUME NEW f, Good(f), NEW path \in Paths, NEW d, d = ParentDir(f, path), Found(d),
           NEW i, i = Namei(f, path), Found(i)
    PROVE  At(f, d.at, Last(path), i.at) /\ Held(f, d.at)
  <1>1. /\ path \in Seq(Names) /\ path # <<>> /\ Last(path) \in Names /\ Walks(f, d)
        /\ d.at \in f.bitmap /\ Shape(f)
    BY Parents DEF Good
  <1>2. PICK follow \in BOOLEAN : follow = TRUE
    OBVIOUS
  <1>3. PICK s : s = f.ents[d.at][Last(path)]
    OBVIOUS
  <1>4. d = Walk(f, Front(path), follow)
    BY <1>2 DEF ParentDir
  <1>5. f.mode[d.at] = "dir" /\ s # <<>> /\ i.at = Head(s)
    BY <1>1, <1>2, <1>3, <1>4, LastName
  <1>6. d.at \in Dirs(f)
    BY <1>1, <1>5 DEF Dirs
  <1>7. \E k \in f.bitmap : s = <<k>>
    BY <1>1, <1>3, <1>5, <1>6 DEF Shape, Slots
  <1>8. s = <<i.at>>
    BY <1>5, <1>7, Single
  <1> QED
    BY <1>1, <1>3, <1>6, <1>8 DEF At, Walks

LEMMA NoneAt ==
    ASSUME NEW f, Good(f), NEW path \in Paths, NEW d, d = ParentDir(f, path), Found(d),
           f.mode[d.at] = "dir", Namei(f, path).err = "FILE_NOT_FOUND"
    PROVE  f.ents[d.at][Last(path)] = <<>>
  <1>1. path \in Seq(Names) /\ path # <<>> /\ Shape(f)
    BY Parents DEF Good
  <1>2. PICK follow \in BOOLEAN : follow = TRUE
    OBVIOUS
  <1>3. PICK s : s = f.ents[d.at][Last(path)]
    OBVIOUS
  <1>4. d = Walk(f, Front(path), follow)
    BY <1>2 DEF ParentDir
  <1>5. s = <<>>
    BY <1>1, <1>3, <1>4, LastName
  <1> QED
    BY <1>3, <1>5

\* unlink and rmdir look for the target where rename puts the new name.
LEMMA SameParent ==
    ASSUME NEW f, Good(f), NEW path \in Paths, NEW d, d = Namei(f, Front(path)), Found(d), d.at \in Dirs(f)
    PROVE  ParentDir(f, path) = d
  <1>1. Front(path) \in Seq(Names) /\ Shape(f) /\ f.mode[d.at] = "dir"
    BY Parents DEF Good, Dirs
  <1>2. Found(Walk(f, Front(path), FALSE)) /\ f.mode[Walk(f, Front(path), FALSE).at] = "dir"
    BY <1>1 DEF Namei
  <1>3. Walk(f, Front(path), TRUE) = Walk(f, Front(path), FALSE)
    BY <1>1, <1>2, FollowSame
  <1> QED
    BY <1>3 DEF Namei, ParentDir

\* f after the target of rename was removed: the slot (toDir, n) is empty, and i is
\* still in (fromDir, m).
Ready(f, h, i, fromDir, m, toDir, n) ==
    /\ Good(h) /\ (Exact(f) => Exact(h)) /\ h.mode = f.mode
    /\ toDir \in Dirs(h) /\ h.ents[toDir][n] = <<>>
    /\ At(h, fromDir, m, i) /\ Held(h, fromDir)
    /\ Dirs(h) \subseteq Dirs(f)
    /\ \A y \in Dirs(f), x \in Names :
          \/ h.ents[y][x] = f.ents[y][x]
          \/ h.ents[y][x] = <<>> /\ y = toDir /\ x = n /\ \E j : f.ents[y][x] = <<j>> /\ Stuck(f, j)

LEMMA RemovedReady ==
    ASSUME NEW f, Good(f), NEW i, NEW fromDir, NEW m, At(f, fromDir, m, i), Held(f, fromDir),
           NEW toDir, NEW n, NEW t, t # i, NEW h, Lost(f, h, toDir, n, t, FALSE)
    PROVE  Ready(f, h, i, fromDir, m, toDir, n)
  <1>1. /\ At(f, toDir, n, t) /\ Good(h) /\ (Exact(f) => Exact(h)) /\ h.mode = f.mode /\ Stuck(f, t)
        /\ h.bitmap = f.bitmap \/ h.bitmap = f.bitmap \ {t}
        /\ \A e \in Dirs(f), x \in Names :
              h.ents[e][x] = IF e = toDir /\ x = n THEN <<>> ELSE f.ents[e][x]
    BY DEF Lost
  <1>2. /\ toDir \in Dirs(f) /\ n \in Names /\ fromDir \in Dirs(f) /\ m \in Names
        /\ f.ents[toDir][n] = <<t>> /\ f.ents[fromDir][m] = <<i>>
    BY <1>1 DEF At
  <1>3. \A e, x, j : At(f, e, x, j) => e # t /\ e \in Dirs(h)
    <2> SUFFICES ASSUME NEW e, NEW x, NEW j, At(f, e, x, j) PROVE e # t /\ e \in Dirs(h)
      OBVIOUS
    <2>1. e # t
      BY <1>1, Single DEF At, Stuck, Dirs
    <2> QED
      BY <1>1, <2>1 DEF At, Dirs
  <1>4. \A e, x, j : At(f, e, x, j) /\ j # t => At(h, e, x, j)
    <2> SUFFICES ASSUME NEW e, NEW x, NEW j, At(f, e, x, j), j # t PROVE At(h, e, x, j)
      OBVIOUS
    <2>1. e \in Dirs(f) /\ x \in Names /\ f.ents[e][x] = <<j>> /\ e \in Dirs(h)
      BY <1>3 DEF At
    <2>2. ~(e = toDir /\ x = n)
      BY <1>2, <2>1, Single
    <2> QED
      BY <1>1, <2>1, <2>2 DEF At
  <1>5. At(h, fromDir, m, i) /\ fromDir # t
    BY <1>3, <1>4
  <1>6. Held(h, fromDir)
    BY <1>4, <1>5 DEF Held
  <1>7. toDir \in Dirs(h) /\ h.ents[toDir][n] = <<>>
    BY <1>1, <1>2, <1>3
  <1>8. Dirs(h) \subseteq Dirs(f)
    BY <1>1 DEF Dirs
  <1>9. \A y \in Dirs(f), x \in Names :
          \/ h.ents[y][x] = f.ents[y][x]
          \/ h.ents[y][x] = <<>> /\ y = toDir /\ x = n /\ \E j : f.ents[y][x] = <<j>> /\ Stuck(f, j)
    BY <1>1, <1>2
  <1> QED
    BY <1>1, <1>5, <1>6, <1>7, <1>8, <1>9 DEF Ready

\* ".." of i leads to b, and the link that a had for it is b's.
MovedTo(k, m, i, a, b) ==
    /\ FsType(m) /\ m.mode = k.mode /\ m.bitmap = k.bitmap /\ m.ents = k.ents
    /\ \A j \in Inodes : m.dotdot[j] = IF j = i THEN b ELSE k.dotdot[j]
    /\ \A j \in Inodes : m.links[j] = IF a = b THEN k.links[j]
                                      ELSE IF j = a THEN k.links[j] - 1
                                      ELSE IF j = b THEN k.links[j] + 1 ELSE k.links[j]

LEMMA MovedIs ==
    ASSUME NEW k, FsType(k), NEW i \in Inodes, NEW a \in Inodes, NEW b \in Inodes, k.links[a] >= 1,
           NEW m, m = Moved(k, i, a, b)
    PROVE  MovedTo(k, m, i, a, b)
  <1>1. PICK g1 : g1 = SetParent(k, i, b)
    OBVIOUS
  <1>2. PICK g2 : g2 = DropLink(g1, a)
    OBVIOUS
  <1>3. m = AddLinks(g2, b, 1)
    BY <1>1, <1>2 DEF Moved
  <1>4. /\ Replaced(k, g1, "dotdot")
        /\ g1.dotdot[i] = b /\ \A j \in Inodes : j # i => g1.dotdot[j] = k.dotdot[j]
    BY <1>1, SetParentIs
  <1>5. FsType(g1) /\ g1.links = k.links
    BY <1>4 DEF Replaced
  <1>6. /\ Replaced(g1, g2, "links")
        /\ g2.links[a] = g1.links[a] - 1 /\ \A j \in Inodes : j # a => g2.links[j] = g1.links[j]
    BY <1>2, <1>5, DropLinkIs
  <1>7. FsType(g2)
    BY <1>6 DEF Replaced
  <1>8. /\ Replaced(g2, m, "links")
        /\ m.links[b] = g2.links[b] + 1 /\ \A j \in Inodes : j # b => m.links[j] = g2.links[j]
    BY <1>3, <1>7, AddLinksIs
  <1>9. \A j \in Inodes : k.links[j] \in Nat
    BY DEF FsType
  <1>10. \A j \in Inodes : m.links[j] = IF a = b THEN k.links[j]
                                        ELSE IF j = a THEN k.links[j] - 1
                                        ELSE IF j = b THEN k.links[j] + 1 ELSE k.links[j]
    BY <1>5, <1>6, <1>8, <1>9
  <1>11. /\ FsType(m) /\ m.mode = k.mode /\ m.bitmap = k.bitmap /\ m.ents = k.ents /\ m.dotdot = g1.dotdot
    BY <1>4, <1>6, <1>8 DEF Replaced
  <1> QED
    BY <1>4, <1>10, <1>11 DEF MovedTo

LEMMA LinkedIs ==
    ASSUME NEW h, Good(h), NEW a, NEW m, NEW i, At(h, a, m, i), NEW b \in Dirs(h), NEW n \in Names,
           h.ents[b][n] = <<>>, Held(h, a), NEW front \in BOOLEAN, NEW q, q = Linked(h, b, n, i, front, a)
    PROVE  /\ FsType(q) /\ q.mode = h.mode /\ q.bitmap = h.bitmap
           /\ \A y \in Inodes, x \in Names :
                 q.ents[y][x] = IF y = b /\ x = n THEN <<i>> ELSE h.ents[y][x]
           /\ \A j \in Inodes : q.dotdot[j] = IF j = i /\ h.mode[i] = "dir" THEN b ELSE h.dotdot[j]
           /\ \A j \in Inodes : q.links[j] = IF h.mode[i] # "dir" \/ a = b THEN h.links[j]
                                             ELSE IF j = a THEN h.links[j] - 1
                                             ELSE IF j = b THEN h.links[j] + 1 ELSE h.links[j]
  <1>0. FsType(h) /\ a \in Inodes /\ b \in Inodes /\ i \in Inodes /\ a \in Dirs(h)
    <2>1. FsType(h) /\ b \in Inodes
      BY DEF Good, Shape, FsType, Dirs
    <2> QED
      BY <2>1, LinksAtLeast
  <1>1. PICK k : k = AddEntry(h, b, n, i, front)
    OBVIOUS
  <1>2. /\ Replaced(h, k, "ents")
        /\ \A y \in Inodes, x \in Names :
              k.ents[y][x] = IF y = b /\ x = n THEN <<i>> ELSE h.ents[y][x]
    BY <1>0, <1>1, AddEntryIs
  <1>3. /\ FsType(k) /\ k.mode = h.mode /\ k.bitmap = h.bitmap /\ k.links = h.links
        /\ k.dotdot = h.dotdot
    BY <1>2 DEF Replaced
  <1>4. q = Settled(k, i, a, b)
    BY <1>1 DEF Linked
  <1>5. CASE h.mode[i] # "dir"
    <2>1. q = k
      BY <1>3, <1>4, <1>5 DEF Settled
    <2> QED
      BY <1>2, <1>3, <1>5, <2>1
  <1>6. CASE h.mode[i] = "dir"
    <2>1. q = Moved(k, i, a, b)
      BY <1>3, <1>4, <1>6 DEF Settled
    <2>2. k.links[a] >= 1
      <3>1. h.links[a] >= 1
        BY <1>6, LinksAtLeast
      <3> QED
        BY <1>3, <3>1
    <2>3. MovedTo(k, q, i, a, b)
      BY <1>0, <1>3, <2>1, <2>2, MovedIs
    <2> QED
      BY <1>2, <1>3, <1>6, <2>3 DEF MovedTo
  <1> QED
    BY <1>5, <1>6

\* The state q of a rename before its last step.
Renaming(f, from, a, i, h, b, n, q) ==
    /\ Good(f) /\ from \in Paths /\ a = ParentDir(f, from) /\ Found(a) /\ ~a.via
    /\ n \in Names /\ Ready(f, h, i, a.at, Last(from), b, n)
    /\ \E front \in BOOLEAN : q = Linked(h, b, n, i, front, a.at)

LEMMA RenamedGood ==
    ASSUME NEW f, NEW from, NEW a, NEW i, NEW h, NEW b, NEW n, NEW q,
           Renaming(f, from, a, i, h, b, n, q), MayMove(f, i, b), NEW g, NEW ret, OldGone(q, from, g, ret)
    PROVE  ret = "ok" /\ Good(g) /\ (Exact(f) => Exact(g))
  <1> DEFINE m == Last(from)
  <1>0. /\ Good(f) /\ from \in Paths /\ a = ParentDir(f, from) /\ Found(a) /\ ~a.via
        /\ n \in Names /\ Ready(f, h, i, a.at, m, b, n)
    BY DEF Renaming
  <1> USE <1>0
  <1> PICK front \in BOOLEAN : q = Linked(h, b, n, i, front, a.at)
    BY DEF Renaming
  <1>1. /\ Good(h) /\ (Exact(f) => Exact(h)) /\ h.mode = f.mode
        /\ b \in Dirs(h) /\ h.ents[b][n] = <<>>
        /\ At(h, a.at, m, i) /\ Held(h, a.at) /\ Dirs(h) \subseteq Dirs(f)
    BY DEF Ready
  <1>2. /\ FsType(q) /\ q.mode = h.mode /\ q.bitmap = h.bitmap
        /\ \A y \in Inodes, x \in Names :
              q.ents[y][x] = IF y = b /\ x = n THEN <<i>> ELSE h.ents[y][x]
        /\ \A j \in Inodes : q.dotdot[j] = IF j = i /\ h.mode[i] = "dir" THEN b ELSE h.dotdot[j]
        /\ \A j \in Inodes : q.links[j] = IF h.mode[i] # "dir" \/ a.at = b THEN h.links[j]
                                          ELSE IF j = a.at THEN h.links[j] - 1
                                          ELSE IF j = b THEN h.links[j] + 1 ELSE h.links[j]
    BY <1>1, LinkedIs
  <1>3. /\ \A e \in Dirs(f) : e \in Inodes
        /\ \A e \in Dirs(h) : e \in Inodes
        /\ h.bitmap \subseteq Inodes /\ b \in Inodes /\ a.at \in Inodes /\ a.at \in Dirs(h)
        /\ m \in Names /\ Front(from) \in Seq(Names) /\ Shape(f)
        /\ h.ents[a.at][m] = <<i>>
    <2>1. (\A e \in Dirs(f) : e \in Inodes) /\ (\A e \in Dirs(h) : e \in Inodes) /\ h.bitmap \subseteq Inodes
      BY <1>1 DEF Good, Shape, FsType, Dirs
    <2>2. Front(from) \in Seq(Names) /\ Shape(f)
      BY Parents DEF Good
    <2> QED
      BY <1>1, <2>1, <2>2 DEF At
  <1>4. Differs(f, q)
    <2> SUFFICES ASSUME NEW y \in Dirs(f), NEW x \in Names
                 PROVE  \/ q.ents[y][x] = f.ents[y][x] \/ f.ents[y][x] = <<>>
                        \/ \E j : f.ents[y][x] = <<j>> /\ Stuck(f, j)
      BY <1>1, <1>2 DEF Differs
    <2>1. CASE y = b /\ x = n
      BY <1>1, <2>1 DEF Ready
    <2>2. CASE ~(y = b /\ x = n)
      <3>1. q.ents[y][x] = h.ents[y][x] /\ h.ents[y][x] = f.ents[y][x]
        BY <1>2, <1>3, <2>2 DEF Ready
      <3> QED
        BY <3>1
    <2> QED
      BY <2>1, <2>2
  <1>5. ~(a.at = b /\ m = n)
    BY <1>1, <1>3, Single
  <1>6. q.ents[a.at][m] = <<i>> /\ q.mode[a.at] = "dir"
    BY <1>2, <1>3, <1>5 DEF Dirs
  <1>7. Namei(q, Front(from)) = a
    <2>1. ~Stuck(f, a.at)
      <3>1. f.ents[a.at][m] = <<i>>
        BY <1>1, <1>3, <1>5 DEF Ready
      <3> QED
        BY <1>1, <1>2, <1>3, <1>6, <3>1, Single DEF Stuck
    <2>2. a = Walk(f, Front(from), TRUE)
      BY DEF ParentDir
    <2>3. Walk(q, Front(from), FALSE) = a
      BY <1>3, <1>4, <2>1, <2>2, SameDir
    <2> QED
      BY <2>3 DEF Namei
  <1>8. ret = "ok" /\ g = DropEntry(q, a.at, m)
    BY <1>6, <1>7, Single DEF OldGone
  <1>9. /\ Replaced(q, g, "ents")
        /\ \A y \in Inodes, x \in Names : g.ents[y][x] = IF y = a.at /\ x = m THEN <<>> ELSE q.ents[y][x]
    <2>1. FsType(q) /\ a.at \in Inodes /\ m \in Names /\ q.ents[a.at][m] = <<i>> /\ g = DropEntry(q, a.at, m)
      BY <1>2, <1>3, <1>6, <1>8
    <2> QED
      BY ONLY <2>1, DropEntryIs
  <1>10. FsType(g) /\ g.bitmap = h.bitmap /\ g.mode = h.mode /\ g.dotdot = q.dotdot /\ g.links = q.links
    BY <1>2, <1>9 DEF Replaced
  <1>11. \A y \in Dirs(h), x \in Names :
           g.ents[y][x] = IF y = b /\ x = n THEN <<i>>
                          ELSE IF y = a.at /\ x = m THEN <<>> ELSE h.ents[y][x]
    BY <1>2, <1>3, <1>5, <1>9
  <1>12. \A j \in h.bitmap :
           g.dotdot[j] = IF j = i /\ h.mode[i] = "dir" THEN b ELSE h.dotdot[j]
    BY <1>2, <1>3, <1>10
  <1>13. \A j \in h.bitmap : g.links[j] = IF h.mode[i] # "dir" \/ a.at = b THEN h.links[j]
                                          ELSE IF j = a.at THEN h.links[j] - 1
                                          ELSE IF j = b THEN h.links[j] + 1 ELSE h.links[j]
    BY <1>2, <1>3, <1>10
  <1>14. MayMove(h, i, b)
    <2>1. \A d, x, j : At(h, d, x, j) => At(f, d, x, j)
      <3> SUFFICES ASSUME NEW d, NEW x, NEW j, At(h, d, x, j) PROVE At(f, d, x, j)
        OBVIOUS
      <3>1. d \in Dirs(f) /\ x \in Names /\ h.ents[d][x] = <<j>> /\ h.ents[d][x] # <<>>
        BY <1>1, Single DEF At
      <3>2. h.ents[d][x] = f.ents[d][x]
        BY <3>1 DEF Ready
      <3> QED
        BY <3>1, <3>2 DEF At
    <2>2. \A S : Shut(f, S) => Shut(h, S)
      BY <2>1 DEF Shut
    <2> QED
      BY <1>1, <2>2 DEF MayMove
  <1>15. Good(g) /\ (Exact(h) => Exact(g))
    BY <1>1, <1>14, <1>10, <1>11, <1>12, <1>13, NameMoved
  <1> QED
    BY <1>1, <1>8, <1>15

\* What RemoveTarget leaves when the disk does not fail.
TargetGone(f, h, ret, b, n, t) ==
    \/ h = f /\ ret # "ok"
    \/ ret = "ok" /\ h = f /\ (f.mode[b] = "dir" => f.ents[b][n] = <<>>)
    \/ ret = "ok" /\ f.mode[b] = "dir" /\ Lost(f, h, b, n, t.at, FALSE) /\ Found(t)

LEMMA RenameFine ==
    ASSUME NEW f, Good(f), NEW from \in Paths, NEW to \in Paths,
           ~(Found(ParentDir(f, from)) /\ ParentDir(f, from).via),
           Found(Namei(f, from)) /\ Found(ParentDir(f, to)) =>
               MayMove(f, Namei(f, from).at, ParentDir(f, to).at),
           NEW o \in Rename(f, from, to), o.ret = "full" => ~Found(Namei(f, to))
    PROVE  \E g, ret, hit : Is(o, g, ret, hit) /\ (~hit => Fine(f, g, ret, hit))
  <1> DEFINE i == Namei(f, from)
             t == Namei(f, to)
             a == ParentDir(f, from)
             b == ParentDir(f, to)
             n == Last(to)
             Rest2(h) == Then(LinkEntry(h, b.at, n, i.at), LAMBDA k : LastSteps(k, i.at, a.at, b.at, from))
             Rest1(g) == Then(RemoveTarget(g, t, to), LAMBDA h : Rest2(h))
             fails == \/ ~Found(i) \/ ~(Found(t) \/ t.err = "FILE_NOT_FOUND")
                      \/ ~(Found(t) /\ t.at = i.at) /\ (~Found(a) \/ ~Found(b))
  <1>1. CASE fails \/ (Found(t) /\ t.at = i.at)
    <2>1. o \in Fails(f) \/ o \in Ok(f)
      BY <1>1, Zenon DEF Rename
    <2>2. Is(o, f, "neg", FALSE) \/ Is(o, f, "ok", FALSE)
      BY <2>1, BasicOutcomes
    <2> QED
      BY <2>2 DEF Fine
  <1>2. CASE ~fails /\ ~(Found(t) /\ t.at = i.at)
    <2>1. /\ Found(i) /\ (Found(t) \/ t.err = "FILE_NOT_FOUND")
          /\ Found(t) => t.at # i.at
          /\ Found(a) /\ Found(b) /\ ~a.via /\ MayMove(f, i.at, b.at)
          /\ o.ret = "full" => ~Found(t)
      BY <1>2
    <2>2. /\ n \in Names /\ At(f, a.at, Last(from), i.at) /\ Held(f, a.at)
          /\ FsType(f) /\ b.at \in f.bitmap
      BY <2>1, FromAt, Parents DEF Good, Shape
    <2>3. o \in Then(Access(f), LAMBDA g : Rest1(g))
      BY <2>1, Zenon DEF Rename, LastSteps
    <2> HIDE DEF Rest1
    <2>4. PICK p \in Access(f) :
              o \in IF p.ret # "ok" THEN {p}
                    ELSE {[q EXCEPT !.hit = @ \/ p.hit] : q \in Rest1(p.fs)}
      BY <2>3, Zenon DEF Then
    <2>5. CASE Is(p, f, "pos", TRUE)
      <3>1. o = p
        BY <2>4, <2>5 DEF Is
      <3> QED
        BY <2>5, <3>1
    <2>6. CASE Is(p, f, "ok", FALSE)
      <3>1. PICK o1 \in Rest1(f) : o = [o1 EXCEPT !.hit = @ \/ FALSE]
        BY <2>4, <2>6 DEF Is
      <3>2. o1 \in Then(RemoveTarget(f, t, to), LAMBDA h : Rest2(h))
        BY <3>1 DEF Rest1
      <3> HIDE DEF Rest2
      <3>3. PICK r \in RemoveTarget(f, t, to) :
                o1 \in IF r.ret # "ok" THEN {r}
                       ELSE {[q EXCEPT !.hit = @ \/ r.hit] : q \in Rest2(r.fs)}
        BY <3>2, Zenon DEF Then
      <3> HIDE DEF i, t, a, b, n
      <3>4. PICK h, ret1, hit1 : Is(r, h, ret1, hit1) /\ (~hit1 => TargetGone(f, h, ret1, b.at, n, t))
        <4>1. CASE ~Found(t)
          <5>1. r \in Ok(f)
            BY <3>3, <4>1, Zenon DEF RemoveTarget
          <5>2. Is(r, f, "ok", FALSE)
            BY <5>1, BasicOutcomes
          <5>3. f.mode[b.at] = "dir" => f.ents[b.at][n] = <<>>
            BY <2>1, <4>1, NoneAt DEF t, b, n
          <5>4. TargetGone(f, f, "ok", b.at, n, t)
            BY <5>3 DEF TargetGone
          <5> QED
            BY <5>2, <5>4
        <4>2. CASE Found(t)
          <5>1. r \in Rmdir(f, to) \/ r \in Unlink(f, to)
            BY <3>3, <4>2, Zenon DEF RemoveTarget
          <5>2. PICK h, ret1, hit1 : Is(r, h, ret1, hit1) /\ Removed(f, to, h, ret1, hit1)
            BY <5>1, RmdirIs, UnlinkIs
          <5>3. CASE h = f /\ ret1 # "ok"
            <6>1. TargetGone(f, h, ret1, b.at, n, t)
              BY <5>3 DEF TargetGone
            <6> QED
              BY <5>2, <6>1
          <5>4. CASE /\ Found(Namei(f, Front(to)))
                     /\ Lost(f, h, Namei(f, Front(to)).at, n, t.at, hit1)
                     /\ ~hit1 => ret1 = "ok"
            <6>1. Namei(f, Front(to)).at \in Dirs(f)
              BY <5>4 DEF Lost, At
            <6>2. b = Namei(f, Front(to))
              BY <5>4, <6>1, SameParent DEF b
            <6>3. f.mode[b.at] = "dir"
              BY <6>1, <6>2 DEF Dirs
            <6>4. ~hit1 => Lost(f, h, b.at, n, t.at, FALSE)
              BY <5>4, <6>2 DEF Lost
            <6>5. ~hit1 => TargetGone(f, h, ret1, b.at, n, t)
              BY <4>2, <5>4, <6>3, <6>4 DEF TargetGone
            <6> QED
              BY <5>2, <6>5
          <5> QED
            BY <5>2, <5>3, <5>4 DEF Removed, t, n
        <4> QED
          BY <4>1, <4>2
      <3>5. hit1 \in BOOLEAN
        BY <3>4 DEF Is
      <3>6. CASE ret1 # "ok"
        <4>1. o1 = r
          BY <3>3, <3>4, <3>6 DEF Is
        <4>2. Is(o, h, ret1, hit1)
          BY <3>1, <3>4, <3>5, <4>1 DEF Is
        <4>3. ~hit1 => h = f
          BY <3>4, <3>6 DEF TargetGone
        <4> QED
          BY <4>2, <4>3, <3>6 DEF Fine
      <3>7. CASE ret1 = "ok"
        <4>1. PICK o2 \in Rest2(h) : o1 = [o2 EXCEPT !.hit = @ \/ hit1]
          BY <3>3, <3>4, <3>7 DEF Is
        <4>2. PICK g, ret, hit :
                /\ Is(o2, g, ret, hit)
                /\ ~hit => \/ g = h /\ ((h.mode[b.at] # "dir" /\ ret = "neg") \/ ret = "full")
                           \/ /\ h.mode[b.at] = "dir"
                              /\ \E front \in BOOLEAN :
                                    OldGone(Linked(h, b.at, n, i.at, front, a.at), from, g, ret)
          BY <4>1, NewNameIs DEF Rest2
        <4>3. Is(o1, g, ret, hit \/ hit1)
          BY <3>5, <4>1, <4>2, AfterIs
        <4>4. Is(o, g, ret, hit \/ hit1)
          BY <3>1, <4>3 DEF Is
        <4>5. ASSUME ~hit, ~hit1 PROVE Fine(f, g, ret, hit \/ hit1)
          <5>1. CASE g = h /\ ((h.mode[b.at] # "dir" /\ ret = "neg") \/ ret = "full")
            <6>1. h = f
              <7>1. CASE h.mode[b.at] # "dir"
                BY <3>4, <3>7, <4>5, <7>1 DEF Lost, TargetGone
              <7>2. CASE ret = "full"
                <8>1. ~Found(t)
                  BY <2>1, <4>4, <7>2 DEF Is
                <8> QED
                  BY <3>4, <3>7, <4>5, <8>1 DEF TargetGone
              <7> QED
                BY <5>1, <7>1, <7>2
            <6> QED
              BY <5>1, <6>1 DEF Fine
          <5>2. ASSUME h.mode[b.at] = "dir", NEW front \in BOOLEAN,
                       OldGone(Linked(h, b.at, n, i.at, front, a.at), from, g, ret)
                PROVE  Fine(f, g, ret, hit \/ hit1)
            <6>1. Ready(f, h, i.at, a.at, Last(from), b.at, n)
              <7>1. CASE h = f /\ (f.mode[b.at] = "dir" => f.ents[b.at][n] = <<>>)
                BY <2>2, <5>2, <7>1 DEF Ready, Dirs
              <7>2. CASE Lost(f, h, b.at, n, t.at, FALSE) /\ Found(t)
                BY <2>1, <2>2, <7>2, RemovedReady
              <7> QED
                BY <3>4, <3>7, <4>5, <7>1, <7>2 DEF TargetGone
            <6>2. ret = "ok" /\ Good(g) /\ (Exact(f) => Exact(g))
              <7>1. PICK q : q = Linked(h, b.at, n, i.at, front, a.at)
                OBVIOUS
              <7>2. OldGone(q, from, g, ret)
                BY <5>2, <7>1
              <7>3. PICK d : d = ParentDir(f, from)
                OBVIOUS
              <7>4. d = a
                BY <7>3 DEF a
              <7>5. Renaming(f, from, d, i.at, h, b.at, n, q)
                BY <2>1, <2>2, <6>1, <7>1, <7>3, <7>4 DEF Renaming
              <7> QED
                BY <2>1, <7>2, <7>5, RenamedGood
            <6> QED
              BY <6>2 DEF Fine
          <5> QED
            BY <4>2, <4>5, <5>1, <5>2
        <4> QED
          BY <4>4, <4>5
      <3> QED
        BY <3>6, <3>7
    <2> QED
      BY <2>4, <2>5, <2>6, BasicOutcomes
  <1> QED
    BY <1>1, <1>2

-----------------------------------------------------------------------------
(* Every step *)

\* The program does nothing that the runs show to break the names or the counts:
\* an open or a link over an entry, an open that creates a directory, a link below a
\* file or of a directory, a rename through a symbolic link; the disk does not fail in
\* an open or a rename, nor between the writes of a mkdir, and a rename that removed
\* its target finds room for the new name.
Sober == /\ Habits \cap {"createOverLink", "createDirectory", "mkdirCutShort", "linkOver",
                         "linkUnderFile", "linkDir", "renameThroughLink",
                         "renameOverWhenFull"} = {}
         /\ FaultyCalls \cap {"open", "rename"} = {}

NInv == /\ Good(fs) /\ (faults = 0 /\ "linkWhenFull" \notin Habits => Exact(fs))
        /\ (FaultyCalls = {} => faults = 0)
        /\ last \in [threw : BOOLEAN, hit : BOOLEAN] /\ faults \in 0 .. MaxFaults

\* What a step is, whatever the call.
Stepping == \E g, ret, hit :
    /\ Fine(fs, g, ret, hit) /\ hit \in BOOLEAN
    /\ fs' = g /\ last' = [threw |-> ret \in {"neg", "full"}, hit |-> hit]
    /\ hit => FaultyCalls # {} /\ faults < MaxFaults /\ faults' = faults + 1
    /\ ~hit => faults' = faults

LEMMA ReturnIs ==
    ASSUME NEW call, NEW outcomes, Return(call, outcomes),
           \A o \in outcomes : \E g, ret, hit :
               Is(o, g, ret, hit) /\ (~hit \/ call \in FaultyCalls => Fine(fs, g, ret, hit))
    PROVE  Stepping
  <1>1. PICK o \in outcomes : /\ o.hit => call \in FaultyCalls /\ faults < MaxFaults
                              /\ fs' = o.fs
                              /\ last' = [threw |-> o.ret \in {"neg", "full"}, hit |-> o.hit]
                              /\ faults' = IF o.hit THEN faults + 1 ELSE faults
    BY Zenon DEF Return
  <1>2. PICK g, ret, hit :
          Is(o, g, ret, hit) /\ (~hit \/ call \in FaultyCalls => Fine(fs, g, ret, hit))
    BY Zenon
  <1>3. hit \in BOOLEAN /\ o.fs = g /\ o.ret = ret /\ o.hit = hit
    BY <1>2 DEF Is
  <1>4. Fine(fs, g, ret, hit)
    BY <1>1, <1>2, <1>3
  <1>5. /\ hit => FaultyCalls # {} /\ faults < MaxFaults /\ faults' = faults + 1
        /\ ~hit => faults' = faults
    BY <1>1, <1>3
  <1>6. fs' = g /\ last' = [threw |-> ret \in {"neg", "full"}, hit |-> hit]
    BY <1>1, <1>3
  <1> QED
    BY <1>3, <1>4, <1>5, <1>6, Zenon DEF Stepping

\* What names lead to from an inode is Shut.
LEMMA SubtreeShut ==
    ASSUME Good(fs), NEW S \in SUBSET Inodes
    PROVE  S \subseteq Subtree(S) /\ Shut(fs, Subtree(S))
  <1>1. LiveDirs = Dirs(fs) /\ FsType(fs) /\ fs.bitmap \subseteq Inodes
    BY DEF Good, Shape, LiveDirs, Dirs, FsType
  <1>2. ASSUME NEW d, NEW n, NEW i, At(fs, d, n, i), NEW T \in SUBSET Inodes, d \in T
        PROVE  i \in Below(T)
    <2>1. d \in LiveDirs /\ n \in Names /\ fs.ents[d][n] = <<i>> /\ i \in Inodes
      BY <1>1, <1>2, InUse DEF Good, Shape, At
    <2>2. 1 \in DOMAIN fs.ents[d][n] /\ fs.ents[d][n][1] = i
      BY <2>1
    <2> QED
      BY <1>2, <2>1, <2>2 DEF Below
  <1>3. S \subseteq Subtree(S)
    BY DEF Subtree
  <1>4. Shut(fs, Subtree(S))
    <2> SUFFICES ASSUME NEW d, NEW n, NEW i, At(fs, d, n, i), d \in Subtree(S)
                 PROVE  i \in Subtree(S)
      BY DEF Shut
    <2>1. i \in Inodes
      BY <1>1, InUse DEF Good, Shape
    <2>2. ASSUME NEW T \in SUBSET Inodes, S \subseteq T, Below(T) \subseteq T PROVE i \in T
      <3>1. d \in T
        BY <2>2 DEF Subtree
      <3> QED
        BY <1>2, <2>2, <3>1
    <2> QED
      BY <2>1, <2>2 DEF Subtree
  <1> QED
    BY <1>3, <1>4

LEMMA OutsideMayMove ==
    ASSUME Good(fs), NEW from \in Paths, NEW to \in Paths, ~Inside(from, to),
           Found(Namei(fs, from)), Found(ParentDir(fs, to))
    PROVE  MayMove(fs, Namei(fs, from).at, ParentDir(fs, to).at)
  <1>1. PICK i : i = Namei(fs, from).at
    OBVIOUS
  <1>2. PICK b : b = ParentDir(fs, to).at
    OBVIOUS
  <1>3. i \in Inodes
    BY <1>1, Parents
  <1>4. fs.mode[i] # "dir" \/ b \notin Subtree({i})
    BY <1>1, <1>2 DEF Inside, IsDir, Exists
  <1>5. i \in Subtree({i}) /\ Shut(fs, Subtree({i}))
    BY <1>3, SubtreeShut
  <1> QED
    BY <1>1, <1>2, <1>4, <1>5 DEF MayMove

LEMMA NextIs == ASSUME Sober, Good(fs), Next PROVE Stepping
  <1>0. "open" \notin FaultyCalls /\ "rename" \notin FaultyCalls
    BY DEF Sober
  <1>1. CASE DoOpen
    <2>1. PICK path \in Paths, flags \in SUBSET {"EXCL", "DIRECTORY", "NOFOLLOW"} :
            /\ Habit("createOverLink", HasEntry(path) /\ ~Found(Lookup(fs, path, flags)))
            /\ Habit("createDirectory", "DIRECTORY" \in flags /\ ~Found(Lookup(fs, path, flags)))
            /\ Return("open", OpenCreate(fs, path, flags))
      BY <1>1, Zenon DEF DoOpen
    <2>2. ~Found(Lookup(fs, path, flags)) => NoEntry(fs, path) /\ "DIRECTORY" \notin flags
      BY <2>1 DEF Sober, Habit, HasEntry, ParentIsDir, NoEntry
    <2>3. \A o \in OpenCreate(fs, path, flags) : \E g, ret, hit :
             Is(o, g, ret, hit) /\ (~hit \/ "open" \in FaultyCalls => Fine(fs, g, ret, hit))
      BY <1>0, <2>2, OpenFine
    <2> QED
      BY <2>1, <2>3, ReturnIs
  <1>2. CASE DoMkdir
    <2>1. PICK path \in Paths : Return("mkdir", Mkdir(fs, path))
      BY <1>2, Zenon DEF DoMkdir
    <2>2. \A o \in Mkdir(fs, path) : \E g, ret, hit :
             Is(o, g, ret, hit) /\ (~hit \/ "mkdir" \in FaultyCalls => Fine(fs, g, ret, hit))
      BY MkdirFine DEF Sober
    <2> QED
      BY <2>1, <2>2, ReturnIs
  <1>3. CASE DoLink
    <2> DEFINE outcomes(src, dest) == {o \in Link(fs, src, dest) : Habit("linkWhenFull", o.ret = "full")}
    <2>1. PICK src \in Paths, dest \in Paths :
            /\ Habit("linkUnderFile", Found(ParentDir(fs, dest)) /\ ~ParentIsDir(dest))
            /\ Habit("linkOver", HasEntry(dest))
            /\ Habit("linkDir", IsDir(src))
            /\ Return("link", outcomes(src, dest))
      BY <1>3, Zenon DEF DoLink
    <2>2. /\ Found(ParentDir(fs, dest)) => /\ fs.mode[ParentDir(fs, dest).at] = "dir"
                                           /\ fs.ents[ParentDir(fs, dest).at][Last(dest)] = <<>>
          /\ Found(Namei(fs, src)) => fs.mode[Namei(fs, src).at] # "dir"
      BY <2>1 DEF Sober, Habit, HasEntry, ParentIsDir, IsDir, Exists
    <2>3. \A o \in outcomes(src, dest) : \E g, ret, hit :
             Is(o, g, ret, hit) /\ (~hit \/ "link" \in FaultyCalls => Fine(fs, g, ret, hit))
      BY <2>2, LinkFine
    <2> QED
      BY <2>1, <2>3, ReturnIs
  <1>4. CASE DoSymlink
    <2>1. PICK to \in Targets, dest \in Paths : Return("symlink", Symlink(fs, to, dest))
      BY <1>4, Zenon DEF DoSymlink
    <2>2. \A o \in Symlink(fs, to, dest) : \E g, ret, hit :
             Is(o, g, ret, hit) /\ (~hit \/ "symlink" \in FaultyCalls => Fine(fs, g, ret, hit))
      BY SymlinkFine
    <2> QED
      BY <2>1, <2>2, ReturnIs
  <1>5. CASE DoUnlink
    <2>1. PICK path \in Paths : Return("unlink", Unlink(fs, path))
      BY <1>5, Zenon DEF DoUnlink
    <2>2. \A o \in Unlink(fs, path) : \E g, ret, hit : Is(o, g, ret, hit) /\ Fine(fs, g, ret, hit)
      BY UnlinkIs, RemovedFine
    <2> QED
      BY <2>1, <2>2, ReturnIs
  <1>6. CASE DoRmdir
    <2>1. PICK path \in Paths : Return("rmdir", Rmdir(fs, path))
      BY <1>6, Zenon DEF DoRmdir
    <2>2. \A o \in Rmdir(fs, path) : \E g, ret, hit : Is(o, g, ret, hit) /\ Fine(fs, g, ret, hit)
      BY RmdirIs, RemovedFine
    <2> QED
      BY <2>1, <2>2, ReturnIs
  <1>7. CASE DoRename
    <2> DEFINE outcomes(from, to) ==
                  {o \in Rename(fs, from, to) :
                            Habit("renameOverWhenFull", o.ret = "full" /\ Exists(to))}
    <2>1. PICK from \in Paths, to \in Paths : /\ Habit("renameThroughLink", ThroughLink(from))
                                              /\ Habit("renameInside", Inside(from, to))
                                              /\ Return("rename", outcomes(from, to))
      BY <1>7, Zenon DEF DoRename
    <2>2. ~(Found(ParentDir(fs, from)) /\ ParentDir(fs, from).via)
      BY <2>1 DEF Sober, Habit, ThroughLink
    <2>3. Found(Namei(fs, from)) /\ Found(ParentDir(fs, to)) =>
              MayMove(fs, Namei(fs, from).at, ParentDir(fs, to).at)
      <3>1. CASE "renameInside" \in Habits
        BY <3>1 DEF MayMove
      <3>2. CASE ~Inside(from, to)
        BY <3>2, OutsideMayMove
      <3> QED
        BY <2>1, <3>1, <3>2 DEF Habit
    <2>4. \A o \in outcomes(from, to) : \E g, ret, hit :
             Is(o, g, ret, hit) /\ (~hit \/ "rename" \in FaultyCalls => Fine(fs, g, ret, hit))
      <3> SUFFICES ASSUME NEW o \in outcomes(from, to)
                   PROVE  \E g, ret, hit : Is(o, g, ret, hit) /\ (~hit => Fine(fs, g, ret, hit))
        BY <1>0
      <3>1. o.ret = "full" => ~Found(Namei(fs, to))
        BY DEF Sober, Habit, Exists
      <3> QED
        BY <2>2, <2>3, <3>1, RenameFine
    <2> QED
      BY <2>1, <2>4, ReturnIs
  <1> QED
    BY <1>1, <1>2, <1>3, <1>4, <1>5, <1>6, <1>7 DEF Next

LEMMA NamesInit == Init => NInv
  <1> SUFFICES ASSUME Init PROVE NInv
    OBVIOUS
  <1>1. /\ fs = [mode   |-> [i \in Inodes |-> IF i = RootIno THEN "dir" ELSE "none"],
                 links  |-> [i \in Inodes |-> IF i = RootIno THEN 2 ELSE 0],
                 bitmap |-> {RootIno},
                 ents   |-> [i \in Inodes |-> NoNames],
                 dotdot |-> [i \in Inodes |-> RootIno],
                 target |-> [i \in Inodes |-> <<>>]]
        /\ last = [threw |-> FALSE, hit |-> FALSE] /\ faults = 0
    BY DEF Init
  <1>2. RootIno \in Inodes /\ <<>> \in Seq(Inodes)
    BY Constants
  <1>3. FsType(fs)
    BY <1>1, <1>2 DEF FsType, NoNames
  <1>4. /\ Dirs(fs) = {RootIno} /\ fs.bitmap = {RootIno} /\ fs.dotdot[RootIno] = RootIno
        /\ fs.links[RootIno] = 2 /\ fs.mode[RootIno] = "dir"
        /\ \A x \in Names : fs.ents[RootIno][x] = <<>>
    BY <1>1, <1>2 DEF Dirs, NoNames
  <1>5. \A d, n, i : ~At(fs, d, n, i)
    BY <1>4, Single DEF At
  <1>6. Shape(fs)
    BY <1>3, <1>4, <1>5 DEF Shape, Slots, OneParent
  <1>7. Need(fs, RootIno) = 2
    <2>1. Cardinality(Places(fs, RootIno)) = 0
      <3>1. Places(fs, RootIno) = {}
        BY <1>5 DEF Places
      <3> QED
        BY <3>1, FS_EmptySet
    <2>2. Cardinality(Kids(fs, RootIno)) = 1
      <3>1. Kids(fs, RootIno) = {RootIno}
        BY <1>4 DEF Kids, Held
      <3> QED
        BY <3>1, FS_Singleton
    <2> QED
      BY <1>4, <2>1, <2>2 DEF Need
  <1>8. Enough(fs) /\ Exact(fs)
    <2>1. Rooted(fs)
      BY <1>4 DEF Rooted
    <2> QED
      BY <1>4, <1>7, <2>1 DEF Enough, Exact, Counted
  <1>9. last \in [threw : BOOLEAN, hit : BOOLEAN] /\ faults = 0 /\ faults \in 0 .. MaxFaults
    BY <1>1, Constants
  <1> QED
    BY <1>6, <1>8, <1>9 DEF NInv, Good

LEMMA NamesNext == ASSUME Sober PROVE NInv /\ [Next]_vars => NInv'
  <1> SUFFICES ASSUME NInv, [Next]_vars PROVE NInv'
    OBVIOUS
  <1>1. CASE Next
    <2>1. PICK g, ret, hit :
            /\ Fine(fs, g, ret, hit) /\ hit \in BOOLEAN
            /\ fs' = g /\ last' = [threw |-> ret \in {"neg", "full"}, hit |-> hit]
            /\ hit => FaultyCalls # {} /\ faults < MaxFaults /\ faults' = faults + 1
            /\ ~hit => faults' = faults
      BY <1>1, NextIs, Zenon DEF NInv, Stepping
    <2>2. /\ faults' \in 0 .. MaxFaults /\ (FaultyCalls = {} => faults' = 0)
          /\ faults' = 0 => ~hit /\ faults = 0
      BY <2>1, Constants DEF NInv
    <2>3. Good(fs)' /\ (faults' = 0 /\ "linkWhenFull" \notin Habits => Exact(fs)')
      BY <2>1, <2>2 DEF NInv, Fine
    <2>4. last' \in [threw : BOOLEAN, hit : BOOLEAN]
      BY <2>1
    <2> QED
      BY <2>2, <2>3, <2>4 DEF NInv
  <1>2. CASE UNCHANGED vars
    <2>1. fs' = fs /\ last' = last /\ faults' = faults
      BY <1>2 DEF vars
    <2>2. PICK g : g = fs
      OBVIOUS
    <2>3. Good(g) /\ (faults = 0 /\ "linkWhenFull" \notin Habits => Exact(g)) /\ fs' = g
      BY <2>1, <2>2 DEF NInv
    <2>4. Good(fs)' /\ (faults' = 0 /\ "linkWhenFull" \notin Habits => Exact(fs)')
      BY <2>1, <2>3
    <2>5. (FaultyCalls = {} => faults' = 0) /\ last' \in [threw : BOOLEAN, hit : BOOLEAN]
          /\ faults' \in 0 .. MaxFaults
      BY <2>1 DEF NInv
    <2> QED
      BY <2>4, <2>5 DEF NInv
  <1> QED
    BY <1>1, <1>2


-----------------------------------------------------------------------------
(* What the properties of Namespace say of a filesystem that is Good *)

LEMMA SlotIs ==
    ASSUME Good(fs), NEW d \in LiveDirs, NEW n \in Names
    PROVE  \/ fs.ents[d][n] = <<>>
           \/ \E j \in fs.bitmap \ {RootIno} : fs.ents[d][n] = <<j>>
  BY Zenon DEF Good, Shape, Slots, Dirs, LiveDirs

LEMMA NamesAre == ASSUME Good(fs), NEW i PROVE NamesOf(i) = Places(fs, i)
  <1>1. FsType(fs) /\ LiveDirs = Dirs(fs) /\ Dirs(fs) \subseteq Inodes
    BY DEF Good, Shape, LiveDirs, Dirs, FsType
  <1> DEFINE In(d, n) == {<<d, n, k>> : k \in {k \in DOMAIN fs.ents[d][n] : fs.ents[d][n][k] = i}}
  <1>0. NamesOf(i) = UNION {In(d, n) : d \in LiveDirs, n \in Names}
    BY DEF NamesOf
  <1>2. ASSUME NEW t \in NamesOf(i) PROVE t \in Places(fs, i)
    <2>1. PICK d \in LiveDirs, n \in Names : t \in In(d, n)
      <3> HIDE DEF In
      <3> QED
        BY <1>0, <1>2
    <2>2. PICK k \in DOMAIN fs.ents[d][n] : fs.ents[d][n][k] = i /\ t = <<d, n, k>>
      BY <2>1
    <2>3. k = 1 /\ fs.ents[d][n] = <<i>>
      BY <2>2, SlotIs
    <2>4. At(fs, d, n, i) /\ t = <<d, n, 1>> /\ d \in Inodes
      BY <1>1, <2>2, <2>3 DEF At
    <2> QED
      BY <2>4 DEF Places
  <1>3. ASSUME NEW t \in Places(fs, i) PROVE t \in NamesOf(i)
    <2>1. PICK d \in Inodes, n \in Names : t = <<d, n, 1>> /\ At(fs, d, n, i)
      BY <1>3 DEF Places
    <2>2. d \in LiveDirs /\ fs.ents[d][n] = <<i>>
      BY <1>1, <2>1 DEF At
    <2>3. 1 \in {k \in DOMAIN fs.ents[d][n] : fs.ents[d][n][k] = i}
      BY <2>2
    <2>4. t \in In(d, n)
      BY <2>1, <2>3
    <2> HIDE DEF In
    <2> QED
      BY <1>0, <2>2, <2>4
  <1> QED
    BY <1>2, <1>3

LEMMA MeaningIs == ASSUME Good(fs), NEW i
                   PROVE  (Named(i) <=> Held(fs, i)) /\ LinksNeeded(i) = Need(fs, i)
  <1>1. FsType(fs) /\ LiveDirs = Dirs(fs)
    BY DEF Good, Shape, LiveDirs, Dirs
  <1>2. \A j : Named(j) <=> Held(fs, j)
    BY <1>1, NamesAre, HeldIs DEF Named
  <1>3. {d \in LiveDirs : Named(d) /\ fs.dotdot[d] = i} = Kids(fs, i)
    BY <1>1, <1>2 DEF Kids
  <1> QED
    BY <1>2, <1>3, NamesAre DEF LinksNeeded, Need

-----------------------------------------------------------------------------
(* Theorems *)

\* The inode table stays one of inodes of a known kind, with a link count that is
\* never negative: no call takes the last link of an inode twice.
THEOREM TypeCorrect == ASSUME Sober PROVE Spec => []TypeOK
  <1>1. NInv => TypeOK
    <2> SUFFICES ASSUME NInv PROVE TypeOK
      OBVIOUS
    <2>1. FsType(fs)
      BY DEF NInv, Good, Shape
    <2>2. \A d \in Inodes, n \in Names : fs.ents[d][n] \in Seq(Inodes)
      BY <2>1 DEF FsType
    <2>3. /\ fs.mode \in [Inodes -> {"none", "file", "dir", "symlink"}]
          /\ fs.links \in [Inodes -> Nat]
          /\ fs.bitmap \subseteq Inodes
          /\ fs.dotdot \in [Inodes -> Inodes]
          /\ fs.target \in [Inodes -> Targets \cup {<<>>}]
      BY <2>1 DEF FsType
    <2> QED
      BY <2>2, <2>3 DEF TypeOK, NInv
  <1> QED
    BY <1>1, NamesInit, NamesNext, PTL DEF Spec

\* A directory never has two entries of one name, although ext2fs_link does not look
\* for one before it adds another: create_file and rename only get there after the
\* lookup that the callers of glue.c make has found nothing.
THEOREM NamesDiffer == ASSUME Sober PROVE Spec => []UniqueNames
  <1>1. NInv => UniqueNames
    <2> SUFFICES ASSUME Good(fs), NEW d \in LiveDirs, NEW n \in Names
                 PROVE  Len(fs.ents[d][n]) <= 1
      BY DEF NInv, UniqueNames
    <2>1. CASE fs.ents[d][n] = <<>>
      BY <2>1
    <2>2. ASSUME NEW j \in fs.bitmap, fs.ents[d][n] = <<j>> PROVE Len(fs.ents[d][n]) <= 1
      BY <2>2
    <2> QED
      BY <2>1, <2>2, SlotIs
  <1> QED
    BY <1>1, NamesInit, NamesNext, PTL DEF Spec

\* No entry of a directory leads to an inode that is free and that the next create
\* would reuse, whichever disk accesses of mkdir, link, symlink, unlink and rmdir fail.
THEOREM NamesAlive == ASSUME Sober PROVE Spec => []NoDanglingName
  <1>1. NInv => NoDanglingName
    <2> SUFFICES ASSUME Good(fs), NEW d \in LiveDirs, NEW n \in Names, NEW k \in DOMAIN fs.ents[d][n]
                 PROVE  fs.ents[d][n][k] \in fs.bitmap
      BY DEF NInv, NoDanglingName
    <2> QED
      BY SlotIs
  <1> QED
    BY <1>1, NamesInit, NamesNext, PTL DEF Spec

\* With the same disk errors, and with full disks in link() too, i_links_count of an
\* inode that has a name never falls below the number of its names: an error may leave
\* it too high, never too low.
THEOREM NothingFreedEarly == ASSUME Sober PROVE Spec => []LinkCountsEnough
  <1>1. NInv => LinkCountsEnough
    <2> SUFFICES ASSUME Good(fs) PROVE LinkCountsEnough
      BY DEF NInv
    <2> QED
      BY MeaningIs DEF LinkCountsEnough, Good, Enough
  <1> QED
    BY <1>1, NamesInit, NamesNext, PTL DEF Spec

\* As long as no disk access has failed and no link() met a full disk, i_links_count is
\* exactly the number of names, "." and ".." of every inode in use: the inode is freed
\* with its last name.  open, mkdir, symlink and a rename to a new name may meet a full
\* disk: they have changed nothing by then.
THEOREM CountsExactUntilFault ==
    ASSUME Sober, "linkWhenFull" \notin Habits PROVE Spec => [](faults = 0 => LinkCountsExact)
  <1>1. NInv => (faults = 0 => LinkCountsExact)
    <2> SUFFICES ASSUME Good(fs), Exact(fs) PROVE LinkCountsExact
      BY DEF NInv
    <2> QED
      BY MeaningIs DEF LinkCountsExact, Exact, Counted
  <1> QED
    BY <1>1, NamesInit, NamesNext, PTL DEF Spec

\* The same for a disk that does not fail, but may be full.
THEOREM CountsExact ==
    ASSUME Sober, FaultyCalls = {}, "linkWhenFull" \notin Habits PROVE Spec => []LinkCountsExact
  <1>1. NInv => LinkCountsExact
    <2> SUFFICES ASSUME Good(fs), Exact(fs) PROVE LinkCountsExact
      BY DEF NInv
    <2> QED
      BY MeaningIs DEF LinkCountsExact, Exact, Counted
  <1> QED
    BY <1>1, NamesInit, NamesNext, PTL DEF Spec

\* When no disk access fails, a call that throws has changed nothing: every check of
\* glue.c that makes a call fail comes before its first write, in a rename that
\* removes its target too, and so does the allocation that fails on a full disk, but
\* for the one in link().
THEOREM ThrowIsNothing ==
    ASSUME Sober, FaultyCalls = {}, "linkWhenFull" \notin Habits PROVE Spec => ThrowsUnchanged
  <1>1. NInv /\ [Next]_vars => [last'.threw => fs' = fs]_vars
    <2> SUFFICES ASSUME NInv, Next PROVE last'.threw => fs' = fs
      OBVIOUS
    <2>1. PICK g, ret, hit :
            /\ Fine(fs, g, ret, hit) /\ hit \in BOOLEAN
            /\ fs' = g /\ last' = [threw |-> ret \in {"neg", "full"}, hit |-> hit]
            /\ hit => FaultyCalls # {} /\ faults < MaxFaults /\ faults' = faults + 1
            /\ ~hit => faults' = faults
      BY NextIs, Zenon DEF NInv, Stepping
    <2>2. ~hit /\ (last'.threw => ret # "ok")
      BY <2>1
    <2> QED
      BY <2>1, <2>2 DEF Fine
  <1> QED
    BY <1>1, NamesInit, NamesNext, PTL DEF Spec, ThrowsUnchanged

LEMMA DotdotLeadsBack ==
    ASSUME Good(fs), NEW d \in LiveDirs, NEW i \in Below({d})
    PROVE  i # RootIno /\ (fs.mode[i] = "dir" => fs.dotdot[i] = d)
  <1>1. PICK n \in Names : i \in {fs.ents[d][n][k] : k \in DOMAIN fs.ents[d][n]}
    BY DEF Below
  <1>2. fs.ents[d][n] = <<i>> /\ i \in fs.bitmap /\ i # RootIno
    BY <1>1, SlotIs
  <1>3. At(fs, d, n, i) /\ (fs.mode[i] = "dir" => i \in Dirs(fs))
    BY <1>2 DEF At, LiveDirs, Dirs
  <1> QED
    BY <1>2, <1>3 DEF Good, Shape, OneParent

\* Rooted says that everything in use has a path.
LEMMA RootedReaches ==
    ASSUME Good(fs), Rooted(fs) PROVE fs.bitmap \subseteq Subtree({RootIno})
  <1> DEFINE R == Subtree({RootIno})
  <1>1. RootIno \in R /\ Shut(fs, R)
    BY Constants, SubtreeShut
  <1> HIDE DEF R
  <1> SUFFICES ASSUME fs.bitmap \ R # {} PROVE FALSE
    BY DEF R
  <1>2. fs.bitmap \ R \in SUBSET (fs.bitmap \ {RootIno})
    BY <1>1
  <1>3. PICK d, n, i : At(fs, d, n, i) /\ d \notin fs.bitmap \ R /\ i \in fs.bitmap \ R
    BY <1>2 DEF Rooted
  <1>4. d \in R
    BY <1>3 DEF At, Dirs
  <1> QED
    BY <1>1, <1>3, <1>4 DEF Shut

\* Every allocated inode has a path from the root and the directories form a tree, as
\* long as the disk does not fail, no link() meets a full disk and no directory is moved
\* below itself: whatever rename moves stays named from outside of it.
THEOREM AllHavePaths ==
    ASSUME Sober, FaultyCalls = {}, Habits \cap {"renameInside", "linkWhenFull"} = {}
    PROVE  Spec => []Tree
  <1>1. NInv => Tree
    <2> SUFFICES ASSUME NInv PROVE Tree
      OBVIOUS
    <2>1. Good(fs) /\ Rooted(fs)
      BY DEF NInv, Exact
    <2> QED
      BY <2>1, DotdotLeadsBack, RootedReaches DEF Tree
  <1> QED
    BY <1>1, NamesInit, NamesNext, PTL DEF Spec

\* A directory has one name, and its ".." names the directory that has it: rename
\* moves both together, and rmdir uncounts the parent that had the entry.
THEOREM DotdotIsParent == ASSUME Sober
    PROVE Spec => [](\A d \in LiveDirs : \A i \in Below({d}) : fs.mode[i] = "dir" => fs.dotdot[i] = d)
  <1>1. NInv => \A d \in LiveDirs : \A i \in Below({d}) : fs.mode[i] = "dir" => fs.dotdot[i] = d
    BY DotdotLeadsBack DEF NInv
  <1> QED
    BY <1>1, NamesInit, NamesNext, PTL DEF Spec
=============================================================================
