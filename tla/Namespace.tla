----------------------------- MODULE Namespace -----------------------------
(***************************************************************************)
(* The calls of src/glue.c that change names: open with O_CREAT, mkdir,    *)
(* link, symlink, unlink, rmdir and rename, over libext2fs.                *)
(*                                                                         *)
(* Each call is atomic: it suspends at its disk accesses, but the queue    *)
(* lets no other C call run meanwhile (OpQueue: OneCallAtATime).  Any of   *)
(* its disk accesses may fail, though, and the call returns then with the  *)
(* writes made so far.  So a call is a set of outcomes, each the state it  *)
(* leaves, how it returns and whether the disk failed; the functions of    *)
(* glue.c are operators from a filesystem to its outcomes.                 *)
(*                                                                         *)
(* External: libext2fs.  ext2fs_link looks for no entry of the same name,  *)
(* ext2fs_mkdir and ext2fs_symlink do; namei finds the first entry of a    *)
(* name, and ext2fs_unlink removes the first.                              *)
(***************************************************************************)
EXTENDS Naturals, Sequences, FiniteSets, SequencesExt

CONSTANTS Inodes,     \* the inode numbers of the filesystem
          RootIno,    \* EXT2_ROOT_INO
          Names,      \* file names
          Paths,      \* absolute paths used by the callers, as name sequences
          Targets,    \* contents of symbolic links, absolute too
          Calls,      \* the calls the program makes
          Habits,     \* what it does that a POSIX caller would be refused, and
                      \* what the disk does that the code does not survive
          FaultyCalls,\* the calls in which disk accesses may fail
          MaxFaults,  \* how many disk accesses fail in a behaviour
          MaxWalk     \* steps of a path walk, EXT2_ET_SYMLINK_LOOP beyond

ASSUME NamespaceAssumption ==
    /\ Inodes \subseteq Nat /\ RootIno \in Inodes
    /\ IsFiniteSet(Inodes) /\ IsFiniteSet(Names)
    /\ Paths \subseteq Seq(Names) \ {<<>>}
    /\ Targets \subseteq Seq(Names) \ {<<>>}
    /\ FaultyCalls \subseteq Calls
    /\ MaxFaults \in Nat /\ MaxWalk \in Nat

VARIABLES fs,       \* the filesystem: inode table, inode bitmap, directories
          last,     \* the last call: did it throw, did the disk fail in it
          faults    \* failed disk accesses so far

vars == <<fs, last, faults>>

NoNames == [n \in Names |-> <<>>]

\* An empty filesystem.  ents[d][n] are the inodes that directory d has under
\* the name n, in the order in which they are found; "." is left out.
Init == /\ fs = [mode   |-> [i \in Inodes |-> IF i = RootIno THEN "dir" ELSE "none"],
                 links  |-> [i \in Inodes |-> IF i = RootIno THEN 2 ELSE 0],
                 bitmap |-> {RootIno},
                 ents   |-> [i \in Inodes |-> NoNames],
                 dotdot |-> [i \in Inodes |-> RootIno],
                 target |-> [i \in Inodes |-> <<>>]]
        /\ last = [threw |-> FALSE, hit |-> FALSE]
        /\ faults = 0

-----------------------------------------------------------------------------
(* Outcomes: ret is "ok" (0), "neg" (a negative errno, which binding.js     *)
(* throws), "full" (-ENOSPC because the disk is full, thrown too) or "pos"  *)
(* (the disk's own EIO, which __translate_error leaves positive because it  *)
(* is below EXT2_ET_BASE, and nobody throws).                               *)

Outcome(f, ret, hit) == [fs |-> f, ret |-> ret, hit |-> hit]
Ok(f)    == {Outcome(f, "ok", FALSE)}
Fails(f) == {Outcome(f, "neg", FALSE)}
\* There is no block for one more entry, which needs no disk access to fail.
DiskFull(f) == {Outcome(f, "full", FALSE)}
\* A disk access fails and its error goes through translate_error.
DiskFails(f) == {Outcome(f, "pos", TRUE)}
\* Disk accesses that change nothing modelled: reads, timestamps, flushes.
Access(f) == Ok(f) \cup DiskFails(f)
\* One write that takes f to g.
Write(f, g) == Ok(g) \cup DiskFails(f)

\* if (ret) goto out: the rest only runs after a 0.
Then(outcomes, rest(_)) ==
    UNION { IF o.ret # "ok" THEN {o}
            ELSE {[q EXCEPT !.hit = @ \/ o.hit] : q \in rest(o.fs)} : o \in outcomes}

\* return -ret, as open and mkdir do: every error is negative.
Negated(outcomes) == {[o EXCEPT !.ret = IF @ = "pos" THEN "neg" ELSE @] : o \in outcomes}

-----------------------------------------------------------------------------
(* Paths (ext2fs_namei) *)

\* One step: the next name of the path, or the path of a link that is followed.
\* via tells that one was.
WalkStart(path) == [at |-> RootIno, rest |-> path, err |-> "none", via |-> FALSE]
WalkStep(f, w, follow) ==
    IF w.err # "none" \/ w.rest = <<>> THEN w
    ELSE IF f.mode[w.at] # "dir" THEN [w EXCEPT !.err = "NO_DIRECTORY"]
    ELSE LET found == f.ents[w.at][Head(w.rest)]
             left  == Tail(w.rest)
         IN IF found = <<>> THEN [w EXCEPT !.err = "FILE_NOT_FOUND"]
            ELSE IF f.mode[Head(found)] = "symlink" /\ (left # <<>> \/ follow)
                 THEN [w EXCEPT !.at = RootIno, !.rest = f.target[Head(found)] \o left, !.via = TRUE]
                 ELSE [w EXCEPT !.at = Head(found), !.rest = left]

Walk(f, path, follow) ==
    LET walked[k \in 0 .. MaxWalk] ==
          IF k = 0 THEN WalkStart(path) ELSE WalkStep(f, walked[k - 1], follow)
        End == walked[MaxWalk]
    IN IF End.err = "none" /\ End.rest # <<>> THEN [End EXCEPT !.err = "SYMLINK_LOOP"]
       ELSE End

Found(w) == w.err = "none"

\* The last component as it is.
Namei(f, path) == Walk(f, path, FALSE)
NameiFollow(f, path) == Walk(f, path, TRUE)
\* The path up to and with its last slash: a link there is followed.
ParentDir(f, path) == Walk(f, Front(path), TRUE)

-----------------------------------------------------------------------------
(* The pieces the calls are made of *)

AddEntry(f, d, n, i, front) ==
    [f EXCEPT !.ents[d][n] = IF front THEN <<i>> \o @ ELSE Append(@, i)]
DropEntry(f, d, n) == [f EXCEPT !.ents[d][n] = Tail(@)]
AddLinks(f, i, k) == [f EXCEPT !.links[i] = @ + k]
DropLink(f, i) == [f EXCEPT !.links[i] = @ - 1]
Allocate(f, i) == [f EXCEPT !.bitmap = @ \cup {i}]
Release(f, i) == [f EXCEPT !.bitmap = @ \ {i}]

\* ext2fs_new_inode: the first free inode.
FreeInodes(f) == Inodes \ f.bitmap
NewInode(f) == CHOOSE i \in FreeInodes(f) : \A j \in FreeInodes(f) : i <= j

\* ext2fs_link, with ext2fs_expand_dir when the directory is full: that fails
\* when the disk is full too.  The new entry may come before or after another
\* one of its name, wherever there is room.
LinkEntry(f, d, n, i) ==
    IF f.mode[d] # "dir" THEN Fails(f)
    ELSE DiskFull(f) \cup DiskFails(f)
         \cup UNION {Ok(AddEntry(f, d, n, i, front)) : front \in BOOLEAN}

\* unlink_file_by_name: the path is cut at its last slash, without it, so a
\* symbolic link to the directory is not followed here.
UnlinkFileByName(f, path) ==
    LET d == Namei(f, Front(path)) IN
    IF ~Found(d) \/ f.mode[d.at] # "dir" \/ f.ents[d.at][Last(path)] = <<>> THEN Fails(f)
    ELSE Then(Write(f, DropEntry(f, d.at, Last(path))), Access)

\* Slip: the inode goes back to the bitmap with its first link.
RemoveInodeAlways(f, i) ==
    IF f.links[i] = 0 THEN Ok(f) ELSE Ok(Release(DropLink(f, i), i))

\* remove_inode: one link less, and after the last one the inode is free.  An
\* error while its extended attributes are freed is forgotten, one while its
\* blocks are punched is returned; both leave the inode allocated.
RemoveInode(f, i) ==
    LET g == DropLink(f, i) IN
    CASE f.links[i] = 0 -> Access(f)
      [] f.links[i] > 1 -> Write(f, g)
      [] OTHER -> Ok(Release(g, i))
                  \cup {Outcome(g, "ok", TRUE), Outcome(g, "pos", TRUE)}
                  \cup DiskFails(f) \cup DiskFails(Release(f, i))

-----------------------------------------------------------------------------
(* The calls *)

\* Slip: the inode is taken from the bitmap before the entry is written.
CreateFileAllocFirst(f, path) ==
    LET d == ParentDir(f, path)
        i == NewInode(f)
    IN IF ~Found(d) \/ FreeInodes(f) = {} THEN Fails(f)
       ELSE Then(LinkEntry(Allocate(f, i), d.at, Last(path), i),
                 LAMBDA g : Write(g, [g EXCEPT !.mode[i] = "file", !.links[i] = 1]))

\* create_file: the entry is written before the inode it names.
CreateFile(f, path) ==
    LET d == ParentDir(f, path)
        i == NewInode(f)
    IN IF ~Found(d) \/ FreeInodes(f) = {} THEN Fails(f)
       ELSE Then(LinkEntry(f, d.at, Last(path), i),
                 LAMBDA g : Write(Allocate(g, i),
                                  [Allocate(g, i) EXCEPT !.mode[i] = "file", !.links[i] = 1]))

\* What string_to_inode finds for open.
Lookup(f, path, flags) == IF "NOFOLLOW" \in flags THEN Namei(f, path) ELSE NameiFollow(f, path)

\* The end of node_ext2fs_open on an inode of that mode: with O_DIRECTORY it has
\* to be a directory, and ext2fs_file_open reads it.
OpenFile(f, mode, flags) ==
    IF "DIRECTORY" \in flags /\ mode # "dir" THEN Fails(f) ELSE Access(f)

\* node_ext2fs_open with O_CREAT: string_to_inode answers 0, not found, to any
\* error, so a file that could not be read is created again.
OpenCreate(f, path, flags) ==
    LET at == Lookup(f, path, flags)
        missing == Then(CreateFile(f, path), LAMBDA g : OpenFile(g, "file", flags))
    IN Negated(
         IF ~Found(at) THEN missing
         ELSE (IF "EXCL" \in flags THEN Fails(f) ELSE OpenFile(f, f.mode[at.at], flags))
              \cup {[o EXCEPT !.hit = TRUE] : o \in missing})

\* ext2fs_mkdir: a new empty directory i under d.  libext2fs writes the entry
\* before the parent's count, and takes i from the bitmap only after both.
MkdirIn(f, path, d, i) ==
    LET entered == AddEntry(f, d, Last(path), i, FALSE)
    IN DiskFull(f) \cup DiskFails(f)
       \cup {Outcome(entered, "pos", TRUE) : h \in {"mkdirCutShort"} \cap Habits}
       \cup Ok([Allocate(AddLinks(entered, d, 1), i)
                   EXCEPT !.mode[i] = "dir", !.links[i] = 2, !.ents[i] = NoNames, !.dotdot[i] = d])

\* node_ext2fs_mkdir; an error while the mode is set afterwards is returned.
Mkdir(f, path) ==
    LET d == ParentDir(f, path)
    IN IF ~Found(d) \/ FreeInodes(f) = {} \/ f.mode[d.at] # "dir"
          \/ f.ents[d.at][Last(path)] # <<>>
       THEN Fails(f)
       ELSE Negated(Then(Access(f), LAMBDA g :
              Then(MkdirIn(g, path, d.at, NewInode(f)), Access)))

\* Slip: the entry first, then the count.
LinkThenCount(f, d, n, i) ==
    Then(LinkEntry(f, d, n, i), LAMBDA g : Write(g, AddLinks(g, i, 1)))
\* The count is written first, then the entry.
LinkCounted(f, d, n, i) ==
    Then(Write(f, AddLinks(f, i, 1)), LAMBDA g : LinkEntry(g, d, n, i))

\* node_ext2fs_link: when the directory of dest is not found, err is set and
\* ret, still 0, is returned.
Link(f, src, dest) ==
    LET d == ParentDir(f, dest)
        i == Namei(f, src)
    IN IF ~Found(d) THEN Ok(f)
       ELSE {Outcome(f, "ok", TRUE)} \cup
            IF ~Found(i) THEN Fails(f)
            ELSE Then(Access(f), LAMBDA g :
                   Then(LinkCounted(g, d.at, Last(dest), i.at), Access))

\* Slip: the arguments of symlink are swapped.
SymlinkContentSwapped(to, dest) == dest
\* What symlink(target, path) stores.
SymlinkContent(to, dest) == to

\* node_ext2fs_symlink: libext2fs writes the entry last, then changes its bitmaps
\* in memory.
Symlink(f, to, dest) ==
    LET d == ParentDir(f, dest)
        i == NewInode(f)
        made == [Allocate(AddEntry(f, d.at, Last(dest), i, FALSE), i)
                   EXCEPT !.mode[i] = "symlink", !.links[i] = 1, !.target[i] = SymlinkContent(to, dest)]
    IN IF ~Found(d) \/ FreeInodes(f) = {} \/ f.mode[d.at] # "dir"
          \/ f.ents[d.at][Last(dest)] # <<>>
       THEN Fails(f)
       ELSE DiskFull(f) \cup Then(Write(f, made), Access)

\* node_ext2fs_unlink; an error of ext2fs_check_directory is taken for "not a
\* directory".
Unlink(f, path) ==
    LET i == Namei(f, path)
        remove == Then(UnlinkFileByName(f, path), LAMBDA g : RemoveInode(g, i.at))
    IN IF ~Found(i) THEN Fails(f)
       ELSE DiskFails(f) \cup
            IF f.mode[i.at] # "dir" THEN remove
            ELSE Fails(f) \cup {[o EXCEPT !.hit = TRUE] : o \in remove}

\* Directories have to be "removed" twice.
RemoveDir(f, i) == Then(RemoveInode(f, i), LAMBDA g : RemoveInode(g, i))

\* rmdir_proc saw nothing but "." and "..".
IsEmpty(f, i) == \A n \in Names : f.ents[i][n] = <<>>

\* node_ext2fs_rmdir: the parent to uncount is the one ".." names.
Rmdir(f, path) ==
    LET i == Namei(f, path)
        up == f.dotdot[i.at]
    IN IF ~Found(i) \/ f.mode[i.at] # "dir" \/ ~IsEmpty(f, i.at) THEN Fails(f)
       ELSE Then(Access(f), LAMBDA g :
            Then(UnlinkFileByName(g, path), LAMBDA h :
            Then(RemoveDir(h, i.at), LAMBDA k :
                 Write(k, IF k.links[up] > 1 THEN DropLink(k, up) ELSE k))))

\* Slip: ".." keeps naming the old parent.
MoveDirKeepsDotdot(f, i, fromDir, toDir) ==
    Ok(AddLinks(DropLink(f, fromDir), toDir, 1))
\* Slip: ".." moves, and the parents' counts do not learn of it.
MoveDirUncounted(f, i, fromDir, toDir) == Ok([f EXCEPT !.dotdot[i] = toDir])
\* A directory that moves: "..", then one link less for its old parent and one
\* more for its new one.
MoveDir(f, i, fromDir, toDir) ==
    Then(Write(f, [f EXCEPT !.dotdot[i] = toDir]), LAMBDA g :
    Then(Write(g, DropLink(g, fromDir)), LAMBDA h : Write(h, AddLinks(h, toDir, 1))))

\* The last step of rename, and the flush behind it.
RemoveOldName(f, from) == Then(UnlinkFileByName(f, from), Access)

\* Slip: an existing target is linked over.
RemoveTargetNot(f, t, to) == Ok(f)
\* If the target exists, unlink it first.
RemoveTarget(f, t, to) ==
    IF ~Found(t) THEN Ok(f)
    ELSE IF f.mode[t.at] = "dir" THEN Rmdir(f, to) ELSE Unlink(f, to)

\* node_ext2fs_rename: the target is removed, the new name linked, then the
\* old one unlinked.
Rename(f, from, to) ==
    LET i == Namei(f, from)
        t == Namei(f, to)
        fromDir == ParentDir(f, from)
        toDir == ParentDir(f, to)
    IN IF ~Found(i) \/ ~(Found(t) \/ t.err = "FILE_NOT_FOUND") THEN Fails(f)
       ELSE IF Found(t) /\ t.at = i.at THEN Ok(f)
       ELSE IF ~Found(fromDir) \/ ~Found(toDir) THEN Fails(f)
       ELSE Then(Access(f), LAMBDA g :
            Then(RemoveTarget(g, t, to), LAMBDA h :
            Then(LinkEntry(h, toDir.at, Last(to), i.at), LAMBDA k :
            Then(IF k.mode[i.at] = "dir" THEN MoveDir(k, i.at, fromDir.at, toDir.at) ELSE Ok(k),
                 LAMBDA m : Then(Access(m), LAMBDA q : RemoveOldName(q, from))))))

-----------------------------------------------------------------------------
(* What the callers do.  Some calls that a POSIX system refuses, or that    *)
(* the glue handles differently, are made only when Habits says so, and so  *)
(* is what a full or failing disk makes of a call that cannot undo it.      *)

Exists(path) == Found(Namei(fs, path))
IsDir(path) == Exists(path) /\ fs.mode[Namei(fs, path).at] = "dir"
\* The directory of path is named through a symbolic link.
ThroughLink(path) == Found(ParentDir(fs, path)) /\ ParentDir(fs, path).via
ParentIsDir(path) == Found(ParentDir(fs, path)) /\ fs.mode[ParentDir(fs, path).at] = "dir"
\* There is an entry of that name, whatever it leads to.
HasEntry(path) == ParentIsDir(path) /\ fs.ents[ParentDir(fs, path).at][Last(path)] # <<>>
\* The directories that exist, the inodes that they name, and all that names lead
\* to from a set of inodes: the least set with these and what is below any of it.
LiveDirs == {d \in fs.bitmap : fs.mode[d] = "dir"}
Below(S) == {i \in Inodes : \E d \in S \cap LiveDirs, n \in Names :
                              i \in {fs.ents[d][n][k] : k \in DOMAIN fs.ents[d][n]}}
Subtree(S) ==
    LET closed == {T \in SUBSET Inodes : S \subseteq T /\ Below(T) \subseteq T}
    IN {i \in Inodes : \A T \in closed : i \in T}
\* The directory of to is directory from, or somewhere below it.
Inside(from, to) ==
    /\ IsDir(from) /\ Found(ParentDir(fs, to))
    /\ ParentDir(fs, to).at \in Subtree({Namei(fs, from).at})

Habit(h, when) == when => h \in Habits

\* The program makes the call and gets one of its outcomes.
Return(call, outcomes) ==
    /\ call \in Calls
    /\ \E o \in outcomes :
         /\ o.hit => call \in FaultyCalls /\ faults < MaxFaults
         /\ fs' = o.fs
         /\ last' = [threw |-> o.ret \in {"neg", "full"}, hit |-> o.hit]
         /\ faults' = IF o.hit THEN faults + 1 ELSE faults

DoOpen ==
    \E path \in Paths, flags \in SUBSET {"EXCL", "DIRECTORY", "NOFOLLOW"} :
      /\ Habit("createOverLink", HasEntry(path) /\ ~Found(Lookup(fs, path, flags)))
      /\ Habit("createDirectory", "DIRECTORY" \in flags /\ ~Found(Lookup(fs, path, flags)))
      /\ Return("open", OpenCreate(fs, path, flags))

DoMkdir == \E path \in Paths : Return("mkdir", Mkdir(fs, path))

DoLink ==
    \E src, dest \in Paths :
      /\ Habit("linkNowhere", ~Found(ParentDir(fs, dest)))
      /\ Habit("linkUnderFile", Found(ParentDir(fs, dest)) /\ ~ParentIsDir(dest))
      /\ Habit("linkOver", HasEntry(dest))
      /\ Habit("linkDir", IsDir(src))
      /\ Return("link", {o \in Link(fs, src, dest) : Habit("linkWhenFull", o.ret = "full")})

DoSymlink == \E to \in Targets, dest \in Paths : Return("symlink", Symlink(fs, to, dest))

DoUnlink == \E path \in Paths : Return("unlink", Unlink(fs, path))

DoRmdir == \E path \in Paths : Return("rmdir", Rmdir(fs, path))

DoRename ==
    \E from, to \in Paths :
      /\ Habit("renameThroughLink", ThroughLink(from))
      /\ Habit("renameInside", Inside(from, to))
      /\ Return("rename", {o \in Rename(fs, from, to) :
                            Habit("renameOverWhenFull", o.ret = "full" /\ Exists(to))})

Next == DoOpen \/ DoMkdir \/ DoLink \/ DoSymlink \/ DoUnlink \/ DoRmdir \/ DoRename

Spec == Init /\ [][Next]_vars

-----------------------------------------------------------------------------
(* Safety *)

\* The entries that name i, in the directories that exist.
NamesOf(i) == UNION {{<<d, n, k>> : k \in {k \in DOMAIN fs.ents[d][n] : fs.ents[d][n][k] = i}} :
                       d \in LiveDirs, n \in Names}
Named(i) == i = RootIno \/ NamesOf(i) # {}
\* What i_links_count has to be: the names, and for a directory "." and the
\* ".." of each directory below it.
LinksNeeded(i) == Cardinality(NamesOf(i)) +
    IF fs.mode[i] = "dir"
    THEN 1 + Cardinality({d \in LiveDirs : Named(d) /\ fs.dotdot[d] = i}) ELSE 0

TypeOK ==
    /\ fs.mode \in [Inodes -> {"none", "file", "dir", "symlink"}]
    /\ fs.links \in [Inodes -> Nat]
    /\ fs.bitmap \subseteq Inodes
    /\ fs.dotdot \in [Inodes -> Inodes]
    /\ fs.target \in [Inodes -> Targets \cup {<<>>}]
    /\ \A d \in Inodes, n \in Names : fs.ents[d][n] \in Seq(Inodes)
    /\ last \in [threw : BOOLEAN, hit : BOOLEAN]
    /\ faults \in 0 .. MaxFaults

\* A name never leads to a free inode, which the next create would reuse.
NoDanglingName ==
    \A d \in LiveDirs, n \in Names : \A k \in DOMAIN fs.ents[d][n] :
        fs.ents[d][n][k] \in fs.bitmap

\* i_links_count counts the names, so that an inode is freed with the last.
LinkCountsExact == \A i \in fs.bitmap : fs.links[i] = LinksNeeded(i)

\* i_links_count is never too low: nothing is freed while it has a name.
LinkCountsEnough ==
    \A i \in fs.bitmap : Named(i) => fs.links[i] >= LinksNeeded(i)

\* A directory has one entry for a name.
UniqueNames == \A d \in LiveDirs, n \in Names : Len(fs.ents[d][n]) <= 1

\* Every allocated inode has a path from the root, and ".." leads back: the
\* directories form a tree.
Tree ==
    /\ fs.bitmap \subseteq Subtree({RootIno})
    /\ \A d \in LiveDirs : RootIno \notin Below({d})
    /\ \A d \in LiveDirs : \A i \in Below({d}) : fs.mode[i] = "dir" => fs.dotdot[i] = d

\* A call that throws has changed nothing.
ThrowsUnchanged == [][last'.threw => fs' = fs]_vars

\* A link() that returns has linked something.
LinkReturnsLinked == [][DoLink /\ ~last'.threw => fs' # fs]_vars

\* A disk error in a call makes the call throw.
DiskErrorsThrow == [][last'.hit => last'.threw]_vars

=============================================================================
