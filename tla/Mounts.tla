------------------------------- MODULE Mounts -------------------------------
(***************************************************************************)
(* Mounting, open files and unmounting: lib/ext2fs.js with open, close and *)
(* closeAllFileDescriptors of lib/fs.js and the object ids of src/pre.js.  *)
(*                                                                         *)
(* A descriptor is the pointer of an ext2_file_t that C has allocated;     *)
(* openFiles of lib/fs.js says which ones are good.  The two are kept in   *)
(* step across the C queue: C does its part when the call is served, and   *)
(* JavaScript its own some continuations later.  Other code runs between,  *)
(* and malloc may give a freed pointer out again.                          *)
(*                                                                         *)
(* Users are async tasks of the program, each with at most one descriptor. *)
(* The program calls umount when no task of that disk awaits an operation, *)
(* which is what withMountedDisk does once its fn has returned; it may     *)
(* leave descriptors open, and use them after an umount that succeeded.    *)
(***************************************************************************)
EXTENDS Naturals, Sequences, FiniteSets, SequencesExt

CONSTANTS Disks, Users,
          DiskOf,    \* [Users -> Disks]
          Handles,   \* the users that close with FileHandle.close()
          Reusers,   \* those that hand a stale descriptor to the next mount
          Pointers,  \* what malloc may return for an ext2_file_t
          Faulty,    \* the calls whose disk accesses may fail
          None

ASSUME MountsAssumption ==
    /\ DiskOf \in [Users -> Disks] /\ Handles \cup Reusers \subseteq Users
    /\ Faulty \subseteq {"mount", "open", "truncate", "read", "close", "umount"}
    /\ None \notin Disks \cup Pointers \cup Nat
    /\ IsFiniteSet(Disks) /\ Disks \cap Users = {}

VARIABLES fs,         \* how far lib/ext2fs.js is with each disk
          task,       \* what each user is doing
          fd,         \* the descriptor of each user
          openFiles,  \* lib/fs.js: the Map of each disk, in insertion order
          ids,        \* src/pre.js: the pool, the counter and the objects
          diskId,     \* the object id of each disk
          cFs, cFiles,\* C: the filesystems and the files allocated
          cLeft,      \* C: the disks with a filesystem left by a failed mount
          line,       \* C calls not yet done, oldest first (SerialServer)
          answered,   \* C calls done whose continuation has not run
          misuse      \* what C was asked to do with freed memory

js == <<fs, task, fd, openFiles, ids, diskId>>
c  == <<cFs, cFiles, cLeft, misuse>>
vars == <<js, c, line, answered>>

Ids == 1 .. Cardinality(Disks)
Request(who, what, ptr) == [who |-> who, what |-> what, ptr |-> ptr]

Init == /\ fs = [d \in Disks |-> "unmounted"]
        /\ task = [u \in Users |-> "idle"]
        /\ fd = [u \in Users |-> None]
        /\ openFiles = [d \in Disks |-> <<>>]
        /\ ids = [pool |-> <<>>, next |-> 0, objects |-> [i \in Ids |-> None]]
        /\ diskId = [d \in Disks |-> None]
        /\ cFs = {} /\ cLeft = {}
        /\ cFiles = [p \in Pointers |-> None]
        /\ line = <<>> /\ answered = <<>>
        /\ misuse = {}

-----------------------------------------------------------------------------
(* The object ids of pre.js *)

\* reserveId().  Slips: the pool is not used, and idPool[0] for idPool.shift().
ReserveIdFresh(s) == [id |-> s.next + 1, pool |-> s.pool, next |-> s.next + 1]
ReserveIdPeeks(s) ==
    IF s.pool = <<>> THEN [id |-> s.next + 1, pool |-> <<s.next + 1>>, next |-> s.next + 1]
    ELSE [id |-> Head(s.pool), pool |-> s.pool, next |-> s.next]
ReserveId(s) ==
    IF s.pool = <<>> THEN [id |-> s.next + 1, pool |-> <<>>, next |-> s.next + 1]
    ELSE [id |-> Head(s.pool), pool |-> Tail(s.pool), next |-> s.next]

\* setObject(wrapper) of d.
SetObject(d) ==
    LET r == ReserveId(ids)
    IN /\ ids' = [pool |-> r.pool, next |-> r.next, objects |-> [ids.objects EXCEPT ![r.id] = d]]
       /\ diskId' = [diskId EXCEPT ![d] = r.id]

\* deleteObject.
DeleteObject(id) == ids' = [ids EXCEPT !.objects[id] = None, !.pool = Append(@, id)]

-----------------------------------------------------------------------------
(* What the program calls *)

\* Slip: checkFd lets every descriptor pass.
AnyFd(u) == TRUE
\* checkFd.  Each mount has a Map of its own (fs.js:248, 259).  A descriptor that
\* outlived its umount is looked up in the Map of the mount it came from, which
\* closeAllFileDescriptors has emptied; or, by a user of Reusers, in that of the
\* next mount, where it passes if malloc has given the pointer out again.
CheckFd(u) == /\ \/ task[u] = "open"
                 \/ u \in Reusers /\ fs[DiskOf[u]] = "mounted"
              /\ Contains(openFiles[DiskOf[u]], fd[u])

\* mount up to its first C call.
Mount(d) ==
    /\ fs[d] = "unmounted"
    /\ SetObject(d)
    /\ fs' = [fs EXCEPT ![d] = "mounting"]
    /\ line' = Append(line, Request(d, "mount", None))
    /\ UNCHANGED <<task, fd, openFiles, c, answered>>

\* open: the path is copied to C (see Hooks), then the binding is called.
Open(u) ==
    /\ task[u] = "idle" /\ fs[DiskOf[u]] = "mounted"
    /\ task' = [task EXCEPT ![u] = "opening"]
    /\ line' = Append(line, Request(u, "path", None))
    /\ UNCHANGED <<fs, fd, openFiles, ids, diskId, c, answered>>

\* A user has a descriptor it may use: of this mount, or of one that is over.
HasFd(u) == \/ task[u] = "open" /\ fs[DiskOf[u]] = "mounted"
            \/ task[u] = "stale"

\* checkFd threw EBADF, and the user gives the descriptor up.
BadFd(u) == /\ task' = [task EXCEPT ![u] = "idle"] /\ fd' = [fd EXCEPT ![u] = None]
            /\ UNCHANGED <<fs, openFiles, ids, diskId, c, line, answered>>

\* read or write: checkFd, and a buffer of C to read into.
Use(u) ==
    /\ HasFd(u)
    /\ IF CheckFd(u)
       THEN /\ task' = [task EXCEPT ![u] = "using"]
            /\ line' = Append(line, Request(u, "buffer", fd[u]))
            /\ UNCHANGED <<fs, fd, openFiles, ids, diskId, c, answered>>
       ELSE BadFd(u)

\* close, or FileHandle.close, which drops the promise of close.
Close(u) ==
    /\ HasFd(u)
    /\ IF CheckFd(u)
       THEN /\ task' = [task EXCEPT ![u] = "closing"]
            /\ line' = Append(line, Request(u, "close", fd[u]))
            /\ UNCHANGED <<fs, fd, openFiles, ids, diskId, c, answered>>
       ELSE BadFd(u)

\* No task of d awaits an operation.
Quiet(d) == \A u \in Users : DiskOf[u] = d =>
               \/ task[u] \in {"idle", "open", "stale"}
               \/ u \in Handles /\ task[u] = "closing"

-----------------------------------------------------------------------------
(* umount *)

\* Slip: the files are not closed.
CloseNone(d, files) == /\ line' = Append(line, Request(d, "umount", None))
                       /\ fs' = [fs EXCEPT ![d] = "unmounting"]
\* The loop of closeAllFileDescriptors with files still in the Map, and what
\* follows it in umount.  A file is out of the Map before the next is taken.
CloseNext(d, files) ==
    IF files = <<>>
    THEN /\ line' = Append(line, Request(d, "umount", None))
         /\ fs' = [fs EXCEPT ![d] = "unmounting"]
    ELSE /\ line' = Append(line, Request(d, "close", Head(files)))
         /\ fs' = [fs EXCEPT ![d] = "closing"]

Umount(d) ==
    /\ fs[d] = "mounted" /\ Quiet(d)
    /\ CloseNext(d, openFiles[d])
    /\ UNCHANGED <<task, fd, openFiles, ids, diskId, c, answered>>

-----------------------------------------------------------------------------
(* C *)

DiskOfRequest(r) == IF r.who \in Disks THEN r.who ELSE DiskOf[r.who]

\* What the C call r does with memory it must not touch.
Misused(r) ==
    {m \in {"close"} : r.what = "close" /\ cFiles[r.ptr] = None} \cup
    {m \in {"read"}  : r.what = "read" /\ cFiles[r.ptr] = None} \cup
    {m \in {"fs"}    : r.what \in {"open", "read", "umount"} /\ DiskOfRequest(r) \notin cFs}

\* The files that a C call may allocate: open does, and keeps the file even
\* when it fails to truncate it.
Allocated(r, ok) ==
    IF r.what = "open" /\ (ok \/ "truncate" \in Faulty)
    THEN {p \in Pointers : cFiles[p] = None} ELSE {}

\* The oldest C call is done, whole.  A failed umount leaves the filesystem
\* open, and a failed close has freed the file.  A failed mount leaves nothing,
\* or, when it was ext2fs_read_bitmaps that failed, a filesystem that nobody has
\* a pointer to.
Serve ==
    /\ line # <<>>
    /\ LET r == Head(line)
           d == DiskOfRequest(r)
       IN /\ line' = Tail(line)
          /\ misuse' = misuse \cup Misused(r)
          /\ \E ok \in BOOLEAN :
               /\ ok \/ r.what \in Faulty
               /\ \E p \in Allocated(r, ok) \cup {r.ptr} :
                    /\ r.what = "open" /\ ok => p # None
                    /\ cFiles' = IF r.what = "close" THEN [cFiles EXCEPT ![r.ptr] = None]
                                 ELSE IF p \in Allocated(r, ok) THEN [cFiles EXCEPT ![p] = d]
                                 ELSE cFiles
                    /\ answered' = Append(answered, [req |-> r, ok |-> ok, ptr |-> p])
               /\ cFs' = CASE r.what = "mount" /\ ok  -> cFs \cup {d}
                           [] r.what = "umount" /\ ok -> cFs \ {d}
                           [] OTHER                   -> cFs
               /\ cLeft' \in IF r.what = "mount" /\ ~ok THEN {cLeft, cLeft \cup {d}} ELSE {cLeft}
    /\ UNCHANGED js

-----------------------------------------------------------------------------
(* The continuations *)

\* A path or a buffer is ready: the binding itself is called.
CallBinding(a) ==
    /\ a.req.what \in {"path", "buffer"}
    /\ line' = Append(line, [a.req EXCEPT !.what = IF @ = "path" THEN "open" ELSE "read"])
    /\ UNCHANGED js

\* The rest of mount.
Mounted(a) ==
    /\ a.req.what = "mount"
    /\ IF a.ok
       THEN /\ fs' = [fs EXCEPT ![a.req.who] = "mounted"]
            /\ openFiles' = [openFiles EXCEPT ![a.req.who] = <<>>]
            /\ UNCHANGED <<ids, diskId>>
       ELSE /\ fs' = [fs EXCEPT ![a.req.who] = "unmounted"]
            /\ DeleteObject(diskId[a.req.who])
            /\ diskId' = [diskId EXCEPT ![a.req.who] = None]
            /\ UNCHANGED openFiles
    /\ UNCHANGED <<task, fd, line>>

\* The rest of open.
Opened(a) ==
    /\ a.req.what = "open"
    /\ LET u == a.req.who
       IN IF a.ok
          THEN /\ task' = [task EXCEPT ![u] = "open"]
               /\ fd' = [fd EXCEPT ![u] = a.ptr]
               /\ openFiles' = [openFiles EXCEPT ![DiskOf[u]] =
                                  IF Contains(@, a.ptr) THEN @ ELSE Append(@, a.ptr)]
          ELSE task' = [task EXCEPT ![u] = "idle"] /\ UNCHANGED <<fd, openFiles>>
    /\ UNCHANGED <<fs, ids, diskId, line>>

\* The rest of read or write, which may have thrown.
Used(a) ==
    /\ a.req.what = "read"
    /\ task' = [task EXCEPT ![a.req.who] = "open"]
    /\ UNCHANGED <<fs, fd, openFiles, ids, diskId, line>>

\* Slip: openFiles.delete is forgotten.
KeepFile(files, ptr, ok) == files
\* openFiles.delete(fd) is the line after the await, and skipped by a throw.
DeleteFile(files, ptr, ok) == IF ok THEN RemoveFirst(files, ptr) ELSE files

\* The rest of close, for a user.
Closed(a) ==
    /\ a.req.what = "close" /\ a.req.who \in Users
    /\ LET u == a.req.who
       IN /\ openFiles' = [openFiles EXCEPT ![DiskOf[u]] = DeleteFile(@, a.ptr, a.ok)]
          /\ task' = [task EXCEPT ![u] = "idle"]
          /\ fd' = [fd EXCEPT ![u] = None]
    /\ UNCHANGED <<fs, ids, diskId, line>>

\* umount has rejected: the program gives up the descriptors it had open.
DropDescriptors(d) ==
    LET drop == {u \in Users : DiskOf[u] = d /\ task[u] = "open"}
    IN /\ task' = [u \in Users |-> IF u \in drop THEN "idle" ELSE task[u]]
       /\ fd' = [u \in Users |-> IF u \in drop THEN None ELSE fd[u]]

\* The rest of close, for closeAllFileDescriptors: on to the next file, or
\* umount rejects.
ClosedByUmount(a) ==
    /\ a.req.what = "close" /\ a.req.who \in Disks
    /\ LET d == a.req.who
           files == DeleteFile(openFiles[d], a.ptr, a.ok)
       IN /\ openFiles' = [openFiles EXCEPT ![d] = files]
          /\ IF a.ok THEN CloseNext(d, files)
             ELSE fs' = [fs EXCEPT ![d] = "mounted"] /\ UNCHANGED line
          /\ IF a.ok THEN UNCHANGED <<task, fd>> ELSE DropDescriptors(d)
    /\ UNCHANGED <<ids, diskId>>

\* Slip: umount tries again.
UmountRetries(d) == /\ line' = Append(line, Request(d, "umount", None))
                    /\ UNCHANGED <<fs, task, fd, ids, diskId>>
\* umount rejects: the id is kept, and the program may call it again.
UmountFails(d) == /\ fs' = [fs EXCEPT ![d] = "mounted"]
                  /\ DropDescriptors(d)
                  /\ UNCHANGED <<ids, diskId, line>>

\* The rest of umount.
Unmounted(a) ==
    /\ a.req.what = "umount"
    /\ LET d == a.req.who
       IN IF a.ok
          THEN /\ DeleteObject(diskId[d])
               /\ diskId' = [diskId EXCEPT ![d] = None]
               /\ fs' = [fs EXCEPT ![d] = "unmounted"]
               /\ task' = [u \in Users |-> IF DiskOf[u] = d /\ task[u] = "open"
                                           THEN "stale" ELSE task[u]]
               /\ UNCHANGED <<fd, line>>
          ELSE UmountFails(d)
    /\ UNCHANGED openFiles

\* What ran until the call a continues, with its result or with its error.
Continue(a) == \/ CallBinding(a) \/ Mounted(a) \/ Opened(a) \/ Used(a)
               \/ Closed(a) \/ ClosedByUmount(a) \/ Unmounted(a)

\* The next continuation runs.
Resume == /\ answered # <<>>
          /\ answered' = Tail(answered)
          /\ Continue(Head(answered))
          /\ UNCHANGED c

Next == \/ Serve \/ Resume
        \/ \E d \in Disks : Mount(d) \/ Umount(d)
        \/ \E u \in Users : Open(u) \/ Use(u) \/ Close(u)

Spec == Init /\ [][Next]_vars /\ WF_vars(Serve) /\ WF_vars(Resume)

-----------------------------------------------------------------------------
(* Properties *)

Requests == [who : Disks \cup Users, ptr : Pointers \cup {None},
             what : {"mount", "path", "open", "buffer", "read", "close", "umount"}]

TypeOK ==
    /\ fs \in [Disks -> {"unmounted", "mounting", "mounted", "closing", "unmounting"}]
    /\ task \in [Users -> {"idle", "opening", "open", "using", "closing", "stale"}]
    /\ fd \in [Users -> Pointers \cup {None}]
    /\ openFiles \in [Disks -> Seq(Pointers)]
    /\ ids.pool \in Seq(Ids) /\ ids.next \in 0 .. Cardinality(Disks)
    /\ ids.objects \in [Ids -> Disks \cup {None}]
    /\ diskId \in [Disks -> Ids \cup {None}]
    /\ cFs \in SUBSET Disks /\ cLeft \in SUBSET Disks /\ cFiles \in [Pointers -> Disks \cup {None}]
    /\ line \in Seq(Requests)
    /\ answered \in Seq([req : Requests, ok : BOOLEAN, ptr : Pointers \cup {None}])

\* C closes every file once, and never reads through a file or a filesystem that
\* was freed: not for a close that overlaps another, not for the closes of
\* umount, not when malloc gives a freed pointer out again, and not when the
\* program uses a descriptor after the umount.
NoMisuse == misuse = {}

\* A descriptor that open returned is good until it is closed: openFiles and C
\* agree on it whenever nothing is under way for that disk.
OpenFilesExact ==
    \A d \in Disks :
        fs[d] = "mounted" /\ (\A u \in Users : DiskOf[u] = d => task[u] \in {"idle", "open", "stale"})
            => ToSet(openFiles[d]) = {p \in Pointers : cFiles[p] = d}

\* umount leaves no file of the filesystem behind.
FilesEndWithFs == \A p \in Pointers : cFiles[p] # None => cFiles[p] \in cFs

\* The block reads and writes of a mounted filesystem go to its own disk: its
\* id is no other's, and stays with it until C is done with it.  (Not so for the
\* filesystems of cLeft: they keep an id that goes back to the pool.)
OwnDisk == \A d \in Disks : d \in cFs => diskId[d] # None /\ ids.objects[diskId[d]] = d

\* umount ends, with an error or without, whatever the other disks do.
UmountEnds == \A d \in Disks :
    fs[d] \in {"closing", "unmounting"} ~> fs[d] \in {"mounted", "unmounted"}

=============================================================================
