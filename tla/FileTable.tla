----------------------------- MODULE FileTable -----------------------------
(***************************************************************************)
(* File descriptors: the lists of devices and file systems, the pool of    *)
(* descriptors with its high-water mark, open(), close(), the lock that    *)
(* ioctl() puts on a device and the flags that fcntl() sets.  Only the     *)
(* search for a free descriptor and the grant of a lock are done under     *)
(* alt_fd_list_lock; the other steps of threads interleave.  A thread      *)
(* calls close(), ioctl() and fcntl() for descriptors that it has opened   *)
(* itself, or for the three of standard input, output and error, which     *)
(* stay open for ever.                                                     *)
(***************************************************************************)
EXTENDS Integers, Sequences

CONSTANTS
    ALT_MAX_FD,     \* descriptors in the pool (32)
    Threads,
    DeviceNames, FsNames,   \* what drivers register, paths as sequences
    StdName,        \* the device of system.h for standard i/o
    Paths           \* what the program opens

NoDev == <<>>
DevNull == <<"dev", "null">>

\* A name is not empty, and tells a device from a file system.
ASSUME FileTableAssumption ==
    /\ ALT_MAX_FD \in Nat /\ ALT_MAX_FD > 3
    /\ FsNames \intersect (DeviceNames \union {DevNull}) = {}
    /\ NoDev \notin DeviceNames \union FsNames /\ StdName # DevNull
    /\ Threads \intersect {"all", "none"} = {}

VARIABLES
    phase,          \* registration, redirection of 1, 0 and 2, main
    alt_dev_list, alt_fs_list,  \* newest first
    dev,            \* of each descriptor: a name, or none
    flags,          \* [excl, isdev, access]
    alt_max_fd,
    call,           \* of each thread: [at, path, fd, i, excl]
    owner,          \* thread that holds a descriptor; "all" share 0..2
    opened,         \* the path that each held descriptor was opened for
    missed          \* descriptors that a lock was put on in spite of

files == <<phase, alt_dev_list, alt_fs_list, dev, flags, alt_max_fd, call, owner,
           opened, missed>>

Fd == 0..ALT_MAX_FD - 1
Std == 0..2
NoFlags == [excl |-> FALSE, isdev |-> FALSE, access |-> "RDONLY"]
Idle == [at |-> "idle", path |-> <<>>, fd |-> -1, i |-> 0, excl |-> FALSE]

FilesInit ==
    /\ phase = "register"
    /\ alt_dev_list = <<DevNull>> /\ alt_fs_list = <<>>
    /\ dev = [f \in Fd |-> IF f \in Std THEN DevNull ELSE NoDev]
    /\ flags = [f \in Fd |-> NoFlags]
    /\ alt_max_fd = -1
    /\ call = [t \in Threads |-> Idle]
    /\ owner = [f \in Fd |-> IF f \in Std THEN "all" ELSE "none"]
    /\ opened = [f \in Fd |-> IF f \in Std THEN DevNull ELSE NoDev]
    /\ missed = {}

-----------------------------------------------------------------------------
Names(list) == {list[k] : k \in DOMAIN list}
Under(mount, path) == /\ Len(mount) <= Len(path)
                      /\ SubSeq(path, 1, Len(mount)) = mount

\* alt_find_dev: the whole name.  alt_find_file: the newest mount point
\* above it.
FindDev(path) == IF path \in Names(alt_dev_list) THEN path ELSE NoDev
FindFile(path) ==
    LET above == {k \in DOMAIN alt_fs_list : Under(alt_fs_list[k], path)} IN
    IF above = {} THEN NoDev
    ELSE alt_fs_list[CHOOSE k \in above : \A l \in above : k <= l]
IsAfs(path) == FindDev(path) = NoDev
Find(path) == IF IsAfs(path) THEN FindFile(path) ELSE FindDev(path)

\* alt_dev_reg and alt_fs_reg, by alt_sys_init.
Register ==
    /\ phase = "register"
    /\ \/ \E n \in DeviceNames : /\ n \notin Names(alt_dev_list)
                                 /\ alt_dev_list' = <<n>> \o alt_dev_list
                                 /\ UNCHANGED alt_fs_list
       \/ \E n \in FsNames : /\ n \notin Names(alt_fs_list)
                             /\ alt_fs_list' = <<n>> \o alt_fs_list
                             /\ UNCHANGED alt_dev_list
    /\ UNCHANGED <<phase, dev, flags, alt_max_fd, call, owner, opened, missed>>

Registered ==
    /\ phase = "register"
    /\ phase' = "stdout"
    /\ UNCHANGED <<alt_dev_list, alt_fs_list, dev, flags, alt_max_fd, call, owner,
                   opened, missed>>

Free == {f \in Fd : dev[f] = NoDev}
Lowest == CHOOSE f \in Free : \A g \in Free : f <= g
Raised(f) == IF f > alt_max_fd THEN f ELSE alt_max_fd

\* alt_open_fd: a descriptor is opened, copied to f and released.
Redirect(f, access, next) ==
    /\ \/ /\ ~ IsAfs(StdName)
          /\ alt_max_fd' = Raised(Lowest)
          /\ \/ /\ dev' = [dev EXCEPT ![f] = StdName]
                /\ flags' = [flags EXCEPT ![f] = [NoFlags EXCEPT !.isdev = TRUE,
                                                                 !.access = access]]
                /\ opened' = [opened EXCEPT ![f] = StdName]
             \/ UNCHANGED <<dev, flags, opened>>
       \/ IsAfs(StdName) /\ UNCHANGED <<dev, flags, alt_max_fd, opened>>
    /\ phase' = next
    /\ UNCHANGED <<alt_dev_list, alt_fs_list, call, owner, missed>>

\* alt_io_redirect
IoRedirect ==
    \/ phase = "stdout" /\ Redirect(1, "WRONLY", "stdin")
    \/ phase = "stdin"  /\ Redirect(0, "RDONLY", "stderr")
    \/ phase = "stderr" /\ Redirect(2, "WRONLY", "main")

-----------------------------------------------------------------------------
table == <<dev, flags, alt_max_fd, owner, opened, missed>>
lists == <<phase, alt_dev_list, alt_fs_list>>
Goes(t, at) == call' = [call EXCEPT ![t].at = at]

Open(t) ==
    /\ phase = "main" /\ call[t].at = "idle"
    /\ \E path \in Paths : /\ Find(path) # NoDev
                           /\ call' = [call EXCEPT ![t] = [Idle EXCEPT !.at = "get",
                                                                !.path = path]]
    /\ UNCHANGED <<lists, table>>

\* alt_get_fd, under alt_fd_list_lock.
GetFd(t) ==
    /\ call[t].at = "get"
    /\ \/ /\ Free # {}
          /\ dev' = [dev EXCEPT ![Lowest] = Find(call[t].path)]
          /\ alt_max_fd' = Raised(Lowest)
          /\ call' = [call EXCEPT ![t].at = "flags", ![t].fd = Lowest]
       \/ /\ Free = {}
          /\ call' = [call EXCEPT ![t] = Idle]
          /\ UNCHANGED <<dev, alt_max_fd>>
    /\ UNCHANGED <<lists, flags, owner, opened, missed>>

SetFlags(t) ==
    /\ call[t].at = "flags"
    /\ flags' = [flags EXCEPT ![call[t].fd] =
                    [NoFlags EXCEPT !.isdev = ~ IsAfs(call[t].path),
                                    !.access = "RDWR"]]
    /\ Goes(t, IF IsAfs(call[t].path) THEN "driver" ELSE "scan")
    /\ UNCHANGED <<lists, dev, alt_max_fd, owner, opened, missed>>

Locks(f, g) == f # g /\ dev[f] = dev[g] /\ flags[f].excl

FileLockedShort(t) ==                 \* slip: the last one is not looked at
    LET f == call[t].fd  i == call[t].i IN
    /\ call[t].at = "scan"
    /\ call' = [call EXCEPT ![t].at = IF i >= alt_max_fd THEN "driver"
                                      ELSE IF Locks(i, f) THEN "release"
                                      ELSE "scan",
                            ![t].i = i + 1]
    /\ UNCHANGED <<lists, table>>

\* alt_file_locked, one descriptor at a time.
FileLocked(t) ==
    LET f == call[t].fd  i == call[t].i IN
    /\ call[t].at = "scan"
    /\ call' = [call EXCEPT ![t].at = IF i > alt_max_fd THEN "driver"
                                      ELSE IF Locks(i, f) THEN "release"
                                      ELSE "scan",
                            ![t].i = IF i > alt_max_fd THEN i ELSE i + 1]
    /\ UNCHANGED <<lists, table>>

OpenFailsBare(t) ==                   \* slip: the descriptor stays taken
    /\ call[t].at = "driver"
    /\ call' = [call EXCEPT ![t] = Idle]
    /\ UNCHANGED <<lists, table>>

\* The driver's open() refuses ...
OpenFails(t) ==
    /\ call[t].at = "driver"
    /\ Goes(t, "release")
    /\ UNCHANGED <<lists, table>>

\* ... or there is none, or it agrees.
OpenReturns(t) ==
    /\ call[t].at = "driver"
    /\ owner' = [owner EXCEPT ![call[t].fd] = t]
    /\ opened' = [opened EXCEPT ![call[t].fd] = call[t].path]
    /\ call' = [call EXCEPT ![t] = Idle]
    /\ UNCHANGED <<lists, dev, flags, alt_max_fd, missed>>

-----------------------------------------------------------------------------
Mine(t) == {f \in Fd : owner[f] = t}

\* close(), after the driver's close() whatever that answers.
Close(t) ==
    /\ phase = "main" /\ call[t].at = "idle"
    /\ \E f \in Mine(t) \union Std :
         /\ call' = [call EXCEPT ![t] = [Idle EXCEPT !.at = "release", !.fd = f]]
         /\ owner' = [owner EXCEPT ![f] = IF f \in Std THEN "all" ELSE "none"]
         /\ opened' = [opened EXCEPT ![f] = IF f \in Std THEN @ ELSE NoDev]
    /\ UNCHANGED <<lists, dev, flags, alt_max_fd, missed>>

\* alt_release_fd: the flags are cleared, then the descriptor is free.
Release(t) ==
    LET f == call[t].fd IN
    /\ call[t].at = "release"
    /\ flags' = [flags EXCEPT ![f] = IF f > 2 THEN NoFlags ELSE @]
    /\ Goes(t, "clear")
    /\ UNCHANGED <<lists, dev, alt_max_fd, owner, opened, missed>>

ClearDev(t) ==
    LET f == call[t].fd IN
    /\ call[t].at = "clear"
    /\ dev' = [dev EXCEPT ![f] = IF f > 2 THEN NoDev ELSE @]
    /\ missed' = missed \ {f}
    /\ call' = [call EXCEPT ![t] = Idle]
    /\ UNCHANGED <<lists, flags, alt_max_fd, owner, opened>>

\* alt_fd_lock, under alt_fd_list_lock.  The highest descriptor is not
\* looked at.
SeenByLock == 0..alt_max_fd - 1

Lock(t) ==
    /\ phase = "main" /\ call[t].at = "idle"
    /\ \E f \in Mine(t) \union Std :
         /\ flags[f].isdev
         /\ \A g \in SeenByLock : g # f => dev[g] # dev[f]
         /\ flags' = [flags EXCEPT ![f].excl = TRUE]
         /\ missed' = missed \union {g \in Fd \ {f} : dev[g] = dev[f]}
    /\ UNCHANGED <<lists, dev, alt_max_fd, call, owner, opened>>

\* alt_fd_unlock
Unlock(t) ==
    /\ phase = "main" /\ call[t].at = "idle"
    /\ \E f \in Mine(t) \union Std :
         /\ flags[f].isdev
         /\ flags' = [flags EXCEPT ![f].excl = FALSE]
    /\ UNCHANGED <<lists, dev, alt_max_fd, call, owner, opened, missed>>

\* fcntl(F_SETFL) reads the flags of a descriptor; for one of a thread's own
\* nothing comes in between, and what is modelled stays as it is.  It then ...
Fcntl(t) ==
    /\ phase = "main" /\ call[t].at = "idle"
    /\ \E f \in Std :
         call' = [call EXCEPT ![t] = [Idle EXCEPT !.at = "setfl", !.fd = f,
                                                  !.excl = flags[f].excl]]
    /\ UNCHANGED <<lists, table>>

\* ... writes them back, as they were but for O_NONBLOCK and O_APPEND: a
\* lock that was taken off meanwhile is on again.
FcntlStores(t) ==
    LET f == call[t].fd IN
    /\ call[t].at = "setfl"
    /\ flags' = [flags EXCEPT ![f].excl = call[t].excl]
    /\ missed' = missed \union
                    {g \in Fd \ {f} : call[t].excl /\ ~ flags[f].excl /\ dev[g] = dev[f]}
    /\ call' = [call EXCEPT ![t] = Idle]
    /\ UNCHANGED <<lists, dev, alt_max_fd, owner, opened>>

FilesNext ==
    \/ Register \/ Registered \/ IoRedirect
    \/ \E t \in Threads : \/ Open(t) \/ GetFd(t) \/ SetFlags(t) \/ FileLocked(t)
                          \/ OpenFails(t) \/ OpenReturns(t)
                          \/ Close(t) \/ Release(t) \/ ClearDev(t)
                          \/ Lock(t) \/ Unlock(t) \/ Fcntl(t) \/ FcntlStores(t)

FilesSpec == FilesInit /\ [][FilesNext]_files

-----------------------------------------------------------------------------
InUse(f) == \E t \in Threads : call[t].at \notin {"idle", "setfl"} /\ call[t].fd = f
Held(f) == owner[f] \in Threads

\* What read() and write() ask before they call the driver.
CanRead(f) == dev[f] # NoDev /\ flags[f].access # "WRONLY"
CanWrite(f) == dev[f] # NoDev /\ flags[f].access # "RDONLY"

(* A descriptor is taken exactly while a call that will return or release it
   is under way or the program holds it, never by two, whatever fails: the
   search, the lock, the driver.  One that is held is that of the device, or
   of the file system, which its path names, and can be used.  The three
   standard ones are, whatever is closed, those of the device that they were
   redirected to, or of the null device when that could not be opened. *)
DescriptorsSound ==
    /\ \A f \in Fd \ Std :
         /\ dev[f] # NoDev <=> Held(f) \/ InUse(f)
         /\ Held(f) => /\ ~ InUse(f) /\ CanRead(f) /\ CanWrite(f)
                       /\ dev[f] = Find(opened[f])
                       /\ (flags[f].isdev <=> ~ IsAfs(opened[f]))
         /\ dev[f] = NoDev => flags[f] = NoFlags
    /\ \A f \in Std :
         /\ opened[f] \in {DevNull, StdName} /\ dev[f] = opened[f]
         /\ opened[f] = StdName =>
              /\ flags[f].isdev
              /\ IF f = 0 THEN CanRead(f) ELSE CanWrite(f)

(* No two descriptors that are open share a locked device, but for those that
   the lock was granted in spite of, or came back in spite of. *)
ExclusiveOtherwise ==
    \A f, g \in Fd : Locks(g, f) /\ (Held(f) \/ f \in Std) => f \in missed

(* "If there are no other open file descriptors which reference the same
   device, then alt_fd_lock() will grant the lock" (alt_fd_lock.c:43): it is
   granted in spite of the highest one. *)
LockMeansAlone == \A f \in missed : ~ Held(f)
=============================================================================
