------------------------------ MODULE LockFile ------------------------------
(***************************************************************************)
(* The lock file of a parcel (parcelkeeper/util.c), and those of the       *)
(* client (acquire_lock() and release_lock() in client/isr.in), which use  *)
(* the same protocol: open the file, creating it if there is none, take an *)
(* fcntl() lock on it, and try again if it has been unlinked meanwhile;    *)
(* to release the lock, unlink the file and close it.                      *)
(*                                                                         *)
(* A file is an inode, with a link count of one or zero.  The kernel drops *)
(* a process's lock when it closes the file or dies.                       *)
(***************************************************************************)
CONSTANTS
  Proc,       \* processes that want the lock
  Inode,      \* inodes, which can be used again when nobody refers to them
  None        \* no inode, no process

ASSUME NoneApart == None \notin Proc \cup Inode

VARIABLES
  path,       \* the inode the lock file's name refers to, or None
  nlink,      \* the inodes with a link
  locked,     \* the process with a lock on the inode, or None
  fd,         \* the inode the process has open, or None
  pc          \* where each process is

vars == <<path, nlink, locked, fd, pc>>

Pc == {"idle", "open", "opened", "locked", "held", "unlinked"}

TypeOK ==
  /\ path \in Inode \cup {None}
  /\ nlink \subseteq Inode
  /\ locked \in [Inode -> Proc \cup {None}]
  /\ fd \in [Proc -> Inode \cup {None}]
  /\ pc \in [Proc -> Pc]

Goto(p, label) == pc' = [pc EXCEPT ![p] = label]

\* close(): the descriptor is gone, and so is the lock of the process.
Close(p) ==
  /\ fd' = [fd EXCEPT ![p] = None]
  /\ locked' = [i \in Inode |-> IF locked[i] = p THEN None ELSE locked[i]]

-----------------------------------------------------------------------------
(* acquire_lockfile()                                                      *)

Begin(p) ==
  /\ pc[p] = "idle"
  /\ Goto(p, "open")
  /\ UNCHANGED <<path, nlink, locked, fd>>

\* open(path, O_CREAT|O_WRONLY)
Open(p) ==
  /\ pc[p] = "open"
  /\ IF path # None
     THEN /\ fd' = [fd EXCEPT ![p] = path]
          /\ UNCHANGED <<path, nlink>>
     ELSE \E i \in Inode :
            /\ \A q \in Proc : fd[q] # i
            /\ fd' = [fd EXCEPT ![p] = i]
            /\ path' = i
            /\ nlink' = nlink \cup {i}
  /\ Goto(p, "opened")
  /\ UNCHANGED locked

\* fcntl(F_SETLK, F_WRLCK), or F_SETLKW for some locks of the client.
Lock(p) ==
  /\ pc[p] = "opened"
  /\ locked[fd[p]] = None
  /\ locked' = [locked EXCEPT ![fd[p]] = p]
  /\ Goto(p, "locked")
  /\ UNCHANGED <<path, nlink, fd>>

\* PK_BUSY, "locked by another process"
Busy(p) ==
  /\ pc[p] = "opened"
  /\ locked[fd[p]] # None
  /\ Close(p)
  /\ Goto(p, "idle")
  /\ UNCHANGED <<path, nlink>>

\* fstat() tells whether the locked file still has its name.
StillLinked_Assumed(p) == TRUE
StillLinked(p) == fd[p] \in nlink

Keep(p) ==
  /\ pc[p] = "locked"
  /\ StillLinked(p)
  /\ Goto(p, "held")
  /\ UNCHANGED <<path, nlink, locked, fd>>

Retry_RestatsOnly(p) ==
  /\ pc[p] = "locked"
  /\ ~StillLinked(p)
  /\ UNCHANGED vars
Retry(p) ==
  /\ pc[p] = "locked"
  /\ ~StillLinked(p)
  /\ Close(p)
  /\ Goto(p, "open")
  /\ UNCHANGED <<path, nlink>>

-----------------------------------------------------------------------------
(* release_lockfile()                                                      *)

\* unlink() removes whatever file has the name.  It comes before close().
Unlink_AfterClose(p) ==
  \/ /\ pc[p] = "held" /\ fd[p] # None
     /\ Close(p)
     /\ UNCHANGED <<path, nlink, pc>>
  \/ /\ pc[p] = "held" /\ fd[p] = None
     /\ path' = None
     /\ nlink' = nlink \ {path}
     /\ Goto(p, "unlinked")
     /\ UNCHANGED <<locked, fd>>
Unlink(p) ==
  /\ pc[p] = "held"
  /\ path' = None
  /\ nlink' = nlink \ {path}
  /\ Goto(p, "unlinked")
  /\ UNCHANGED <<locked, fd>>

Release(p) ==
  /\ pc[p] = "unlinked"
  /\ Close(p)
  /\ Goto(p, "idle")
  /\ UNCHANGED <<path, nlink>>

\* The process dies and leaves the file behind.  An error of open(), fcntl() or
\* fstat(), on which acquire_lockfile() closes the file and returns, does the same.
Crash(p) ==
  /\ pc[p] # "idle"
  /\ Close(p)
  /\ Goto(p, "idle")
  /\ UNCHANGED <<path, nlink>>

-----------------------------------------------------------------------------

Init ==
  /\ path \in Inode \cup {None}
  /\ nlink = {path} \ {None}
  /\ locked = [i \in Inode |-> None]
  /\ fd = [p \in Proc |-> None]
  /\ pc = [p \in Proc |-> "idle"]

Step(p) ==
  Open(p) \/ Lock(p) \/ Busy(p) \/ Keep(p) \/ Retry(p) \/ Release(p)

Next == \E p \in Proc : Begin(p) \/ Step(p) \/ Unlink(p) \/ Crash(p)

Spec == Init /\ [][Next]_vars

\* A process that acquires or releases the lock goes on doing so; it need not
\* ever want the lock, or give it up.
FairSpec == Spec /\ \A p \in Proc : WF_vars(Step(p))

-----------------------------------------------------------------------------
(* Properties                                                              *)

\* acquire_lockfile() returns success to one process at a time, although the
\* file it locks may be unlinked and made anew at any moment.
MutualExclusion ==
  \A p, q \in Proc : pc[p] = "held" /\ pc[q] = "held" => p = q

\* The lock that a process holds is on the file that the others will find under
\* the name, so they meet it, and release_lockfile() unlinks no file but its own.
HolderNamed ==
  \A p \in Proc : pc[p] = "held" => fd[p] = path /\ locked[fd[p]] = p

\* From some time on nobody unlinks the file.
FewReleases == <>[][\A p \in Proc : ~Unlink(p)]_vars

\* The loop of acquire_lockfile() ends, with or without the lock, unless others
\* take and release the lock again and again.
AcquireEnds ==
  FewReleases =>
    \A p \in Proc : pc[p] \in {"open", "opened", "locked"} ~>
                     pc[p] \in {"held", "idle"}

\* Where the processes are with respect to the files and their locks.
Files ==
  /\ nlink = {path} \ {None}
  /\ \A p \in Proc :
       /\ fd[p] # None <=> pc[p] \in {"opened", "locked", "held", "unlinked"}
       /\ pc[p] \in {"locked", "held", "unlinked"} => locked[fd[p]] = p
       /\ \A i \in Inode : locked[i] = p =>
            fd[p] = i /\ pc[p] \in {"locked", "held", "unlinked"}

\* The inductive invariant.
IInv == TypeOK /\ Files /\ HolderNamed

=============================================================================
