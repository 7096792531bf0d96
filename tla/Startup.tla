------------------------------ MODULE Startup -------------------------------
(***************************************************************************)
(* How Parcelkeeper starts and stops: main() (parcelkeeper/main.c) and     *)
(* fork_and_wait() (parcelkeeper/util.c).  Several invocations for one     *)
(* parcel share the lock and the pid file.  An invocation in "run" mode    *)
(* forks: its parent waits on a pipe until the child has initialised or    *)
(* given up.  The others (upload, validate) stay in the foreground.        *)
(*                                                                         *)
(* The lock is taken and released atomically; module LockedStart has the   *)
(* lock file of module LockFile in its place, and implements this one.     *)
(* A subsystem is a number, in the order in which main() initialises them: *)
(* local cache, hoard cache, transport, FUSE.                              *)
(***************************************************************************)
EXTENDS Naturals

CONSTANTS
  Proc,
  Subsystems,   \* how many there are to initialise
  None

VARIABLES
  pc,           \* of the process that does the work
  up,           \* how many subsystems it has initialised
  have_lock, ret,
  signal,       \* sigstate.signal is set
  pipe,         \* completion_fd: "none", "open", "closed", or "byte" once ret is written
  status,       \* how it ended: an exit status, "signal", or "killed"
  parent,       \* "none", "waiting", or how the parent ended
  lock,         \* the holder of the lock file
  pidfile       \* whose pid is in the pid file, None if there is none

own == <<pc, up, have_lock, ret, signal, pipe, status>>
vars == <<own, parent, lock, pidfile>>

Init ==
  /\ pc = [p \in Proc |-> "start"] /\ up = [p \in Proc |-> 0]
  /\ have_lock = [p \in Proc |-> FALSE] /\ ret = [p \in Proc |-> 1]
  /\ signal = [p \in Proc |-> FALSE] /\ pipe = [p \in Proc |-> "none"]
  /\ status = [p \in Proc |-> "none"] /\ parent = [p \in Proc |-> "none"]
  /\ lock = None /\ pidfile = None

Goto(p, l) == pc' = [pc EXCEPT ![p] = l]

\* A process with WANT_BACKGROUND has a pipe from its fork on.
InBackground(p) == pipe[p] # "none"

-----------------------------------------------------------------------------

\* fork_and_wait(): the child has the writing end of the pipe.  pipe() and
\* fork() can fail.  An invocation without WANT_BACKGROUND just goes on.
ForkAndWait(p) ==
  /\ pc[p] = "start"
  /\ \/ /\ pipe' = [pipe EXCEPT ![p] = "open"]
        /\ parent' = [parent EXCEPT ![p] = "waiting"]
        /\ Goto(p, "lock")
     \/ Goto(p, "down") /\ UNCHANGED <<pipe, parent>>
     \/ Goto(p, "lock") /\ UNCHANGED <<pipe, parent>>
  /\ UNCHANGED <<up, have_lock, ret, signal, status, lock, pidfile>>

\* acquire_lockfile() fails if the lock is held, but also while somebody is
\* about to take it or has just given it up, and on an error.
AcquireLock(p) ==
  /\ pc[p] = "lock"
  /\ \/ /\ lock = None
        /\ lock' = p
        /\ have_lock' = [have_lock EXCEPT ![p] = TRUE]
        /\ Goto(p, IF InBackground(p) THEN "pidfile" ELSE "init")
     \/ /\ Goto(p, "down")
        /\ UNCHANGED <<lock, have_lock>>
  /\ UNCHANGED <<up, ret, signal, pipe, status, parent, pidfile>>

\* create_pidfile(); fopen() can fail.
CreatePidfile(p) ==
  /\ pc[p] = "pidfile"
  /\ \/ pidfile' = p /\ Goto(p, "init")
     \/ Goto(p, "down") /\ UNCHANGED pidfile
  /\ UNCHANGED <<up, have_lock, ret, signal, pipe, status, parent, lock>>

\* parse_parcel_cfg() and cache_init(), hoard_init(), transport_init(),
\* fuse_init(): each can fail.
InitSubsystem(p) ==
  /\ pc[p] = "init" /\ up[p] < Subsystems
  /\ \/ up' = [up EXCEPT ![p] = @ + 1] /\ UNCHANGED pc
     \/ Goto(p, "down") /\ UNCHANGED up
  /\ UNCHANGED <<have_lock, ret, signal, pipe, status, parent, lock, pidfile>>

ReleaseParent_KeepsPipe(p) ==
  /\ pc[p] = "init" /\ up[p] = Subsystems
  /\ Goto(p, IF signal[p] THEN "down" ELSE "work")
  /\ UNCHANGED <<up, have_lock, ret, signal, pipe, status, parent, lock, pidfile>>

\* All is initialised: main() gives up if a signal has come, or else closes
\* completion_fd, which releases the parent.
ReleaseParent(p) ==
  /\ pc[p] = "init" /\ up[p] = Subsystems
  /\ \/ signal[p] /\ Goto(p, "down") /\ UNCHANGED pipe
     \/ /\ ~signal[p] /\ Goto(p, "work")
        /\ pipe' = [pipe EXCEPT ![p] = IF @ = "open" THEN "closed" ELSE @]
  /\ UNCHANGED <<up, have_lock, ret, signal, status, parent, lock, pidfile>>

\* The mode's own function returns, fuse_run() with status 0.
Work(p) ==
  /\ pc[p] = "work"
  /\ \E r \in IF InBackground(p) THEN {0} ELSE {0, 1} : ret' = [ret EXCEPT ![p] = r]
  /\ Goto(p, "down")
  /\ UNCHANGED <<up, have_lock, signal, pipe, status, parent, lock, pidfile>>

\* Under the label shutdown, what was initialised is shut down in reverse.
ShutSubsystem(p) ==
  /\ pc[p] = "down" /\ up[p] > 0
  /\ up' = [up EXCEPT ![p] = @ - 1]
  /\ UNCHANGED <<pc, have_lock, ret, signal, pipe, status, parent, lock, pidfile>>

SubsystemsDown(p) == pc[p] = "down" /\ up[p] = 0

MayUnlink_Always(p) == TRUE

\* "safe if lock held"
MayUnlink(p) == have_lock[p]

UnlinkPidfile(p) ==
  /\ SubsystemsDown(p)
  /\ pidfile' = IF MayUnlink(p) THEN None ELSE pidfile
  /\ Goto(p, "release")
  /\ UNCHANGED <<up, have_lock, ret, signal, pipe, status, parent, lock>>

\* release_lockfile() gives the lock up before it closes the file.
ReleaseLock(p) ==
  /\ pc[p] = "release"
  /\ lock' = IF have_lock[p] THEN None ELSE lock
  /\ Goto(p, IF have_lock[p] THEN "close" ELSE "report")
  /\ UNCHANGED <<up, have_lock, ret, signal, pipe, status, parent, pidfile>>

CloseLock(p) ==
  /\ pc[p] = "close"
  /\ Goto(p, "report")
  /\ UNCHANGED <<up, have_lock, ret, signal, pipe, status, parent, lock, pidfile>>

Report_Never(p) ==
  /\ pc[p] = "report"
  /\ Goto(p, "exit")
  /\ UNCHANGED <<up, have_lock, ret, signal, pipe, status, parent, lock, pidfile>>

\* The byte for a parent that still waits.
Report(p) ==
  /\ pc[p] = "report"
  /\ pipe' = [pipe EXCEPT ![p] = IF @ = "open" THEN "byte" ELSE @]
  /\ Goto(p, "exit")
  /\ UNCHANGED <<up, have_lock, ret, signal, status, parent, lock, pidfile>>

\* A process that ends closes its end of the pipe.
Ended(p, how) ==
  /\ status' = [status EXCEPT ![p] = how]
  /\ pipe' = [pipe EXCEPT ![p] = IF @ = "open" THEN "closed" ELSE @]
  /\ Goto(p, "gone")

\* main() returns, or raises the signal it has caught.
Exit(p) ==
  /\ pc[p] = "exit"
  /\ Ended(p, IF signal[p] THEN "signal" ELSE IF ret[p] = 0 THEN "exit0" ELSE "exit1")
  /\ UNCHANGED <<up, have_lock, ret, signal, parent, lock, pidfile>>

-----------------------------------------------------------------------------

\* read() returns in the parent: 0 if the child closed the pipe; after a byte
\* the parent waits for the child and ends as it did.
ParentReads(p) ==
  /\ parent[p] = "waiting"
  /\ \/ /\ pipe[p] = "closed"
        /\ parent' = [parent EXCEPT ![p] = "exit0"]
     \/ /\ pipe[p] = "byte" /\ status[p] # "none"
        /\ parent' = [parent EXCEPT ![p] = status[p]]
  /\ UNCHANGED <<own, lock, pidfile>>

\* generic_signal_handler()
Signal(p) ==
  /\ pc[p] # "gone" /\ ~signal[p]
  /\ signal' = [signal EXCEPT ![p] = TRUE]
  /\ UNCHANGED <<pc, up, have_lock, ret, pipe, status, parent, lock, pidfile>>

\* The process is killed: its lock and its pipe go, its pid file stays.
Kill(p) ==
  /\ pc[p] \notin {"start", "gone"}
  /\ Ended(p, "killed")
  /\ up' = [up EXCEPT ![p] = 0]
  /\ lock' = IF lock = p THEN None ELSE lock
  /\ UNCHANGED <<have_lock, ret, signal, parent, pidfile>>

\* Once both have ended, Parcelkeeper is started for the parcel again.
Restart(p) ==
  /\ pc[p] = "gone" /\ parent[p] # "waiting"
  /\ Goto(p, "start")
  /\ have_lock' = [have_lock EXCEPT ![p] = FALSE] /\ ret' = [ret EXCEPT ![p] = 1]
  /\ signal' = [signal EXCEPT ![p] = FALSE] /\ pipe' = [pipe EXCEPT ![p] = "none"]
  /\ status' = [status EXCEPT ![p] = "none"] /\ parent' = [parent EXCEPT ![p] = "none"]
  /\ UNCHANGED <<up, lock, pidfile>>

Step(p) ==
  \/ ForkAndWait(p) \/ AcquireLock(p) \/ CreatePidfile(p)
  \/ InitSubsystem(p) \/ ReleaseParent(p) \/ ShutSubsystem(p)
  \/ UnlinkPidfile(p) \/ ReleaseLock(p) \/ CloseLock(p) \/ Report(p) \/ Exit(p) \/ ParentReads(p)

Next == \E p \in Proc : Step(p) \/ Work(p) \/ Signal(p) \/ Kill(p) \/ Restart(p)

Spec == Init /\ [][Next]_vars

-----------------------------------------------------------------------------
(* Properties *)

\* The parent reports success only if the child got as far as closing the pipe,
\* all subsystems initialised, or was killed before it could report; a child
\* that gives up, for an error or a signal, passes its own end on.
StartReported ==
  \A p \in Proc :
    /\ parent[p] = "exit0" =>
         pc[p] = "work" \/ ret[p] = 0 \/ status[p] = "killed"
    /\ parent[p] \notin {"none", "waiting", "exit0"} => parent[p] = status[p]

\* While a background process initialises, works and shuts its subsystems down,
\* the pid file has its pid: no other invocation overwrites or removes it, so
\* get_parcelkeeper_pid() of the client finds the session that runs.
PidfileOfSession ==
  \A p \in Proc :
    InBackground(p) /\ (pc[p] \in {"init", "work"} \/ up[p] > 0) => pidfile = p

\* The command that starts a session returns, whatever becomes of the session.
ParentReturns == \A p \in Proc : parent[p] = "waiting" ~> parent[p] # "waiting"
=============================================================================
