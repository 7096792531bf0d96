---------------------------- MODULE LockedStart -----------------------------
(***************************************************************************)
(* The start and the end of Parcelkeeper (module Startup) with the lock    *)
(* file that they really use (module LockFile): main() calls               *)
(* acquire_lockfile() and release_lockfile(), whose system calls interleave*)
(* with those of the other invocations, and a process may die between any  *)
(* two of them.                                                            *)
(*                                                                         *)
(* Variable main is the place in main(), pc the place in the functions of  *)
(* the lock file.                                                          *)
(***************************************************************************)
EXTENDS LockFile, Naturals

CONSTANT
  Subsystems    \* how many there are to initialise

ASSUME StartAssumption == Subsystems \in Nat

VARIABLES main, up, have_lock, ret, signal, pipe, status, parent, pidfile

own == <<main, up, have_lock, ret, signal, pipe, status, parent, pidfile>>
all == <<vars, own>>

\* Who has returned from acquire_lockfile() with success and has not called
\* release_lockfile() yet.
Holding(p) == pc[p] = "held"
holder == IF \E p \in Proc : Holding(p) THEN CHOOSE p \in Proc : Holding(p) ELSE None

S == INSTANCE Startup WITH pc <- main, lock <- holder

-----------------------------------------------------------------------------
(* The lock in main()                                                      *)

To(p, place) == main' = [main EXCEPT ![p] = place]

\* acquire_lockfile() goes on.
Acquiring(p) ==
  /\ main[p] = "lock"
  /\ Begin(p) \/ Open(p) \/ Lock(p) \/ Retry(p)
  /\ UNCHANGED own

\* It returns PK_SUCCESS ...
Acquired(p) ==
  /\ main[p] = "lock"
  /\ Keep(p)
  /\ have_lock' = [have_lock EXCEPT ![p] = TRUE]
  /\ To(p, IF S!InBackground(p) THEN "pidfile" ELSE "init")
  /\ UNCHANGED <<up, ret, signal, pipe, status, parent, pidfile>>

\* ... or PK_BUSY, or an error of one of its system calls.
Refused(p) ==
  /\ main[p] = "lock"
  /\ Busy(p) \/ Crash(p)
  /\ To(p, "down")
  /\ UNCHANGED <<up, have_lock, ret, signal, pipe, status, parent, pidfile>>

\* release_lockfile() unlinks the file and closes it.
Unlinks(p) ==
  /\ main[p] = "release" /\ have_lock[p]
  /\ Unlink(p)
  /\ To(p, "close")
  /\ UNCHANGED <<up, have_lock, ret, signal, pipe, status, parent, pidfile>>

Closes(p) ==
  /\ main[p] = "close"
  /\ Release(p)
  /\ To(p, "report")
  /\ UNCHANGED <<up, have_lock, ret, signal, pipe, status, parent, pidfile>>

NothingToRelease(p) ==
  /\ main[p] = "release" /\ ~have_lock[p]
  /\ To(p, "report")
  /\ UNCHANGED <<vars, up, have_lock, ret, signal, pipe, status, parent, pidfile>>

-----------------------------------------------------------------------------
(* The rest of main()                                                      *)

Goes(p) ==
  /\ UNCHANGED vars
  /\ \/ S!ForkAndWait(p) \/ S!CreatePidfile(p) \/ S!InitSubsystem(p)
     \/ S!ReleaseParent(p) \/ S!ShutSubsystem(p) \/ S!UnlinkPidfile(p)
     \/ S!Report(p) \/ S!Exit(p) \/ S!ParentReads(p)

Works(p) == UNCHANGED vars /\ S!Work(p)
Signalled(p) == UNCHANGED vars /\ S!Signal(p)
Restarted(p) == UNCHANGED vars /\ S!Restart(p)

\* The process is killed; the kernel closes the lock file.
Killed(p) ==
  /\ main[p] \notin {"start", "gone"}
  /\ Crash(p) \/ (pc[p] = "idle" /\ UNCHANGED vars)
  /\ S!Ended(p, "killed")
  /\ up' = [up EXCEPT ![p] = 0]
  /\ UNCHANGED <<have_lock, ret, signal, parent, pidfile>>

-----------------------------------------------------------------------------

StartInit == Init /\ S!Init

StartStep(p) ==
  \/ Acquiring(p) \/ Acquired(p) \/ Refused(p)
  \/ Unlinks(p) \/ Closes(p) \/ NothingToRelease(p) \/ Goes(p)

StartNext ==
  \E p \in Proc :
    StartStep(p) \/ Works(p) \/ Signalled(p) \/ Killed(p) \/ Restarted(p)

StartSpec == StartInit /\ [][StartNext]_all

\* Initialisation and shutdown take their time but end.  How long a session
\* lasts, and whether there is another, is up to the user.
FairStart == StartSpec /\ \A p \in Proc : WF_all(StartStep(p))

-----------------------------------------------------------------------------
(* Properties                                                              *)

\* With the lock file that can be opened, locked and unlinked by several at a time,
\* main() behaves as if the lock were taken and given up in one step each.
AtomicLock == S!Spec

\* The parent reports success only if the child got as far as closing the pipe,
\* all subsystems initialised, or was killed before it could report; a child
\* that gives up, for an error or a signal, passes its own end on.
StartReported == S!StartReported

\* From the creation of its pid file until it removes it, a background process
\* finds its own pid there, so get_parcelkeeper_pid() of the client finds the
\* session that runs.
PidfileOfSession == S!PidfileOfSession

\* The command that starts a session returns, whatever becomes of the session,
\* unless acquire_lockfile() meets a lock file that was just unlinked again and
\* again because other invocations come and go.
ParentReturns == FewReleases => S!ParentReturns
=============================================================================
