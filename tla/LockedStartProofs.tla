------------------------- MODULE LockedStartProofs --------------------------
(***************************************************************************)
(* The lock file excludes, for any set of processes and of inodes; the     *)
(* start and the end of Parcelkeeper keep to their promises if the lock is *)
(* atomic, for any number of invocations and of subsystems; and with the   *)
(* lock file they behave as if it were.                                    *)
(***************************************************************************)
EXTENDS LockedStart, TLAPS

\* A step that names no prover is one for the SMT solver.
USE SMTT(30)

USE NoneApart DEF Pc

-----------------------------------------------------------------------------
(* The lock file                                                           *)

\* At first nobody has the lock file open.
LEMMA InitIInv == Init => IInv
  BY DEF Init, IInv, TypeOK, Files, HolderNamed

\* open(), fcntl(), fstat(), unlink(), close() and a crash at any point keep the
\* variables in their types.
LEMMA TypeOKStep == TypeOK /\ [Next]_vars => TypeOK'
<1> SUFFICES ASSUME TypeOK, [Next]_vars PROVE TypeOK' OBVIOUS
<1>1. CASE UNCHANGED vars BY <1>1 DEF vars, TypeOK
<1>2. ASSUME NEW p \in Proc, Begin(p) PROVE TypeOK'
  BY <1>2 DEF Begin, Goto, TypeOK
<1>3. ASSUME NEW p \in Proc, Open(p) PROVE TypeOK'
  BY <1>3 DEF Open, Goto, TypeOK
<1>4. ASSUME NEW p \in Proc, Lock(p) PROVE TypeOK'
  BY <1>4, Zenon DEF Lock, Goto, TypeOK
<1>5. ASSUME NEW p \in Proc, Close(p), path' = path, nlink' = nlink,
             NEW l \in Pc, Goto(p, l)
      PROVE  TypeOK'
  BY <1>5 DEF Close, Goto, TypeOK
<1>6. ASSUME NEW p \in Proc, Keep(p) PROVE TypeOK'
  BY <1>6 DEF Keep, Goto, TypeOK
<1>7. ASSUME NEW p \in Proc, Unlink(p) PROVE TypeOK'
  BY <1>7 DEF Unlink, Goto, TypeOK
<1> QED BY <1>1, <1>2, <1>3, <1>4, <1>5, <1>6, <1>7
        DEF Next, Step, Busy, Retry, Release, Crash

\* A process has the file open, and locked, exactly where the code says so, and
\* a file has a link exactly if it has the name.
LEMMA FilesStep == IInv /\ [Next]_vars => Files'
<1> SUFFICES ASSUME IInv, [Next]_vars PROVE Files' OBVIOUS
<1> USE DEF IInv, TypeOK, Files
<1>1. CASE UNCHANGED vars BY <1>1 DEF vars
<1>2. ASSUME NEW p \in Proc, Begin(p) PROVE Files'
  BY <1>2 DEF Begin, Goto
<1>3. ASSUME NEW p \in Proc, Open(p) PROVE Files'
  BY <1>3 DEF Open, Goto
<1>4. ASSUME NEW p \in Proc, Lock(p) PROVE Files'
  BY <1>4 DEF Lock, Goto
<1>5. ASSUME NEW p \in Proc, Close(p), path' = path, nlink' = nlink,
             NEW l \in {"idle", "open"}, Goto(p, l)
      PROVE  Files'
  BY <1>5 DEF Close, Goto
<1>6. ASSUME NEW p \in Proc, Keep(p) PROVE Files'
  BY <1>6 DEF Keep, Goto
<1>7. ASSUME NEW p \in Proc, Unlink(p) PROVE Files'
  BY <1>7 DEF Unlink, Goto
<1> QED BY <1>1, <1>2, <1>3, <1>4, <1>5, <1>6, <1>7
        DEF Next, Step, Busy, Retry, Release, Crash

\* The holder's file keeps its name: only a holder unlinks, and there is one.
LEMMA HolderNamedStep == IInv /\ [Next]_vars => HolderNamed'
<1> SUFFICES ASSUME IInv, [Next]_vars PROVE HolderNamed' OBVIOUS
<1> USE DEF IInv, TypeOK, Files, HolderNamed
<1>1. CASE UNCHANGED vars BY <1>1 DEF vars
<1>2. ASSUME NEW p \in Proc, Begin(p) PROVE HolderNamed'
  BY <1>2 DEF Begin, Goto
<1>3. ASSUME NEW p \in Proc, Open(p) PROVE HolderNamed'
  BY <1>3 DEF Open, Goto
<1>4. ASSUME NEW p \in Proc, Lock(p) PROVE HolderNamed'
  BY <1>4 DEF Lock, Goto
<1>5. ASSUME NEW p \in Proc, Close(p), path' = path, nlink' = nlink,
             NEW l \in {"idle", "open"}, Goto(p, l)
      PROVE  HolderNamed'
  BY <1>5 DEF Close, Goto
<1>6. ASSUME NEW p \in Proc, Keep(p) PROVE HolderNamed'
  BY <1>6 DEF Keep, StillLinked, Goto
<1>7. ASSUME NEW p \in Proc, Unlink(p) PROVE HolderNamed'
  BY <1>7 DEF Unlink, Goto
<1> QED BY <1>1, <1>2, <1>3, <1>4, <1>5, <1>6, <1>7
        DEF Next, Step, Busy, Retry, Release, Crash

\* The inductive invariant of the lock file protocol.
THEOREM Invariance == Spec => []IInv
<1>1. IInv /\ [Next]_vars => IInv'
  BY TypeOKStep, FilesStep, HolderNamedStep DEF IInv
<1> QED BY InitIInv, <1>1, PTL DEF Spec

\* Two holders would have a lock on the same file, the one with the name.
LEMMA IInvExcludes == IInv => MutualExclusion
BY DEF IInv, TypeOK, Files, HolderNamed, MutualExclusion

\* acquire_lockfile() gives the lock to one process at a time.
THEOREM Exclusion == Spec => []MutualExclusion
BY Invariance, IInvExcludes, PTL

\* The holder's lock is on the file that the others will open, and
\* release_lockfile() unlinks the holder's own file.
THEOREM NamedByHolder == Spec => []HolderNamed
<1>1. IInv => HolderNamed BY DEF IInv
<1> QED BY Invariance, <1>1, PTL

-----------------------------------------------------------------------------
(* main() with an atomic lock                                              *)

Place == {"start", "lock", "pidfile", "init", "work", "down", "release",
         "close", "report", "exit", "gone"}
End == {"exit0", "exit1", "signal", "killed"}

StartTypeOK ==
  /\ main \in [Proc -> Place] /\ up \in [Proc -> 0 .. Subsystems]
  /\ have_lock \in [Proc -> BOOLEAN] /\ ret \in [Proc -> {0, 1}]
  /\ signal \in [Proc -> BOOLEAN]
  /\ pipe \in [Proc -> {"none", "open", "closed", "byte"}]
  /\ status \in [Proc -> End \cup {"none"}]
  /\ parent \in [Proc -> End \cup {"none", "waiting"}]
  /\ holder \in Proc \cup {None} /\ pidfile \in Proc \cup {None}

\* The lock is held from its acquisition to its release; have_lock outlives it.
\* A subsystem is up only in between.
LockHeld ==
  \A p \in Proc :
    /\ holder = p <=> have_lock[p] /\ main[p] \notin {"close", "report", "exit", "gone"}
    /\ main[p] \in {"start", "lock"} => ~have_lock[p]
    /\ main[p] \in {"pidfile", "init", "work"} => have_lock[p]
    /\ up[p] > 0 => main[p] \in {"init", "work", "down"} /\ have_lock[p]

\* The session got as far as serving, or died before it could report.
Served(p) == main[p] = "work" \/ ret[p] = 0 \/ status[p] = "killed"

\* Only a process with a pipe has a parent.  The pipe is closed by
\* a session that serves or dies, and nothing is left open before the exit.
PipeTells ==
  \A p \in Proc :
    /\ pipe[p] = "none" => parent[p] = "none"
    /\ pipe[p] = "closed" => Served(p)
    /\ main[p] = "exit" => pipe[p] # "open"
    /\ main[p] = "gone" <=> status[p] # "none"
    /\ status[p] = "exit0" => ret[p] = 0

StartInv == StartTypeOK /\ LockHeld /\ PipeTells /\ S!StartReported /\ S!PidfileOfSession

-----------------------------------------------------------------------------

\* At first nobody runs.
LEMMA InitStartInv == S!Init => StartInv
  BY StartAssumption DEF S!Init, StartInv, StartTypeOK, LockHeld, PipeTells, Served,
     S!StartReported, S!PidfileOfSession, Place, End

\* main() and its parent keep the variables in their types.
LEMMA StartTypeStep == StartTypeOK /\ [S!Next]_(S!vars) => StartTypeOK'
<1> SUFFICES ASSUME StartTypeOK, [S!Next]_(S!vars) PROVE StartTypeOK' OBVIOUS
<1> USE StartAssumption DEF StartTypeOK, Place, End
<1>1. CASE UNCHANGED S!vars BY <1>1 DEF S!vars, S!own
<1>2. ASSUME NEW p \in Proc, S!ForkAndWait(p) PROVE StartTypeOK'
  BY <1>2 DEF S!ForkAndWait, S!Goto
<1>3. ASSUME NEW p \in Proc, S!AcquireLock(p) PROVE StartTypeOK'
  BY <1>3, ZenonT(30) DEF S!AcquireLock, S!InBackground, S!Goto
<1>4. ASSUME NEW p \in Proc, S!CreatePidfile(p) PROVE StartTypeOK'
  BY <1>4 DEF S!CreatePidfile, S!Goto
<1>5. ASSUME NEW p \in Proc, S!InitSubsystem(p) PROVE StartTypeOK'
  BY <1>5 DEF S!InitSubsystem, S!Goto
<1>6. ASSUME NEW p \in Proc, S!ReleaseParent(p) PROVE StartTypeOK'
  BY <1>6 DEF S!ReleaseParent, S!Goto
<1>7. ASSUME NEW p \in Proc, S!Work(p) PROVE StartTypeOK'
  BY <1>7 DEF S!Work, S!InBackground, S!Goto
<1>8. ASSUME NEW p \in Proc, S!ShutSubsystem(p) PROVE StartTypeOK'
  BY <1>8 DEF S!ShutSubsystem
<1>9. ASSUME NEW p \in Proc, S!UnlinkPidfile(p) PROVE StartTypeOK'
  BY <1>9 DEF S!UnlinkPidfile, S!SubsystemsDown, S!MayUnlink, S!Goto
<1>10. ASSUME NEW p \in Proc, S!ReleaseLock(p) PROVE StartTypeOK'
  BY <1>10 DEF S!ReleaseLock, S!Goto
<1>11. ASSUME NEW p \in Proc, S!Report(p) PROVE StartTypeOK'
  BY <1>11 DEF S!Report, S!Goto
<1>12. ASSUME NEW p \in Proc, S!Exit(p) PROVE StartTypeOK'
  BY <1>12 DEF S!Exit, S!Ended, S!Goto
<1>13. ASSUME NEW p \in Proc, S!ParentReads(p) PROVE StartTypeOK'
  BY <1>13 DEF S!ParentReads, S!own
<1>14. ASSUME NEW p \in Proc, S!Signal(p) PROVE StartTypeOK'
  BY <1>14 DEF S!Signal
<1>15. ASSUME NEW p \in Proc, S!Kill(p) PROVE StartTypeOK'
  BY <1>15 DEF S!Kill, S!Ended, S!Goto
<1>16. ASSUME NEW p \in Proc, S!CloseLock(p) PROVE StartTypeOK'
  BY <1>16 DEF S!CloseLock, S!Goto
<1>17. ASSUME NEW p \in Proc, S!Restart(p) PROVE StartTypeOK'
  BY <1>17 DEF S!Restart, S!Goto
<1> QED BY <1>1, <1>2, <1>3, <1>4, <1>5, <1>6, <1>7, <1>8,
           <1>9, <1>10, <1>11, <1>12, <1>13, <1>14, <1>15, <1>16, <1>17,
           ZenonT(30) DEF S!Next, S!Step

\* One process at a time is between the acquisition and the release of the lock.
LEMMA LockHeldStep == StartTypeOK /\ LockHeld /\ [S!Next]_(S!vars) => LockHeld'
<1> SUFFICES ASSUME StartTypeOK /\ LockHeld, [S!Next]_(S!vars) PROVE LockHeld' OBVIOUS
<1> USE StartAssumption DEF StartTypeOK, LockHeld, Place
<1>1. CASE UNCHANGED S!vars BY <1>1 DEF S!vars, S!own
<1>2. ASSUME NEW p \in Proc, S!ForkAndWait(p) PROVE LockHeld'
  BY <1>2 DEF S!ForkAndWait, S!Goto
<1>3. ASSUME NEW p \in Proc, S!AcquireLock(p) PROVE LockHeld'
  BY <1>3 DEF S!AcquireLock, S!InBackground, S!Goto
<1>4. ASSUME NEW p \in Proc, S!CreatePidfile(p) PROVE LockHeld'
  BY <1>4 DEF S!CreatePidfile, S!Goto
<1>5. ASSUME NEW p \in Proc, S!InitSubsystem(p) PROVE LockHeld'
  BY <1>5 DEF S!InitSubsystem, S!Goto
<1>6. ASSUME NEW p \in Proc, S!ReleaseParent(p) PROVE LockHeld'
  BY <1>6 DEF S!ReleaseParent, S!Goto
<1>7. ASSUME NEW p \in Proc, S!Work(p) PROVE LockHeld'
  BY <1>7 DEF S!Work, S!InBackground, S!Goto
<1>8. ASSUME NEW p \in Proc, S!ShutSubsystem(p) PROVE LockHeld'
  BY <1>8 DEF S!ShutSubsystem
<1>9. ASSUME NEW p \in Proc, S!UnlinkPidfile(p) PROVE LockHeld'
  BY <1>9 DEF S!UnlinkPidfile, S!SubsystemsDown, S!MayUnlink, S!Goto
<1>10. ASSUME NEW p \in Proc, S!ReleaseLock(p) PROVE LockHeld'
  BY <1>10 DEF S!ReleaseLock, S!Goto
<1>11. ASSUME NEW p \in Proc, S!Report(p) PROVE LockHeld'
  BY <1>11 DEF S!Report, S!Goto
<1>12. ASSUME NEW p \in Proc, S!Exit(p) PROVE LockHeld'
  BY <1>12 DEF S!Exit, S!Ended, S!Goto
<1>13. ASSUME NEW p \in Proc, S!ParentReads(p) PROVE LockHeld'
  BY <1>13 DEF S!ParentReads, S!own
<1>14. ASSUME NEW p \in Proc, S!Signal(p) PROVE LockHeld'
  BY <1>14 DEF S!Signal
<1>15. ASSUME NEW p \in Proc, S!Kill(p) PROVE LockHeld'
  BY <1>15 DEF S!Kill, S!Ended, S!Goto
<1>16. ASSUME NEW p \in Proc, S!CloseLock(p) PROVE LockHeld'
  BY <1>16 DEF S!CloseLock, S!Goto
<1>17. ASSUME NEW p \in Proc, S!Restart(p) PROVE LockHeld'
  BY <1>17 DEF S!Restart, S!Goto
<1> QED BY <1>1, <1>2, <1>3, <1>4, <1>5, <1>6, <1>7, <1>8,
           <1>9, <1>10, <1>11, <1>12, <1>13, <1>14, <1>15, <1>16, <1>17,
           ZenonT(30) DEF S!Next, S!Step

\* The pipe is closed by a session that serves or dies, and holds a byte before
\* any other end.
LEMMA PipeTellsStep == StartTypeOK /\ PipeTells /\ [S!Next]_(S!vars) => PipeTells'
<1> SUFFICES ASSUME StartTypeOK /\ PipeTells, [S!Next]_(S!vars) PROVE PipeTells' OBVIOUS
<1> USE StartAssumption DEF StartTypeOK, PipeTells, Served, Place, End
<1>1. CASE UNCHANGED S!vars BY <1>1 DEF S!vars, S!own
<1>2. ASSUME NEW p \in Proc, S!ForkAndWait(p) PROVE PipeTells'
  BY <1>2 DEF S!ForkAndWait, S!Goto
<1>3. ASSUME NEW p \in Proc, S!AcquireLock(p) PROVE PipeTells'
  BY <1>3 DEF S!AcquireLock, S!InBackground, S!Goto
<1>4. ASSUME NEW p \in Proc, S!CreatePidfile(p) PROVE PipeTells'
  BY <1>4 DEF S!CreatePidfile, S!Goto
<1>5. ASSUME NEW p \in Proc, S!InitSubsystem(p) PROVE PipeTells'
  BY <1>5 DEF S!InitSubsystem, S!Goto
<1>6. ASSUME NEW p \in Proc, S!ReleaseParent(p) PROVE PipeTells'
  BY <1>6 DEF S!ReleaseParent, S!Goto
<1>7. ASSUME NEW p \in Proc, S!Work(p) PROVE PipeTells'
  BY <1>7 DEF S!Work, S!InBackground, S!Goto
<1>8. ASSUME NEW p \in Proc, S!ShutSubsystem(p) PROVE PipeTells'
  BY <1>8 DEF S!ShutSubsystem
<1>9. ASSUME NEW p \in Proc, S!UnlinkPidfile(p) PROVE PipeTells'
  BY <1>9 DEF S!UnlinkPidfile, S!SubsystemsDown, S!MayUnlink, S!Goto
<1>10. ASSUME NEW p \in Proc, S!ReleaseLock(p) PROVE PipeTells'
  BY <1>10 DEF S!ReleaseLock, S!Goto
<1>11. ASSUME NEW p \in Proc, S!Report(p) PROVE PipeTells'
  BY <1>11 DEF S!Report, S!Goto
<1>12. ASSUME NEW p \in Proc, S!Exit(p) PROVE PipeTells'
  BY <1>12 DEF S!Exit, S!Ended, S!Goto
<1>13. ASSUME NEW p \in Proc, S!ParentReads(p) PROVE PipeTells'
  BY <1>13 DEF S!ParentReads, S!own
<1>14. ASSUME NEW p \in Proc, S!Signal(p) PROVE PipeTells'
  BY <1>14 DEF S!Signal
<1>15. ASSUME NEW p \in Proc, S!Kill(p) PROVE PipeTells'
  BY <1>15 DEF S!Kill, S!Ended, S!Goto
<1>16. ASSUME NEW p \in Proc, S!CloseLock(p) PROVE PipeTells'
  BY <1>16 DEF S!CloseLock, S!Goto
<1>17. ASSUME NEW p \in Proc, S!Restart(p) PROVE PipeTells'
  BY <1>17 DEF S!Restart, S!Goto
<1> QED BY <1>1, <1>2, <1>3, <1>4, <1>5, <1>6, <1>7, <1>8,
           <1>9, <1>10, <1>11, <1>12, <1>13, <1>14, <1>15, <1>16, <1>17,
           ZenonT(30) DEF S!Next, S!Step

\* What the parent has reported stays true of the session.
LEMMA StartReportedStep == StartTypeOK /\ PipeTells /\ S!StartReported /\ [S!Next]_(S!vars)
                            => S!StartReported'
<1> SUFFICES ASSUME StartTypeOK /\ PipeTells /\ S!StartReported, [S!Next]_(S!vars)
             PROVE S!StartReported' OBVIOUS
<1> USE StartAssumption DEF StartTypeOK, PipeTells, Served, S!StartReported, Place, End
<1>1. CASE UNCHANGED S!vars BY <1>1 DEF S!vars, S!own
<1>2. ASSUME NEW p \in Proc, S!ForkAndWait(p) PROVE S!StartReported'
  BY <1>2 DEF S!ForkAndWait, S!Goto
<1>3. ASSUME NEW p \in Proc, S!AcquireLock(p) PROVE S!StartReported'
  BY <1>3 DEF S!AcquireLock, S!InBackground, S!Goto
<1>4. ASSUME NEW p \in Proc, S!CreatePidfile(p) PROVE S!StartReported'
  BY <1>4 DEF S!CreatePidfile, S!Goto
<1>5. ASSUME NEW p \in Proc, S!InitSubsystem(p) PROVE S!StartReported'
  BY <1>5 DEF S!InitSubsystem, S!Goto
<1>6. ASSUME NEW p \in Proc, S!ReleaseParent(p) PROVE S!StartReported'
  BY <1>6 DEF S!ReleaseParent, S!Goto
<1>7. ASSUME NEW p \in Proc, S!Work(p) PROVE S!StartReported'
  BY <1>7 DEF S!Work, S!InBackground, S!Goto
<1>8. ASSUME NEW p \in Proc, S!ShutSubsystem(p) PROVE S!StartReported'
  BY <1>8 DEF S!ShutSubsystem
<1>9. ASSUME NEW p \in Proc, S!UnlinkPidfile(p) PROVE S!StartReported'
  BY <1>9 DEF S!UnlinkPidfile, S!SubsystemsDown, S!MayUnlink, S!Goto
<1>10. ASSUME NEW p \in Proc, S!ReleaseLock(p) PROVE S!StartReported'
  BY <1>10 DEF S!ReleaseLock, S!Goto
<1>11. ASSUME NEW p \in Proc, S!Report(p) PROVE S!StartReported'
  BY <1>11 DEF S!Report, S!Goto
<1>12. ASSUME NEW p \in Proc, S!Exit(p) PROVE S!StartReported'
  BY <1>12 DEF S!Exit, S!Ended, S!Goto
<1>13. ASSUME NEW p \in Proc, S!ParentReads(p) PROVE S!StartReported'
  BY <1>13 DEF S!ParentReads, S!own
<1>14. ASSUME NEW p \in Proc, S!Signal(p) PROVE S!StartReported'
  BY <1>14 DEF S!Signal
<1>15. ASSUME NEW p \in Proc, S!Kill(p) PROVE S!StartReported'
  BY <1>15 DEF S!Kill, S!Ended, S!Goto
<1>16. ASSUME NEW p \in Proc, S!CloseLock(p) PROVE S!StartReported'
  BY <1>16 DEF S!CloseLock, S!Goto
<1>17. ASSUME NEW p \in Proc, S!Restart(p) PROVE S!StartReported'
  BY <1>17 DEF S!Restart, S!Goto
<1> QED BY <1>1, <1>2, <1>3, <1>4, <1>5, <1>6, <1>7, <1>8,
           <1>9, <1>10, <1>11, <1>12, <1>13, <1>14, <1>15, <1>16, <1>17,
           ZenonT(30) DEF S!Next, S!Step

\* Only the holder of the lock writes or unlinks the pid file.
LEMMA PidfileStep == StartTypeOK /\ LockHeld /\ S!PidfileOfSession /\ [S!Next]_(S!vars)
                      => S!PidfileOfSession'
<1> SUFFICES ASSUME StartTypeOK /\ LockHeld /\ S!PidfileOfSession, [S!Next]_(S!vars)
             PROVE S!PidfileOfSession' OBVIOUS
<1> USE StartAssumption DEF StartTypeOK, LockHeld, S!PidfileOfSession, S!InBackground, Place
<1>1. CASE UNCHANGED S!vars BY <1>1 DEF S!vars, S!own
<1>2. ASSUME NEW p \in Proc, S!ForkAndWait(p) PROVE S!PidfileOfSession'
  BY <1>2 DEF S!ForkAndWait, S!Goto
<1>3. ASSUME NEW p \in Proc, S!AcquireLock(p) PROVE S!PidfileOfSession'
  BY <1>3 DEF S!AcquireLock, S!InBackground, S!Goto
<1>4. ASSUME NEW p \in Proc, S!CreatePidfile(p) PROVE S!PidfileOfSession'
  BY <1>4 DEF S!CreatePidfile, S!Goto
<1>5. ASSUME NEW p \in Proc, S!InitSubsystem(p) PROVE S!PidfileOfSession'
  BY <1>5 DEF S!InitSubsystem, S!Goto
<1>6. ASSUME NEW p \in Proc, S!ReleaseParent(p) PROVE S!PidfileOfSession'
  BY <1>6 DEF S!ReleaseParent, S!Goto
<1>7. ASSUME NEW p \in Proc, S!Work(p) PROVE S!PidfileOfSession'
  BY <1>7 DEF S!Work, S!InBackground, S!Goto
<1>8. ASSUME NEW p \in Proc, S!ShutSubsystem(p) PROVE S!PidfileOfSession'
  BY <1>8 DEF S!ShutSubsystem
<1>9. ASSUME NEW p \in Proc, S!UnlinkPidfile(p) PROVE S!PidfileOfSession'
  BY <1>9 DEF S!UnlinkPidfile, S!SubsystemsDown, S!MayUnlink, S!Goto
<1>10. ASSUME NEW p \in Proc, S!ReleaseLock(p) PROVE S!PidfileOfSession'
  BY <1>10 DEF S!ReleaseLock, S!Goto
<1>11. ASSUME NEW p \in Proc, S!Report(p) PROVE S!PidfileOfSession'
  BY <1>11 DEF S!Report, S!Goto
<1>12. ASSUME NEW p \in Proc, S!Exit(p) PROVE S!PidfileOfSession'
  BY <1>12 DEF S!Exit, S!Ended, S!Goto
<1>13. ASSUME NEW p \in Proc, S!ParentReads(p) PROVE S!PidfileOfSession'
  BY <1>13 DEF S!ParentReads, S!own
<1>14. ASSUME NEW p \in Proc, S!Signal(p) PROVE S!PidfileOfSession'
  BY <1>14 DEF S!Signal
<1>15. ASSUME NEW p \in Proc, S!Kill(p) PROVE S!PidfileOfSession'
  BY <1>15 DEF S!Kill, S!Ended, S!Goto
<1>16. ASSUME NEW p \in Proc, S!CloseLock(p) PROVE S!PidfileOfSession'
  BY <1>16 DEF S!CloseLock, S!Goto
<1>17. ASSUME NEW p \in Proc, S!Restart(p) PROVE S!PidfileOfSession'
  BY <1>17 DEF S!Restart, S!Goto
<1> QED BY <1>1, <1>2, <1>3, <1>4, <1>5, <1>6, <1>7, <1>8,
           <1>9, <1>10, <1>11, <1>12, <1>13, <1>14, <1>15, <1>16, <1>17,
           ZenonT(30) DEF S!Next, S!Step

\* Every step of main() with an atomic lock preserves the invariant.
LEMMA StartInvStep == StartInv /\ [S!Next]_(S!vars) => StartInv'
BY StartTypeStep, LockHeldStep, PipeTellsStep, StartReportedStep, PidfileStep DEF StartInv

\* The inductive invariant of starting and stopping, if the lock is atomic.
THEOREM StartInvariance == S!Spec => []StartInv
BY InitStartInv, StartInvStep, PTL DEF S!Spec

-----------------------------------------------------------------------------
(* main() with the lock file                                               *)

\* main() uses the lock file only through acquire_lockfile() and release_lockfile(), and
\* its death is one of theirs.
LEMMA StepOfLockFile == [StartNext]_all => [Next]_vars
<1> SUFFICES ASSUME [StartNext]_all PROVE [Next]_vars OBVIOUS
<1>1. CASE UNCHANGED all BY <1>1 DEF all
<1>2. ASSUME NEW p \in Proc,
             StartStep(p) \/ Works(p) \/ Signalled(p) \/ Killed(p) \/ Restarted(p)
      PROVE  [Next]_vars
  <2>1. \/ Begin(p) \/ Open(p) \/ Lock(p) \/ Retry(p) \/ Keep(p) \/ Busy(p) \/ Crash(p)
        \/ Unlink(p) \/ Release(p) \/ UNCHANGED vars
    BY <1>2, Zenon DEF StartStep, Works, Signalled, Killed, Restarted, Acquiring, Acquired, Refused,
       Unlinks, Closes, NothingToRelease, Goes
  <2> QED BY <2>1, Zenon DEF Next, Step
<1> QED BY <1>1, <1>2, Zenon DEF StartNext

\* So what is proved of the lock file holds of the lock file of main().
THEOREM UsesLockFile == StartSpec => Spec
BY StepOfLockFile, PTL DEF StartSpec, StartInit, Spec

\* The mapping: holder is the process that holds the lock file.
HolderIs ==
  /\ \A p \in Proc : Holding(p) <=> holder = p
  /\ (\A p \in Proc : ~Holding(p)) => holder = None

\* acquire_lockfile() has returned success to one process at most, so the mapping is
\* well defined.
LEMMA HolderFacts == IInv => HolderIs
<1> SUFFICES ASSUME IInv PROVE HolderIs OBVIOUS
<1>1. MutualExclusion
  BY IInvExcludes
<1>2. ASSUME NEW p \in Proc, Holding(p) PROVE holder = p
  BY <1>1, <1>2, Zenon DEF MutualExclusion, Holding, holder
<1>3. ASSUME NEW p \in Proc, holder = p PROVE Holding(p)
  <2>1. PICK q \in Proc : Holding(q)
    BY <1>3, NoneApart, Zenon DEF holder
  <2> QED BY <1>2, <1>3, <2>1, Zenon
<1>4. (\A p \in Proc : ~Holding(p)) => holder = None
  BY Zenon DEF holder
<1> QED BY <1>2, <1>3, <1>4, Zenon DEF HolderIs

\* If nobody begins or ends to hold the lock file, the holder stays.
LEMMA HolderSame ==
  ASSUME HolderIs, HolderIs', \A p \in Proc : Holding(p)' <=> Holding(p)
  PROVE  holder' = holder
<1>1. CASE \E p \in Proc : Holding(p)
  <2>1. PICK p \in Proc : Holding(p)
    BY <1>1
  <2>2. holder = p /\ holder' = p
    BY <2>1, Zenon DEF HolderIs
  <2> QED BY <2>2
<1>2. CASE \A p \in Proc : ~Holding(p)
  BY <1>2, Zenon DEF HolderIs
<1> QED BY <1>1, <1>2, Zenon

\* The system calls of acquire_lockfile() before its return, and the close() of
\* release_lockfile() and of an error, leave it as it is who holds the lock.
LEMMA QuietSteps ==
  ASSUME TypeOK, NEW p \in Proc,
         \/ Begin(p) \/ Open(p) \/ Lock(p) \/ Retry(p) \/ Busy(p) \/ Release(p)
         \/ (Crash(p) /\ ~Holding(p)) \/ UNCHANGED vars
  PROVE  \A q \in Proc : Holding(q)' <=> Holding(q)
<1>1. \/ pc' = pc
      \/ \E l \in {"open", "opened", "locked", "idle"} : ~Holding(p) /\ Goto(p, l)
  BY DEF Begin, Open, Lock, Retry, Busy, Release, Crash, Holding, vars
<1> QED BY <1>1 DEF Goto, Holding, TypeOK

\* Each step of main() with the lock file is a step of main() with an atomic lock, or none.
LEMMA StepIsAtomic ==
  ASSUME IInv, HolderIs, HolderIs', LockHeld, StartNext
  PROVE  [S!Next]_(S!vars)
<1>1. PICK p \in Proc : StartStep(p) \/ Works(p) \/ Signalled(p) \/ Killed(p) \/ Restarted(p)
  BY Zenon DEF StartNext
<1>2. TypeOK BY DEF IInv
<1>3. CASE Acquiring(p)
  <2>1. holder' = holder
    BY <1>2, <1>3, QuietSteps, HolderSame, Zenon DEF Acquiring
  <2> QED BY <1>3, <2>1, Zenon DEF Acquiring, own, S!vars, S!own
<1>4. CASE Acquired(p)
  <2>1. ASSUME NEW q \in Proc PROVE ~Holding(q)
    <3>1. pc[p] = "locked" /\ fd[p] \in nlink
      BY <1>4, Zenon DEF Acquired, Keep, StillLinked
    <3>2. fd[p] = path /\ locked[fd[p]] = p
      BY <3>1 DEF IInv, Files
    <3> QED
      BY <3>1, <3>2 DEF IInv, HolderNamed, Holding
  <2>2. Holding(p)'
    BY <1>2, <1>4 DEF Acquired, Keep, Goto, TypeOK, Holding
  <2>3. holder = None /\ holder' = p
    BY <2>1, <2>2, Zenon DEF HolderIs
  <2>4. S!AcquireLock(p)
    BY <1>4, <2>3, Zenon DEF Acquired, To, S!AcquireLock, S!Goto
  <2> QED BY <2>4, Zenon DEF S!Next, S!Step
<1>5. CASE Refused(p)
  <2>0. ~Holding(p)
    BY <1>5 DEF Refused, LockHeld, HolderIs
  <2>1. holder' = holder
    BY <1>2, <1>5, <2>0, QuietSteps, HolderSame, Zenon DEF Refused
  <2>2. S!AcquireLock(p)
    BY <1>5, <2>1, Zenon DEF Refused, To, S!AcquireLock, S!Goto
  <2> QED BY <2>2, Zenon DEF S!Next, S!Step
<1>6. CASE Unlinks(p)
  <2>1. \A q \in Proc : ~Holding(q)'
    BY <1>6, IInvExcludes DEF Unlinks, Unlink, Goto, IInv, TypeOK, MutualExclusion, Holding
  <2>2. holder' = None
    BY <2>1, Zenon DEF HolderIs
  <2>3. S!ReleaseLock(p)
    BY <1>6, <2>2, Zenon DEF Unlinks, To, S!ReleaseLock, S!Goto
  <2> QED BY <2>3, Zenon DEF S!Next, S!Step
<1>7. CASE Closes(p)
  <2>1. holder' = holder
    BY <1>2, <1>7, QuietSteps, HolderSame, Zenon DEF Closes
  <2>2. S!CloseLock(p)
    BY <1>7, <2>1, Zenon DEF Closes, To, S!CloseLock, S!Goto
  <2> QED BY <2>2, Zenon DEF S!Next, S!Step
<1>8. CASE NothingToRelease(p)
  <2>1. holder' = holder
    BY <1>2, <1>8, QuietSteps, HolderSame, Zenon DEF NothingToRelease
  <2>2. S!ReleaseLock(p)
    BY <1>8, <2>1, Zenon DEF NothingToRelease, To, S!ReleaseLock, S!Goto
  <2> QED BY <2>2, Zenon DEF S!Next, S!Step
<1>9. CASE Goes(p) \/ Works(p) \/ Signalled(p) \/ Restarted(p)
  BY <1>9, Zenon DEF Goes, Works, Signalled, Restarted, S!Next, S!Step
<1>10. CASE Killed(p)
  <2>1. holder' = IF holder = p THEN None ELSE holder
    <3>1. CASE Holding(p)
      <4>1. \A q \in Proc : ~Holding(q)'
        BY <1>10, <3>1, IInvExcludes
        DEF Killed, Crash, Goto, IInv, TypeOK, MutualExclusion, Holding
      <4> QED BY <3>1, <4>1, Zenon DEF HolderIs
    <3>2. CASE ~Holding(p)
      <4>1. holder' = holder
        BY <1>2, <1>10, <3>2, QuietSteps, HolderSame, Zenon DEF Killed
      <4> QED BY <3>2, <4>1, Zenon DEF HolderIs
    <3> QED BY <3>1, <3>2
  <2>2. S!Kill(p)
    BY <1>10, <2>1, Zenon DEF Killed, S!Kill
  <2> QED BY <2>2, Zenon DEF S!Next
<1> QED BY <1>1, <1>3, <1>4, <1>5, <1>6, <1>7, <1>8, <1>9, <1>10, Zenon DEF StartStep

\* acquire_lockfile() and release_lockfile() of util.c, whose system calls interleave with
\* those of other invocations and end with the death of the process, are for main() as
\* good as a lock that is taken and given up in one step.
THEOREM LockIsAtomic == StartSpec => AtomicLock
<1>1. StartInit => S!Init
  BY DEF StartInit
<1>2. IInv /\ HolderIs /\ HolderIs' /\ StartInv /\ [StartNext]_all => [S!Next]_(S!vars)
  <2>1. CASE UNCHANGED all
    <3>1. \A q \in Proc : Holding(q)' <=> Holding(q)
      BY <2>1, Zenon DEF all, vars, Holding
    <3>2. HolderIs /\ HolderIs' => holder' = holder
      BY <3>1, HolderSame, Zenon
    <3> QED BY <2>1, <3>1, <3>2, Zenon DEF all, own, S!vars, S!own
  <2>2. CASE StartNext
    BY <2>2, StepIsAtomic, Zenon DEF StartInv
  <2> QED BY <2>1, <2>2, Zenon
<1>3. StartInv /\ [S!Next]_(S!vars) => StartInv'
  BY StartInvStep
<1>4. S!Init => StartInv
  BY InitStartInv
<1> QED BY UsesLockFile, Invariance, HolderFacts, <1>1, <1>2, <1>3, <1>4, PTL
        DEF StartSpec, AtomicLock, S!Spec

\* fork_and_wait(): whatever the order of the child's failures, signals and death,
\* the parent reports success only for a session that got as far as serving or
\* was killed, and otherwise ends as the child did.
THEOREM StartIsReported == StartSpec => []StartReported
<1>1. StartInv => StartReported BY DEF StartInv, StartReported
<1> QED BY LockIsAtomic, StartInvariance, <1>1, PTL DEF AtomicLock

\* create_pidfile() and the unlink() of main(): the pid file names the session
\* that runs, for any number of invocations that start, fail, end or are killed.
THEOREM PidfileNamesSession == StartSpec => []PidfileOfSession
<1>1. StartInv => PidfileOfSession BY DEF StartInv, PidfileOfSession
<1> QED BY LockIsAtomic, StartInvariance, <1>1, PTL DEF AtomicLock

=============================================================================
