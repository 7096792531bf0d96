------------------------------ MODULE Checkin -------------------------------
(***************************************************************************)
(* Clients that check a parcel out, change it, and check it in again       *)
(* (checkout(), sync(), checkin() and clean() in client/isr.in), composed  *)
(* with the programs they start on the server over ssh.                    *)
(*                                                                         *)
(* A fault is a killed process, a lost connection or a forced release.     *)
(* When the connection is lost the client sees a failure, while the        *)
(* program it has started goes on.                                         *)
(***************************************************************************)
EXTENDS ParcelStore

CONSTANTS
  Client,     \* machines
  MaxFault    \* bound on the number of faults

ASSUME FaultBound == MaxFault \in Nat

VARIABLES
  stage,      \* how far the client has come
  nonce,      \* the session id
  prev,       \* prev-keyring, the keyring of the version that was checked out
  keyring,    \* keyring, with what the virtual machine has written
  clean,      \* the clean-cache flag
  upload,     \* the upload directory, or None without the consistent-dirty-cache flag
  job,        \* the process on the server the client waits for
  faults

clientvars == <<stage, nonce, prev, keyring, clean, upload, job>>
vars == <<storevars, clientvars, faults>>

Stage == {"away", "locked", "rolling", "rolled", "out", "uploaded", "checked",
          "prechecked", "committing", "committed"}

ClientTypeOK ==
  /\ TypeOK
  /\ stage \in [Client -> Stage]
  /\ nonce \in [Client -> Nonce \cup {None}]
  /\ prev \in [Client -> Keyring \cup {None}]
  /\ keyring \in [Client -> Keyring \cup {None}]
  /\ clean \in [Client -> BOOLEAN]
  /\ upload \in [Client -> Tree \cup {None}]
  /\ job \in [Client -> Proc \cup {None}]
  /\ faults \in 0 .. MaxFault

ToStage(c, s) == stage' = [stage EXCEPT ![c] = s]

\* A fault happens.
Fault ==
  /\ faults < MaxFault
  /\ faults' = faults + 1

NobodyWaitsFor(p) == ~Running(p) /\ \A c \in Client : job[c] # p

-----------------------------------------------------------------------------
(* clean()                                                                 *)

\* rm -rf $parceldir
Erased(c) ==
  /\ ToStage(c, "away")
  /\ nonce' = [nonce EXCEPT ![c] = None]
  /\ prev' = [prev EXCEPT ![c] = None]
  /\ keyring' = [keyring EXCEPT ![c] = None]
  /\ clean' = [clean EXCEPT ![c] = FALSE]
  /\ upload' = [upload EXCEPT ![c] = None]
  /\ job' = [job EXCEPT ![c] = None]

\* clean(0), with a soft release
Clean(c) ==
  /\ Erased(c)
  /\ lock' = SoftReleased(nonce[c])
  /\ UNCHANGED <<tree, last, cache, nonces, proc, committed>>

\* isr checkin of a clean cache, and isr clean.
Release(c) ==
  /\ stage[c] = "out"
  /\ Clean(c)
  /\ UNCHANGED faults

\* The parcel is erased although the release does not reach the server.
ReleaseLost(c) ==
  /\ stage[c] = "out"
  /\ Fault
  /\ Erased(c)
  /\ UNCHANGED storevars

\* isr clean --force, with a hard release
ForceClean(c) ==
  /\ stage[c] \in {"away", "out"}
  /\ lock # None
  /\ Fault
  /\ Erased(c)
  /\ lock' = None
  /\ UNCHANGED <<tree, last, cache, nonces, proc, committed>>

-----------------------------------------------------------------------------
(* checkout()                                                              *)

Checkout(c) ==
  /\ stage[c] = "away"
  /\ Acquire
  /\ nonce' = [nonce EXCEPT ![c] = nonces + 1]
  /\ ToStage(c, "locked")
  /\ UNCHANGED <<prev, keyring, clean, upload, job, faults>>

\* The lock is taken, but the nonce does not reach the client.
NonceLost(c) ==
  /\ stage[c] = "away"
  /\ Fault
  /\ Acquire
  /\ UNCHANGED clientvars

\* isr checkout --rollback
StartRollback(c, p, v) ==
  /\ stage[c] = "locked"
  /\ NobodyWaitsFor(p)
  /\ Start(p, "locked", nonce[c], v)
  /\ job' = [job EXCEPT ![c] = p]
  /\ ToStage(c, "rolling")
  /\ UNCHANGED <<nonce, prev, keyring, clean, upload, faults,
                 tree, last, cache, lock, nonces, committed>>

RollbackReturns(c) ==
  /\ stage[c] = "rolling"
  /\ \/ /\ proc[job[c]].pc = "ok"
        /\ ToStage(c, "rolled")
        /\ job' = [job EXCEPT ![c] = None]
        /\ UNCHANGED <<storevars, nonce, prev, keyring, clean, upload>>
     \/ /\ proc[job[c]].pc = "failed"
        /\ Clean(c)
  /\ UNCHANGED faults

RollbackReplyLost(c) ==
  /\ stage[c] = "rolling"
  /\ Fault
  /\ Clean(c)

\* Keyring and memory image are fetched from last/, or the client gives up.
Fetch(c) ==
  /\ stage[c] \in {"locked", "rolled"}
  /\ \/ /\ last # None /\ tree[last] # None
        /\ tree[last].keyring # None /\ tree[last].cfg
        /\ prev' = [prev EXCEPT ![c] = tree[last].keyring]
        /\ keyring' = [keyring EXCEPT ![c] = tree[last].keyring]
        /\ clean' = [clean EXCEPT ![c] = TRUE]
        /\ ToStage(c, "out")
        /\ UNCHANGED <<storevars, nonce, upload, job>>
     \/ Clean(c)
  /\ UNCHANGED faults

-----------------------------------------------------------------------------
(* run(): both flags are reset, and the virtual machine writes             *)

Run(c, r) ==
  /\ stage[c] = "out"
  /\ keyring' = [keyring EXCEPT ![c] = r]
  /\ clean' = [clean EXCEPT ![c] = FALSE]
  /\ upload' = [upload EXCEPT ![c] = None]
  /\ UNCHANGED <<storevars, stage, nonce, prev, job, faults>>

-----------------------------------------------------------------------------
(* sync()                                                                  *)

DirtyChunks_All(c) ==
  [cfg |-> TRUE, keyring |-> keyring[c], dirs |-> Dir, file |-> keyring[c]]

\* copy_for_upload() and copy_dirtychunks()
DirtyChunks(c) ==
  [cfg |-> TRUE, keyring |-> keyring[c], dirs |-> Dir,
   file |-> [k \in Chunk |-> IF keyring[c][k] # prev[c][k] THEN keyring[c][k] ELSE None]]

\* The upload directory is made, unless the flag says that it is up to date.
UploadDir(c) == IF upload[c] # None THEN upload[c] ELSE DirtyChunks(c)

\* rsync --delete
Send(c) ==
  /\ stage[c] = "out" /\ ~clean[c]
  /\ upload' = [upload EXCEPT ![c] = UploadDir(c)]
  /\ cache' = [cache EXCEPT ![nonce[c]] = UploadDir(c)]
  /\ ToStage(c, "uploaded")
  /\ UNCHANGED <<tree, last, lock, nonces, proc, committed,
                 nonce, prev, keyring, clean, job, faults>>

\* rsync fails and leaves some of the chunk files.  (It could also leave the keyring
\* or a directory out; upload() has to succeed before the commit in any case.)
SendFails(c, sent) ==
  /\ stage[c] = "out" /\ ~clean[c]
  /\ Fault
  /\ upload' = [upload EXCEPT ![c] = UploadDir(c)]
  /\ cache' = [cache EXCEPT ![nonce[c]] =
                 [UploadDir(c) EXCEPT !.file =
                    [k \in Chunk |-> IF k \in sent THEN UploadDir(c).file[k] ELSE None]]]
  /\ UNCHANGED <<tree, last, lock, nonces, proc, committed,
                 stage, nonce, prev, keyring, clean, job>>

\* commit(): checkparcel, checkparcel -s, commit, checkparcel
CheckParcel(c) ==
  /\ stage[c] = "uploaded"
  /\ ToStage(c, IF ParcelConsistent THEN "checked" ELSE "out")
  /\ UNCHANGED <<storevars, nonce, prev, keyring, clean, upload, job, faults>>

CheckUpload(c) ==
  /\ stage[c] = "checked"
  /\ ToStage(c, IF UploadConsistent(nonce[c]) THEN "prechecked" ELSE "out")
  /\ UNCHANGED <<storevars, nonce, prev, keyring, clean, upload, job, faults>>

StartCommit(c, p) ==
  /\ stage[c] = "prechecked"
  /\ NobodyWaitsFor(p)
  /\ Start(p, "nonce", nonce[c], None)
  /\ job' = [job EXCEPT ![c] = p]
  /\ ToStage(c, "committing")
  /\ UNCHANGED <<nonce, prev, keyring, clean, upload, faults,
                 tree, last, cache, lock, nonces, committed>>

CommitReturns(c) ==
  /\ stage[c] = "committing"
  /\ ~Running(job[c])
  /\ ToStage(c, IF proc[job[c]].pc = "ok" THEN "committed" ELSE "out")
  /\ job' = [job EXCEPT ![c] = None]
  /\ UNCHANGED <<storevars, nonce, prev, keyring, clean, upload, faults>>

CommitReplyLost(c) ==
  /\ stage[c] = "committing"
  /\ Fault
  /\ ToStage(c, "out")
  /\ job' = [job EXCEPT ![c] = None]
  /\ UNCHANGED <<storevars, nonce, prev, keyring, clean, upload>>

\* clientcommit(), if the last check finds nothing wrong
ClientCommit(c) ==
  /\ stage[c] = "committed"
  /\ ToStage(c, "out")
  /\ IF ParcelConsistent
     THEN /\ prev' = [prev EXCEPT ![c] = keyring[c]]
          /\ upload' = [upload EXCEPT ![c] = None]
          /\ clean' = [clean EXCEPT ![c] = TRUE]
     ELSE UNCHANGED <<prev, upload, clean>>
  /\ UNCHANGED <<storevars, nonce, keyring, job, faults>>

-----------------------------------------------------------------------------

Init ==
  /\ StoreInit
  /\ stage = [c \in Client |-> "away"]
  /\ nonce = [c \in Client |-> None]
  /\ prev = [c \in Client |-> None]
  /\ keyring = [c \in Client |-> None]
  /\ clean = [c \in Client |-> FALSE]
  /\ upload = [c \in Client |-> None]
  /\ job = [c \in Client |-> None]
  /\ faults = 0

Server(p) == ScriptStep(p) /\ UNCHANGED <<clientvars, faults>>

ServerKilled(p) == Killed(p) /\ Fault /\ UNCHANGED clientvars

ClientStep(c) ==
  \/ Checkout(c) \/ NonceLost(c) \/ Fetch(c)
  \/ \E p \in Proc, v \in Version : StartRollback(c, p, v)
  \/ RollbackReturns(c) \/ RollbackReplyLost(c)
  \/ \E r \in Keyring : Run(c, r)
  \/ Send(c) \/ \E sent \in SUBSET Chunk : SendFails(c, sent)
  \/ CheckParcel(c) \/ CheckUpload(c)
  \/ \E p \in Proc : StartCommit(c, p)
  \/ CommitReturns(c) \/ CommitReplyLost(c) \/ ClientCommit(c)
  \/ Release(c) \/ ReleaseLost(c) \/ ForceClean(c)

Next ==
  \/ \E p \in Proc : Server(p) \/ ServerKilled(p)
  \/ \E c \in Client : ClientStep(c)

Spec == Init /\ [][Next]_vars

-----------------------------------------------------------------------------
(* Properties                                                              *)

\* A client that has a lock knows the nonce, and one that has a parcel its keyring.
Sessions ==
  \A c \in Client :
    /\ stage[c] # "away" => nonce[c] \in Nonce
    /\ stage[c] \notin {"away", "locked", "rolling", "rolled"} =>
         prev[c] \in Keyring /\ keyring[c] \in Keyring

IInv == ClientTypeOK /\ Sessions /\ StoreInv

\* When the clean-cache flag is set, which lets isr checkin release the parcel
\* without an upload, what the client has is version last of the server, as long
\* as nothing has failed.
CleanIsStored ==
  \A c \in Client : faults = 0 /\ clean[c] /\ lock = nonce[c] /\ last # None =>
    Restored(last) = keyring[c]

\* Without a fault no check and no step of the commit refuses what sync() of
\* isr.in has uploaded: it goes on until the flag says that it is stored.
SyncSucceeds ==
  [][\A c \in Client :
       /\ faults' = 0
       /\ stage[c] \in {"uploaded", "checked", "prechecked", "committing", "committed"}
       => stage'[c] # "out" \/ clean'[c]]_vars

\* A rollback makes a version that is what its target was when srv_commit.pm made
\* it: "a rollback to v2 will create a new v7 that is identical to v2 when it was
\* checked in" (locksrv/README).  (Unless something has failed: a commit that
\* was abandoned or killed may have left a version without a chunk.)
RollbackRestores ==
  [][\A p \in Proc :
       /\ faults = 0
       /\ proc[p].target # None /\ committed[proc[p].target] # None
       /\ proc[p].pc # "ok" /\ proc'[p].pc = "ok"
       => Restored(LastVersion)' = committed[proc[p].target].disk]_vars

=============================================================================
