--------------------------- MODULE CheckinProofs ----------------------------
(***************************************************************************)
(* No version of a parcel is ever lost, for any number of chunks, versions,*)
(* clients, processes and faults; and what isr promises as long as nothing *)
(* fails: a checkout, a sync and a rollback end with the version they are  *)
(* about.  Without a fault one client at a time has the lock, and one      *)
(* program at a time runs for it.                                          *)
(***************************************************************************)
EXTENDS Checkin, ParcelStoreProofs

\* A step that names no prover is one for Zenon.
USE ZenonT(30)

-----------------------------------------------------------------------------
(* The clients, and the theorems                                           *)

\* The variables of the clients, with their types.
Clients ==
  /\ stage \in [Client -> Stage]
  /\ nonce \in [Client -> Nonce \cup {None}]
  /\ prev \in [Client -> Keyring \cup {None}]
  /\ keyring \in [Client -> Keyring \cup {None}]
  /\ clean \in [Client -> BOOLEAN]
  /\ upload \in [Client -> Tree \cup {None}]
  /\ job \in [Client -> Proc \cup {None}]
  /\ faults \in 0 .. MaxFault

\* The invariant is about the store, the variables of the clients and Sessions.
LEMMA Parts == IInv <=> StoreInv /\ Clients /\ Sessions
BY DEF IInv, ClientTypeOK, Clients, StoreInv

\* The parcel starts with version 1, which holds all its chunks.
LEMMA InitInv ==
  ASSUME Init
  PROVE  IInv
<1>1. PICK r \in Keyring :
        /\ tree = [v \in Version |->
             IF v = 1 THEN [cfg |-> TRUE, keyring |-> r, dirs |-> Dir, file |-> r] ELSE None]
        /\ committed = [v \in Version |-> IF v = 1 THEN [by |-> None, disk |-> r] ELSE None]
  BY DEF Init, StoreInit
<1>2. /\ last = 1 /\ cache = [n \in Nonce |-> None] /\ lock = None /\ nonces = 0
      /\ proc = [p \in Proc |-> Idle]
  BY DEF Init, StoreInit
<1>3. r \in [Chunk -> Tag \cup {None}] /\ \A k \in Chunk : r[k] # None
  BY NoneApart DEF Keyring
<1>4. 1 \in Version
  BY Bounds, SMTT(20) DEF Version
<1> DEFINE first == [cfg |-> TRUE, keyring |-> r, dirs |-> Dir, file |-> r]
           made == [by |-> None, disk |-> r]
<1>5. /\ first \in Tree /\ made \in Record /\ first.file = r /\ made.disk = r
      /\ first # None /\ made # None
  <2>1. first \in Tree
    BY <1>3 DEF Tree
  <2>2. made \in Record
    BY <1>3 DEF Record
  <2> QED BY <2>1, <2>2, NoneApart
<1>6. /\ tree \in [Version -> Tree \cup {None}] /\ committed \in [Version -> Record \cup {None}]
      /\ tree[1] = first /\ committed[1] = made
      /\ \A v \in Version : v # 1 => tree[v] = None /\ committed[v] = None
  <2>1. /\ tree = [v \in Version |-> IF v = 1 THEN first ELSE None]
        /\ committed = [v \in Version |-> IF v = 1 THEN made ELSE None]
    BY <1>1
  <2> HIDE DEF first, made
  <2> QED BY <1>4, <1>5, <2>1
<1> HIDE DEF first, made
<1>7. Idle \in Process /\ Idle.pc = "idle"
  BY DirFacts, SMTT(30) DEF Idle, Process
<1>8. \A p \in Proc : proc[p] \in Process /\ proc[p].pc = "idle"
  BY <1>2, <1>7
<1>9. TypeOK
  BY <1>2, <1>4, <1>6, <1>7, Bounds, SMTT(20) DEF TypeOK
<1>10. Arguments
  BY <1>8 DEF Arguments, Sound, RollbackPc, CommitPc
<1>11. \A p \in Proc : ~Scanned(p) /\ ~Owner(p) /\ ~Building(p)
  BY <1>8 DEF Scanned, Owner, Building, BuildPc, FillPc
<1>12. Owned
  BY <1>4, <1>5, <1>6, <1>11, Bounds, SMTT(30) DEF Owned, Version
<1>13. Unfinished
  BY <1>11 DEF Unfinished
<1>14. Handover
  BY <1>8 DEF Handover, OldKept, Returned, NotAhead, NoOverwrite, ToMove, Replacing
<1>15. VersionsKept
  <2>1. ASSUME NEW k \in Chunk PROVE Restored(1)[k] = r[k]
    <3>1. /\ File(1, k) = r[k] /\ File(1, k) # None
          /\ \A w \in Version : w # 1 => File(w, k) = None
      BY <1>3, <1>5, <1>6, <1>4 DEF File
    <3>2. Having(1, k) = {1}
      BY <3>1, Bounds, SMTT(20) DEF Having, Version
    <3>3. Min(Having(1, k)) = 1
      BY <3>2, MinFacts, SMTT(20)
    <3> QED BY <3>1, <3>2, <3>3 DEF Restored
  <2>2. Restored(1) = r
    BY <1>3, <2>1 DEF Restored
  <2> QED BY <1>5, <1>6, <2>2 DEF VersionsKept
<1>16. Clients /\ Sessions
  BY FaultBound, SMTT(20) DEF Init, Clients, Sessions, Stage
<1> QED BY <1>9, <1>10, <1>12, <1>13, <1>14, <1>15, <1>16, Parts DEF StoreInv

\* Every step preserves the invariant.
LEMMA StepInv ==
  IInv /\ [Next]_vars => IInv'
\* A fault is counted within its bound.
<1>FaultFacts.
  ASSUME Clients, Fault
  PROVE  faults' \in 0 .. MaxFault
  BY <1>FaultFacts, FaultBound, SMTT(20) DEF Clients, Fault
\* A parcel that is erased leaves the client without a session.
<1>ErasedStep.
  ASSUME Clients, Sessions, NEW c \in Client, Erased(c), faults' \in 0 .. MaxFault
  PROVE  Clients' /\ Sessions'
  <2> USE <1>ErasedStep
  <2>1. Clients'
    BY DEF Clients, Erased, ToStage, Stage
  <2>2. stage'[c] = "away"
    BY DEF Clients, Erased, ToStage
  <2>3. \A d \in Client : d # c => /\ stage'[d] = stage[d] /\ nonce'[d] = nonce[d]
                                   /\ prev'[d] = prev[d] /\ keyring'[d] = keyring[d]
    BY DEF Clients, Erased, ToStage
  <2>4. Sessions'
    BY <2>2, <2>3 DEF Sessions
  <2> QED BY <2>1, <2>4
\* The soft release of a lock.
<1>CleanStep.
  ASSUME IInv, NEW c \in Client, Clean(c), faults' \in 0 .. MaxFault
  PROVE  IInv'
  <2> USE <1>CleanStep
  <2>1. RestOK
    BY DEF IInv, StoreInv, TypeOK, Clean, SoftReleased, RestOK
  <2>2. StoreInv'
    BY <2>1, StoreSame DEF IInv, Clean
  <2>3. Clients' /\ Sessions'
    BY Parts, <1>ErasedStep DEF Clean
  <2> QED BY <2>2, <2>3, Parts DEF IInv, ClientTypeOK, Clients, StoreInv
\* A step of one client, as far as its session is concerned.
<1>SessionStep.
  ASSUME Clients, Sessions, NEW c \in Client, NEW s \in Stage, ToStage(c, s),
         s # "away" => nonce'[c] \in Nonce,
         s \notin {"away", "locked", "rolling", "rolled"} =>
           prev'[c] \in Keyring /\ keyring'[c] \in Keyring,
         \A d \in Client : d # c => /\ nonce'[d] = nonce[d] /\ prev'[d] = prev[d]
                                    /\ keyring'[d] = keyring[d]
  PROVE  stage' \in [Client -> Stage] /\ Sessions'
  <2> USE <1>SessionStep
  <2>1. /\ stage' \in [Client -> Stage] /\ stage'[c] = s
        /\ \A d \in Client : d # c => stage'[d] = stage[d]
    BY DEF Clients, ToStage
  <2> QED BY <2>1 DEF Sessions
\* The client takes the lock and learns its nonce, or never hears of it.
<1>CheckoutStep.
  ASSUME IInv, NEW c \in Client, Checkout(c) \/ NonceLost(c)
  PROVE  IInv'
  <2> USE <1>CheckoutStep
  <2>1. Acquire
    BY DEF Checkout, NonceLost
  <2>2. nonces + 1 \in Nonce /\ nonces + 1 \in 0 .. MaxNonce
    BY <2>1, Bounds, SMTT(30) DEF Acquire, IInv, StoreInv, TypeOK, Nonce
  <2>3. RestOK
    BY <2>1, <2>2 DEF Acquire, IInv, StoreInv, TypeOK, RestOK
  <2>4. StoreInv'
    BY <2>1, <2>3, StoreSame DEF Acquire, IInv
  <2>5. Clients /\ Sessions
    BY Parts
  <2>6. Clients' /\ Sessions'
    <3>1. CASE Checkout(c)
      <4>1. /\ nonce' = [nonce EXCEPT ![c] = nonces + 1] /\ ToStage(c, "locked")
            /\ UNCHANGED <<prev, keyring, clean, upload, job, faults>>
        BY <3>1 DEF Checkout
      <4>2. /\ nonce' \in [Client -> Nonce \cup {None}] /\ nonce'[c] \in Nonce
            /\ \A d \in Client : d # c => nonce'[d] = nonce[d]
        BY <2>2, <2>5, <4>1 DEF Clients
      <4>3. stage' \in [Client -> Stage] /\ Sessions'
        BY <2>5, <4>1, <4>2, <1>SessionStep DEF Stage
      <4> QED BY <2>5, <4>1, <4>2, <4>3 DEF Clients
    <3>2. CASE NonceLost(c)
      <4>1. UNCHANGED clientvars /\ Fault
        BY <3>2 DEF NonceLost
      <4> QED BY <2>5, <4>1, <1>FaultFacts DEF Clients, Sessions, clientvars
    <3> QED BY <3>1, <3>2
  <2> QED BY <2>4, <2>6, Parts DEF IInv, ClientTypeOK, Clients, StoreInv
\* A program is started on the server.
<1>StartedStep.
  ASSUME IInv, NEW c \in Client, NEW p \in Proc,
         StartCommit(c, p) \/ \E v \in Version : StartRollback(c, p, v)
  PROVE  IInv'
  <2> USE <1>StartedStep
  <2>1. Clients /\ Sessions /\ StoreInv
    BY Parts
  <2>2. nonce[c] \in Nonce
    BY <2>1 DEF Sessions, StartCommit, StartRollback
  <2>3. RestOK /\ tree' = tree
    BY <2>1, RestSame DEF StartCommit, StartRollback
  <2>4. StoreInv'
    <3>1. CASE StartCommit(c, p)
      BY <2>1, <2>2, <2>3, <3>1, StartStep DEF StartCommit
    <3>2. CASE \E v \in Version : StartRollback(c, p, v)
      BY <2>1, <2>2, <2>3, <3>2, StartStep DEF StartRollback
    <3> QED BY <3>1, <3>2
  <2>5. PICK s \in {"rolling", "committing"} :
          /\ ToStage(c, s) /\ job' = [job EXCEPT ![c] = p]
          /\ UNCHANGED <<nonce, prev, keyring, clean, upload, faults>>
          /\ s = "committing" => stage[c] = "prechecked"
    BY DEF StartCommit, StartRollback
  <2>6. stage' \in [Client -> Stage] /\ Sessions'
    <3>1. s = "committing" => prev[c] \in Keyring /\ keyring[c] \in Keyring
      BY <2>1, <2>5 DEF Sessions
    <3> QED BY <2>1, <2>2, <2>5, <3>1, <1>SessionStep DEF Stage
  <2>7. Clients'
    BY <2>1, <2>5, <2>6 DEF Clients
  <2> QED BY <2>4, <2>6, <2>7, Parts DEF IInv, ClientTypeOK, Clients, StoreInv
\* What a client uploads is a tree.
<1>UploadDirType.
  ASSUME Clients, NEW c \in Client, prev[c] \in Keyring, keyring[c] \in Keyring
  PROVE  UploadDir(c) \in Tree
  <2> USE <1>UploadDirType
  <2>1. [k \in Chunk |-> IF keyring[c][k] # prev[c][k] THEN keyring[c][k] ELSE None]
          \in [Chunk -> Tag \cup {None}]
    BY DEF Keyring
  <2>2. DirtyChunks(c) \in Tree
    BY <2>1 DEF DirtyChunks, Tree
  <2> QED BY <2>2 DEF UploadDir, Clients
\* rsync, that succeeds or fails.
<1>SendStep.
  ASSUME IInv, NEW c \in Client, Send(c) \/ \E sent \in SUBSET Chunk : SendFails(c, sent)
  PROVE  IInv'
  <2> USE <1>SendStep
  <2>1. Clients /\ Sessions /\ StoreInv
    BY Parts
  <2>2. nonce[c] \in Nonce /\ prev[c] \in Keyring /\ keyring[c] \in Keyring
    BY <2>1 DEF Sessions, Send, SendFails
  <2>3. UploadDir(c) \in Tree
    BY <2>1, <2>2, <1>UploadDirType
  <2>4. PICK t \in Tree : cache' = [cache EXCEPT ![nonce[c]] = t]
    <3>1. CASE Send(c)
      BY <2>3, <3>1 DEF Send
    <3>2. CASE \E sent \in SUBSET Chunk : SendFails(c, sent)
      <4>1. PICK sent \in SUBSET Chunk : SendFails(c, sent)
        BY <3>2
      <4> DEFINE file == [k \in Chunk |-> IF k \in sent THEN UploadDir(c).file[k] ELSE None]
      <4>2. file \in [Chunk -> Tag \cup {None}]
        <5>1. UploadDir(c).file \in [Chunk -> Tag \cup {None}]
          BY <2>3, TreeFacts
        <5> QED BY <5>1
      <4>3. cache' = [cache EXCEPT ![nonce[c]] = [UploadDir(c) EXCEPT !.file = file]]
        BY <4>1 DEF SendFails
      <4> HIDE DEF file
      <4>4. [UploadDir(c) EXCEPT !.file = file] \in Tree
        BY <2>3, <4>2 DEF Tree
      <4> QED BY <4>3, <4>4
    <3> QED BY <3>1, <3>2
  <2>5. UNCHANGED <<tree, last, lock, nonces, proc, committed,
                    nonce, prev, keyring, clean, job>>
    BY DEF Send, SendFails
  <2>6. StoreInv'
    BY <2>1, <2>2, <2>4, <2>5, CacheOK, StoreSame
  <2>7. upload' \in [Client -> Tree \cup {None}]
    BY <2>1, <2>3 DEF Clients, Send, SendFails
  <2>8. faults' \in 0 .. MaxFault /\ stage' \in [Client -> Stage] /\ Sessions'
    <3>1. CASE Send(c)
      BY <2>1, <2>2, <2>5, <3>1, <1>SessionStep DEF Send, Stage, Clients
    <3>2. CASE \E sent \in SUBSET Chunk : SendFails(c, sent)
      BY <2>1, <2>5, <3>2, <1>FaultFacts DEF SendFails, Clients, Sessions
    <3> QED BY <3>1, <3>2
  <2> QED BY <2>1, <2>5, <2>6, <2>7, <2>8, Parts DEF IInv, ClientTypeOK, Clients, StoreInv
\* A step of a client that leaves the server alone.
<1>LocalStep.
  ASSUME StoreInv, UNCHANGED storevars, Clients', Sessions'
  PROVE  IInv'
  <2> USE <1>LocalStep
  <2>1. RestOK
    BY RestSame DEF storevars
  <2>2. StoreInv'
    BY <2>1, StoreSame DEF storevars
  <2> QED BY <2>2 DEF IInv, ClientTypeOK, Clients, StoreInv
\* The client moves on with the parcel it has.
<1>StageStep.
  ASSUME IInv, NEW c \in Client, NEW s \in Stage, ToStage(c, s),
         s # "away" => stage[c] # "away",
         s \notin {"away", "locked", "rolling", "rolled"} =>
           stage[c] \notin {"away", "locked", "rolling", "rolled"},
         UNCHANGED <<storevars, nonce, keyring>>,
         prev' = prev \/ prev' = [prev EXCEPT ![c] = keyring[c]],
         clean' \in [Client -> BOOLEAN], upload' \in [Client -> Tree \cup {None}],
         job' \in [Client -> Proc \cup {None}], faults' \in 0 .. MaxFault
  PROVE  IInv'
  <2> USE <1>StageStep
  <2>1. Clients /\ Sessions /\ StoreInv
    BY Parts
  <2>2. /\ prev' \in [Client -> Keyring \cup {None}]
        /\ \A d \in Client : d # c => prev'[d] = prev[d]
        /\ prev'[c] \in {prev[c], keyring[c]}
    BY <2>1 DEF Clients
  <2>3. /\ s # "away" => nonce'[c] \in Nonce
        /\ s \notin {"away", "locked", "rolling", "rolled"} =>
             prev'[c] \in Keyring /\ keyring'[c] \in Keyring
    BY <2>1, <2>2 DEF Sessions
  <2>4. stage' \in [Client -> Stage] /\ Sessions'
    BY <2>1, <2>2, <2>3, <1>SessionStep
  <2>5. Clients'
    BY <2>1, <2>2, <2>4 DEF Clients
  <2> QED BY <2>1, <2>4, <2>5, <1>LocalStep
\* The answers of the programs on the server, and the answers that get lost.
<1>ReturnStep.
  ASSUME IInv, NEW c \in Client,
         \/ RollbackReturns(c) \/ RollbackReplyLost(c)
         \/ CommitReturns(c) \/ CommitReplyLost(c)
  PROVE  IInv'
  <2> USE <1>ReturnStep
  <2>1. Clients
    BY Parts
  <2>2. CASE RollbackReturns(c)
    <3>1. faults' \in 0 .. MaxFault
      BY <2>1, <2>2 DEF RollbackReturns, Clients
    <3>2. CASE Clean(c)
      BY <3>1, <3>2, <1>CleanStep
    <3>3. CASE ~Clean(c)
      BY <2>1, <2>2, <3>1, <3>3, <1>StageStep DEF RollbackReturns, Clients, Stage
    <3> QED BY <3>2, <3>3
  <2>3. CASE RollbackReplyLost(c)
    BY <2>1, <2>3, <1>FaultFacts, <1>CleanStep DEF RollbackReplyLost
  <2>4. CASE CommitReturns(c)
    BY <2>1, <2>4, <1>StageStep DEF CommitReturns, Clients, Stage
  <2>5. CASE CommitReplyLost(c)
    BY <2>1, <2>5, <1>FaultFacts, <1>StageStep DEF CommitReplyLost, Clients, Stage
  <2> QED BY <2>2, <2>3, <2>4, <2>5
\* The two checks, and the commit of the client.
<1>CheckStep.
  ASSUME IInv, NEW c \in Client, CheckParcel(c) \/ CheckUpload(c) \/ ClientCommit(c)
  PROVE  IInv'
  <2> USE <1>CheckStep
  <2>1. Clients
    BY Parts
  <2>2. CASE CheckParcel(c)
    BY <2>1, <2>2, <1>StageStep DEF CheckParcel, Clients, Stage
  <2>3. CASE CheckUpload(c)
    BY <2>1, <2>3, <1>StageStep DEF CheckUpload, Clients, Stage
  <2>4. CASE ClientCommit(c)
    <3>1. /\ clean' \in [Client -> BOOLEAN] /\ upload' \in [Client -> Tree \cup {None}]
          /\ prev' = prev \/ prev' = [prev EXCEPT ![c] = keyring[c]]
      BY <2>1, <2>4 DEF ClientCommit, Clients
    <3> QED BY <2>1, <2>4, <3>1, <1>StageStep DEF ClientCommit, Clients, Stage
  <2> QED BY <2>2, <2>3, <2>4
\* The client fetches the newest version, or the virtual machine writes.
<1>ParcelStep.
  ASSUME IInv, NEW c \in Client, Fetch(c) \/ \E r \in Keyring : Run(c, r)
  PROVE  IInv'
  <2> USE <1>ParcelStep
  <2>1. Clients /\ Sessions /\ StoreInv
    BY Parts
  <2>2. CASE Fetch(c)
    <3>1. faults' \in 0 .. MaxFault
      BY <2>1, <2>2 DEF Fetch, Clients
    <3>2. CASE Clean(c)
      BY <3>1, <3>2, <1>CleanStep
    <3>3. CASE ~Clean(c)
      <4>1. PICK r : r = tree[last].keyring
        OBVIOUS
      <4>2. /\ last # None /\ tree[last] # None /\ r # None
            /\ prev' = [prev EXCEPT ![c] = r] /\ keyring' = [keyring EXCEPT ![c] = r]
            /\ clean' = [clean EXCEPT ![c] = TRUE]
            /\ ToStage(c, "out") /\ UNCHANGED <<storevars, nonce, upload, job>>
            /\ stage[c] \in {"locked", "rolled"}
        BY <2>2, <3>3, <4>1 DEF Fetch
      <4>3. r \in Keyring
        <5>1. last \in Version /\ tree[last] \in Tree
          BY <2>1, <4>2 DEF StoreInv, TypeOK
        <5> QED BY <4>1, <4>2, <5>1, TreeFacts
      <4>4. /\ prev' \in [Client -> Keyring \cup {None}] /\ prev'[c] = r
            /\ keyring' \in [Client -> Keyring \cup {None}] /\ keyring'[c] = r
            /\ clean' \in [Client -> BOOLEAN] /\ nonce'[c] \in Nonce
            /\ \A d \in Client : d # c => /\ nonce'[d] = nonce[d] /\ prev'[d] = prev[d]
                                          /\ keyring'[d] = keyring[d]
        BY <2>1, <4>2, <4>3 DEF Clients, Sessions
      <4>5. stage' \in [Client -> Stage] /\ Sessions'
        BY <2>1, <4>2, <4>3, <4>4, <1>SessionStep DEF Stage
      <4>6. Clients'
        BY <2>1, <3>1, <4>2, <4>4, <4>5 DEF Clients
      <4> QED BY <2>1, <4>2, <4>5, <4>6, <1>LocalStep
    <3> QED BY <3>2, <3>3
  <2>3. CASE \E r \in Keyring : Run(c, r)
    <3>1. PICK r \in Keyring : Run(c, r)
      BY <2>3
    <3>2. Clients'
      BY <2>1, <3>1 DEF Clients, Run
    <3>3. Sessions'
      BY <2>1, <3>1 DEF Clients, Run, Sessions
    <3> QED BY <2>1, <3>1, <3>2, <3>3, <1>LocalStep DEF Run
  <2> QED BY <2>2, <2>3
\* The parcel is erased on the client.
<1>ReleaseStep.
  ASSUME IInv, NEW c \in Client, Release(c) \/ ReleaseLost(c) \/ ForceClean(c)
  PROVE  IInv'
  <2> USE <1>ReleaseStep
  <2>1. Clients /\ Sessions /\ StoreInv
    BY Parts
  <2>2. CASE Release(c)
    BY <2>1, <2>2, <1>CleanStep DEF Release, Clients
  <2>3. CASE ReleaseLost(c)
    BY <2>1, <2>3, <1>FaultFacts, <1>ErasedStep, <1>LocalStep DEF ReleaseLost
  <2>4. CASE ForceClean(c)
    <3>1. Clients' /\ Sessions'
      BY <2>1, <2>4, <1>FaultFacts, <1>ErasedStep DEF ForceClean
    <3>2. RestOK
      BY <2>1, <2>4 DEF ForceClean, StoreInv, TypeOK, RestOK
    <3>3. StoreInv'
      BY <2>1, <2>4, <3>2, StoreSame DEF ForceClean
    <3> QED BY <3>1, <3>3 DEF IInv, ClientTypeOK, Clients, StoreInv
  <2> QED BY <2>2, <2>3, <2>4
<1> SUFFICES ASSUME IInv, [Next]_vars PROVE IInv'
  OBVIOUS
<1>1. Clients /\ Sessions /\ StoreInv
  BY Parts
<1>2. ASSUME NEW p \in Proc, Server(p) \/ ServerKilled(p) PROVE IInv'
  <2>1. StoreInv'
    BY <1>1, <1>2, ScriptStepInv DEF Server, ServerKilled
  <2>2. faults' \in 0 .. MaxFault
    BY <1>1, <1>2, <1>FaultFacts DEF Server, ServerKilled, Clients
  <2>3. Clients' /\ Sessions'
    BY <1>1, <1>2, <2>2 DEF Server, ServerKilled, clientvars, Clients, Sessions
  <2> QED BY <2>1, <2>3 DEF IInv, ClientTypeOK, Clients, StoreInv
<1>3. ASSUME NEW c \in Client, ClientStep(c) PROVE IInv'
  BY <1>3, <1>CheckoutStep, <1>StartedStep, <1>SendStep, <1>ReturnStep, <1>CheckStep, <1>ParcelStep,
     <1>ReleaseStep DEF ClientStep
<1>4. CASE UNCHANGED vars
  BY <1>1, <1>4, <1>LocalStep DEF vars, storevars, clientvars, Clients, Sessions
<1> QED BY <1>2, <1>3, <1>4 DEF Next

\* The inductive invariant of the parcel and its clients holds in every state:
\* the types, who owns the version that a commit of srv_commit.pm is making, and
\* where the chunks of every version are while files are renamed.
THEOREM ParcelInvariant == Spec => []IInv
<1>1. Init => IInv
  BY InitInv
<1>2. IInv /\ [Next]_vars => IInv'
  BY StepInv
<1> QED BY <1>1, <1>2, PTL DEF Spec

\* No version is lost or changed (VersionsKept), for any number of chunks,
\* processes, clients and faults: not by commits and rollbacks that run at the
\* same time, nor by one that is killed between two renames.
THEOREM VersionsAreKept == Spec => []VersionsKept
<1>1. IInv => VersionsKept
  BY DEF IInv, StoreInv
<1> QED BY <1>1, ParcelInvariant, PTL

\* A version number is used once (CommittedOnce): no commit or rollback writes to
\* a version that has been made, not even with a stale idea of the newest one.
THEOREM VersionsAreFixed == Spec => CommittedOnce
<1>1. ASSUME IInv, [Next]_vars
      PROVE  [\A v \in Version : committed[v] # None => committed'[v] = committed[v]]_storevars
  <2>1. StoreInv
    BY <1>1 DEF IInv
  <2>2. ASSUME NEW p \in Proc, Server(p) \/ ServerKilled(p), NEW v \in Version,
               committed[v] # None
        PROVE  committed'[v] = committed[v]
    BY <2>1, <2>2, OnceStep DEF Server, ServerKilled
  <2>3. ASSUME NEW c \in Client, ClientStep(c) PROVE committed' = committed
    BY <2>3 DEF ClientStep, Checkout, NonceLost, Acquire, Fetch, Clean, StartRollback,
       RollbackReturns, RollbackReplyLost, Run, Send, SendFails, CheckParcel,
       CheckUpload, StartCommit, CommitReturns, CommitReplyLost, ClientCommit,
       Release, ReleaseLost, ForceClean, storevars
  <2>4. CASE UNCHANGED vars
    BY <2>4 DEF vars, storevars
  <2> QED BY <1>1, <2>2, <2>3, <2>4 DEF Next
<1> QED BY <1>1, ParcelInvariant, PTL DEF Spec, CommittedOnce

-----------------------------------------------------------------------------
(* The steps of a commit that is not disturbed                             *)

\* A step of srv_commit.pm that is not disturbed leads on.
LEMMA CommitAdvances ==
  \A p \in Proc :
    StoreInv /\ At(p) /\ proc[p].nonce = lock /\ Commit(p) => Advances(p)
\* The directories of the upload are taken one after another, and none with a file
\* is left out.
<1>EnterDirAdvances.
  ASSUME StoreInv, NEW p \in Proc, At(p), EnterDir(p)
  PROVE  Advances(p)
  <2> USE <1>EnterDirAdvances
  <2> USE DEF RollbackPc, CommitPc, FillPc, BuildPc
  <2>1. proc[p].pc = "dir"
    BY DEF EnterDir
  <2>2. Making(p) /\ Filing(p) /\ Shifting(p)
    BY <2>1 DEF At
  <2>3. PICK L \in Version, N \in Version : L = Lastver(p) /\ N = Nextver(p)
    BY <2>2 DEF Making
  <2>4. /\ tree[L] \in Tree /\ tree[L] # None /\ tree[N] # None /\ L # N
        /\ tree[L].dirs # None /\ tree[L].dirs \in SUBSET Dir
    <3>1. Owner(p)
      BY <2>1 DEF Owner
    <3>2. L < N /\ tree[L] \in Tree /\ tree[N] \in Tree
      BY <2>3, <3>1, OwnerFacts
    <3>3. tree[L].dirs # None
      BY <2>1, <2>2, <2>3 DEF Filing
    <3> QED BY <3>2, <3>3, TreeFacts, VersionFacts, NoneApart
  <2>5. PICK d \in 0 .. NumDirs : d = proc[p].dir
    BY DEF StoreInv, TypeOK, Process
  <2>6. /\ \A k \in Chunk : DirOf(k) \in Nat /\ DirOf(k) < NumDirs
        /\ NumDirs \in Nat /\ d \in Nat /\ d =< NumDirs
        /\ \A e \in Dir : e \in Nat
    BY DirFacts, SMTT(20) DEF Dir
  <2>7. /\ Upload(p) # None /\ Upload(p).dirs # None
        /\ \A k \in Chunk : Upload(p).file[k] # None =>
             DirOf(k) >= d /\ DirOf(k) \in Upload(p).dirs
    BY <2>1, <2>2, <2>5 DEF Shifting, Waits, Ahead
  <2>8. \A k \in Chunk : Upload(p).file[k] # None /\ DirOf(k) = d => k \in Listed(p, d)
    BY <2>7 DEF Listed, HasDir, HasHdk, FilesIn
  <2>9. /\ tree[N].cfg /\ \A e \in tree[L].dirs : e < d
    BY <2>1, <2>2, <2>3, <2>5 DEF Filing
  <2>10. CASE DirsDone(d)
    <3>1. Goto(p, "unlink") /\ UNCHANGED <<tree, last, cache, committed>>
      BY <2>5, <2>10 DEF EnterDir
    <3>2. /\ proc'[p].pc = "unlink" /\ proc'[p].nonce = proc[p].nonce
          /\ proc'[p].target = proc[p].target /\ proc'[p].lastver = proc[p].lastver
          /\ proc'[p].dir = proc[p].dir
      BY <3>1, GoesOn DEF StoreInv
    <3>3. \A k \in Chunk : Upload(p).file[k] = None
      BY <2>6, <2>7, <2>10, SMTT(20) DEF DirsDone
    <3>4. /\ Lastver(p)' = L /\ Nextver(p)' = N /\ Upload(p)' = Upload(p)
          /\ Coming(p)' = Coming(p)
      BY <2>1, <2>3, <3>1, <3>2 DEF Lastver, Nextver, Upload, Coming
    <3>5. Making(p)'
      <4>1. proc[p].pc # "link" /\ proc'[p].pc # "link"
        BY <2>1, <3>2
      <4>2. /\ tree'[L] # None /\ tree'[N] # None
            /\ tree'[L].cfg = tree[L].cfg /\ tree'[L].keyring = tree[L].keyring
            /\ \A v \in Version : v # L /\ v # N => tree'[v] = tree[v]
        BY <2>4, <3>1
      <4> QED BY <2>2, <2>3, <3>1, <3>2, <4>1, <4>2, MakingSame
    <3>6. Filing(p)'
      BY <2>4, <2>5, <2>9, <3>1, <3>2, <3>3, <3>4 DEF Filing
    <3>7. Shifting(p)'
      <4>1. proc[p].pc # "new" /\ proc'[p].pc # "new"
        BY <2>1, <3>2
      <4>2. \A k \in Chunk : Upload(p).file[k] # None /\ Ahead(p, k) => Ahead(p, k)'
        BY <3>3
      <4>3. /\ Upload(p)' # None /\ Upload(p)'.dirs = Upload(p).dirs
            /\ Upload(p)'.file = Upload(p).file
        BY <2>7, <3>4
      <4>4. /\ tree'[L].file = tree[L].file /\ tree'[L].keyring = tree[L].keyring
            /\ tree'[N].file = tree[N].file /\ tree'[N].dirs = tree[N].dirs
        BY <3>1
      <4> QED BY <2>2, <2>3, <3>2, <3>4, <4>1, <4>2, <4>3, <4>4, ShiftingSame
    <3>8. At(p)'
      BY <3>2, <3>5, <3>6, <3>7 DEF At
    <3> QED BY <2>1, <3>2, <3>4, <3>8 DEF Advances, Running
  <2>11. CASE ~DirsDone(d) /\ Listed(p, d) = {}
    <3>1. /\ Become(p, [proc[p] EXCEPT !.dir = d + 1])
          /\ UNCHANGED <<tree, last, cache, committed>>
      BY <2>5, <2>11 DEF EnterDir, PassOver
    <3>2. /\ proc'[p].pc = "dir" /\ proc'[p].nonce = proc[p].nonce
          /\ proc'[p].target = proc[p].target /\ proc'[p].lastver = proc[p].lastver
          /\ proc'[p].dir = d + 1
      <4>1. proc'[p] = [proc[p] EXCEPT !.dir = d + 1] /\ proc[p] \in Process
        BY <3>1, Becomes DEF StoreInv
      <4> QED BY <2>1, <4>1 DEF Process
    <3>3. /\ \A k \in Chunk : Upload(p).file[k] # None => DirOf(k) >= d + 1
          /\ \A e \in tree[L].dirs : e < d + 1
      <4>1. \A k \in Chunk : Upload(p).file[k] # None => DirOf(k) >= d /\ DirOf(k) # d
        BY <2>7, <2>8, <2>11
      <4>2. \A e \in tree[L].dirs : e < d /\ e \in Nat
        BY <2>4, <2>6, <2>9
      <4> QED BY <2>6, <4>1, <4>2, SMTT(20)
    <3>4. /\ Lastver(p)' = L /\ Nextver(p)' = N /\ Upload(p)' = Upload(p)
          /\ Coming(p)' = Coming(p)
      BY <2>1, <2>3, <3>1, <3>2 DEF Lastver, Nextver, Upload, Coming
    <3>5. Making(p)'
      <4>1. proc[p].pc # "link" /\ proc'[p].pc # "link"
        BY <2>1, <3>2
      <4>2. /\ tree'[L] # None /\ tree'[N] # None
            /\ tree'[L].cfg = tree[L].cfg /\ tree'[L].keyring = tree[L].keyring
            /\ \A v \in Version : v # L /\ v # N => tree'[v] = tree[v]
        BY <2>4, <3>1
      <4> QED BY <2>2, <2>3, <3>1, <3>2, <4>1, <4>2, MakingSame
    <3>6. Filing(p)'
      BY <2>4, <2>9, <3>1, <3>2, <3>3, <3>4 DEF Filing
    <3>7. Shifting(p)'
      <4>1. proc[p].pc # "new" /\ proc'[p].pc # "new"
        BY <2>1, <3>2
      <4>2. \A k \in Chunk : Upload(p).file[k] # None /\ Ahead(p, k) => Ahead(p, k)'
        BY <3>2, <3>3 DEF Ahead
      <4>3. /\ Upload(p)' # None /\ Upload(p)'.dirs = Upload(p).dirs
            /\ Upload(p)'.file = Upload(p).file
        BY <2>7, <3>4
      <4>4. /\ tree'[L].file = tree[L].file /\ tree'[L].keyring = tree[L].keyring
            /\ tree'[N].file = tree[N].file /\ tree'[N].dirs = tree[N].dirs
        BY <3>1
      <4> QED BY <2>2, <2>3, <3>2, <3>4, <4>1, <4>2, <4>3, <4>4, ShiftingSame
    <3>8. At(p)'
      BY <3>2, <3>5, <3>6, <3>7 DEF At
    <3> QED BY <2>1, <3>2, <3>4, <3>8 DEF Advances, Running
  <2>12. CASE ~DirsDone(d) /\ Listed(p, d) # {}
    <3> DEFINE files == Listed(p, d)
               t == [tree[L] EXCEPT !.dirs = @ \cup {d}]
    <3>1. /\ tree' = [tree EXCEPT ![L] = t]
          /\ Become(p, [proc[p] EXCEPT !.pc = "old", !.todo = files])
          /\ UNCHANGED <<last, cache, committed>>
      <4>1. d \notin tree[L].dirs
        BY <2>4, <2>6, <2>9, SMTT(20)
      <4>2. HasHdk(tree[L]) /\ ~HasDir(tree[L], d)
        BY <2>4, <4>1 DEF HasHdk, HasDir
      <4> QED BY <2>3, <2>5, <2>12, <4>2 DEF EnterDir
    <3>2. /\ proc'[p].pc = "old" /\ proc'[p].nonce = proc[p].nonce
          /\ proc'[p].target = proc[p].target /\ proc'[p].lastver = proc[p].lastver
          /\ proc'[p].dir = proc[p].dir /\ proc'[p].todo = Listed(p, d)
      <4> HIDE DEF files
      <4>1. proc'[p] = [proc[p] EXCEPT !.pc = "old", !.todo = files] /\ proc[p] \in Process
        BY <3>1, Becomes DEF StoreInv
      <4>2. /\ proc'[p].pc = "old" /\ proc'[p].nonce = proc[p].nonce
            /\ proc'[p].target = proc[p].target /\ proc'[p].lastver = proc[p].lastver
            /\ proc'[p].dir = proc[p].dir /\ proc'[p].todo = files
        BY <4>1 DEF Process
      <4> QED BY <4>2 DEF files
    <3>3. d \in Dir
      BY <2>6, <2>12, SMTT(20) DEF DirsDone, Dir
    <3>4. /\ t \in Tree /\ t.dirs = tree[L].dirs \cup {d} /\ t.file = tree[L].file
          /\ t.keyring = tree[L].keyring /\ t.cfg = tree[L].cfg
      BY <2>4, <3>3 DEF Tree
    <3> HIDE DEF t, files
    <3>5. /\ tree'[L] = t /\ t # None
          /\ \A v \in Version : v # L => tree'[v] = tree[v]
      BY <3>1, <3>4, FileFacts DEF StoreInv
    <3>6. /\ Lastver(p)' = L /\ Nextver(p)' = N /\ Upload(p)' = Upload(p)
          /\ tree'[N] = tree[N]
      BY <2>3, <2>4, <3>1, <3>2, <3>5 DEF Lastver, Nextver, Upload
    <3>7. Coming(p)' = Coming(p)
      BY <2>1, <2>3, <3>2, <3>6 DEF Coming
    <3>8. Making(p)'
      <4>1. proc[p].pc # "link" /\ proc'[p].pc # "link"
        BY <2>1, <3>2
      <4>2. /\ tree'[L] # None /\ tree'[N] # None
            /\ tree'[L].cfg = tree[L].cfg /\ tree'[L].keyring = tree[L].keyring
            /\ \A v \in Version : v # L /\ v # N => tree'[v] = tree[v]
        BY <2>4, <3>4, <3>5, <3>6
      <4> QED BY <2>2, <2>3, <3>1, <3>2, <4>1, <4>2, MakingSame
    <3>9. Filing(p)'
      <4>1. /\ tree'[L].dirs = tree[L].dirs \cup {d}
            /\ tree'[L].dirs # None
        BY <2>4, <3>3, <3>4, <3>5, NoneApart
      <4>2. \A e \in tree'[L].dirs : e < d \/ e = d
        BY <2>9, <4>1
      <4>3. \A k \in Listed(p, d) : Upload(p).file[k] # None
        BY DEF Listed, FilesIn
      <4> QED BY <2>5, <2>9, <3>2, <3>6, <4>1, <4>2, <4>3 DEF Filing
    <3>10. Shifting(p)'
      <4>1. proc[p].pc # "new" /\ proc'[p].pc # "new"
        BY <2>1, <3>2
      <4>2. \A k \in Chunk : Upload(p).file[k] # None /\ Ahead(p, k) => Ahead(p, k)'
        <5>1. \A k \in Chunk : Upload(p).file[k] # None => DirOf(k) > d \/ DirOf(k) = d
          BY <2>6, <2>7, SMTT(20)
        <5> QED BY <2>5, <2>8, <3>2, <5>1 DEF Ahead
      <4>3. /\ Upload(p)' # None /\ Upload(p)'.dirs = Upload(p).dirs
            /\ Upload(p)'.file = Upload(p).file
        BY <2>7, <3>6
      <4>4. /\ tree'[L].file = tree[L].file /\ tree'[L].keyring = tree[L].keyring
            /\ tree'[N].file = tree[N].file /\ tree'[N].dirs = tree[N].dirs
        BY <3>4, <3>5, <3>6
      <4> QED BY <2>2, <2>3, <3>2, <3>6, <3>7, <4>1, <4>2, <4>3, <4>4, ShiftingSame
    <3>11. At(p)'
      BY <3>2, <3>8, <3>9, <3>10 DEF At
    <3> QED BY <2>1, <3>2, <3>7, <3>11 DEF Advances, Running
  <2> QED BY <2>10, <2>11, <2>12
\* The chunk that is about to be overwritten goes back to the last version: it is
\* the one that the keyring of that version says.
<1>MoveOldAdvances.
  ASSUME StoreInv, NEW p \in Proc, At(p), MoveOld(p)
  PROVE  Advances(p)
  <2> USE <1>MoveOldAdvances
  <2> USE DEF RollbackPc, CommitPc, FillPc, BuildPc
  <2>1. proc[p].pc = "old"
    BY DEF MoveOld
  <2>2. Making(p) /\ Filing(p) /\ Shifting(p)
    BY <2>1 DEF At
  <2>3. PICK L \in Version, N \in Version : L = Lastver(p) /\ N = Nextver(p)
    BY <2>2 DEF Making
  <2>4. /\ tree[L] \in Tree /\ tree[N] \in Tree /\ tree[L] # None /\ tree[N] # None /\ L # N
        /\ tree[L].keyring \in Keyring /\ tree[L].dirs # None
        /\ tree[L].file \in [Chunk -> Tag \cup {None}]
        /\ tree[N].file \in [Chunk -> Tag \cup {None}]
    <3>1. Owner(p)
      BY <2>1 DEF Owner
    <3>2. L < N /\ tree[L] \in Tree /\ tree[N] \in Tree
      BY <2>3, <3>1, OwnerFacts
    <3>3. tree[L].dirs # None /\ tree[L].keyring \in Keyring
      BY <2>1, <2>2, <2>3, VersionFacts DEF Filing, Making, Chain, Stored
    <3> QED BY <3>2, <3>3, TreeFacts, VersionFacts, NoneApart
  <2>5. PICK c \in Chunk : /\ c = Min(proc[p].todo) /\ c \in proc[p].todo
                           /\ DirOf(c) = proc[p].dir
    BY <2>1, TodoFacts
  <2>6. /\ Upload(p).file[c] # None /\ Waits(p, c) /\ DirOf(c) \in tree[L].dirs
        /\ tree[L].file[c] = None /\ tree[N].file[c] = tree[L].keyring[c]
        /\ tree[N].file[c] # None
    <3>1. Upload(p).file[c] # None /\ Waits(p, c) /\ DirOf(c) \in tree[L].dirs
      BY <2>1, <2>2, <2>3, <2>5 DEF Filing, Shifting
    <3>2. ~Replacing(p, c)
      BY <2>1 DEF Replacing
    <3> QED BY <2>3, <2>4, <3>1, <3>2, NoneIsNoTag DEF Waits
  <2> DEFINE tl == [tree[L] EXCEPT !.file[c] = tree[N].file[c]]
             tn == [tree[N] EXCEPT !.file[c] = None]
  <2>7. /\ tree' = [tree EXCEPT ![L] = tl, ![N] = tn] /\ Goto(p, "new")
        /\ UNCHANGED <<last, cache, committed>>
    <3>1. HasDir(tree[L], DirOf(c))
      BY <2>4, <2>6 DEF HasDir, HasHdk
    <3>2. /\ tree' = [tree EXCEPT ![L].file[c] = tree[N].file[c], ![N].file[c] = None]
          /\ Goto(p, "new") /\ UNCHANGED <<last, cache, committed>>
      BY <2>3, <2>5, <2>6, <3>1 DEF MoveOld
    <3> QED BY <2>4, <3>2 DEF StoreInv, TypeOK
  <2>8. /\ tl \in Tree /\ tn \in Tree
        /\ tl.file = [tree[L].file EXCEPT ![c] = tree[N].file[c]]
        /\ tn.file = [tree[N].file EXCEPT ![c] = None]
        /\ tl.keyring = tree[L].keyring /\ tl.cfg = tree[L].cfg /\ tl.dirs = tree[L].dirs
        /\ tn.keyring = tree[N].keyring /\ tn.cfg = tree[N].cfg /\ tn.dirs = tree[N].dirs
    BY <2>4 DEF Tree
  <2> HIDE DEF tl, tn
  <2>9. /\ tree'[L] = tl /\ tree'[N] = tn /\ tl # None /\ tn # None
        /\ \A v \in Version : v # L /\ v # N => tree'[v] = tree[v]
    BY <2>4, <2>7, <2>8, NoneApart DEF StoreInv, TypeOK
  <2>10. /\ tree'[L].file[c] = tree[L].keyring[c] /\ tree'[N].file[c] = None
         /\ \A k \in Chunk : k # c => /\ tree'[L].file[k] = tree[L].file[k]
                                      /\ tree'[N].file[k] = tree[N].file[k]
    BY <2>4, <2>6, <2>8, <2>9
  <2>11. /\ proc'[p].pc = "new" /\ proc'[p].nonce = proc[p].nonce
         /\ proc'[p].target = proc[p].target /\ proc'[p].lastver = proc[p].lastver
         /\ proc'[p].dir = proc[p].dir /\ proc'[p].todo = proc[p].todo
    BY <2>7, GoesOn DEF StoreInv
  <2>12. /\ Lastver(p)' = L /\ Nextver(p)' = N /\ Upload(p)' = Upload(p)
         /\ tree'[L].keyring = tree[L].keyring /\ tree'[L].dirs = tree[L].dirs
         /\ tree'[L].cfg = tree[L].cfg
         /\ tree'[N].keyring = tree[N].keyring /\ tree'[N].dirs = tree[N].dirs
         /\ tree'[N].cfg = tree[N].cfg
    BY <2>3, <2>7, <2>8, <2>9, <2>11 DEF Lastver, Nextver, Upload
  <2>13. Coming(p)' = Coming(p)
    BY <2>1, <2>3, <2>11, <2>12 DEF Coming
  <2>14. Making(p)'
    <3>1. proc[p].pc # "link" /\ proc'[p].pc # "link"
      BY <2>1, <2>11
    <3>2. tree'[L] # None /\ tree'[N] # None
      BY <2>9
    <3> QED BY <2>2, <2>3, <2>7, <2>9, <2>11, <2>12, <3>1, <3>2, MakingSame
  <2>15. Filing(p)'
    <3>1. /\ tree[N].cfg /\ tree[L].dirs # None /\ proc[p].dir \in tree[L].dirs
          /\ \A e \in tree[L].dirs : e < proc[p].dir \/ e = proc[p].dir
          /\ \A k \in proc[p].todo : Upload(p).file[k] # None
      BY <2>1, <2>2, <2>3 DEF Filing
    <3> QED BY <2>11, <2>12, <3>1 DEF Filing
  <2>16. Shifting(p)'
    <3>1. ASSUME NEW k \in Chunk, Upload(p).file[k] = None PROVE Done(p, k)'
      <4>1. k # c /\ Done(p, k)
        BY <2>2, <2>6, <3>1 DEF Shifting
      <4> QED BY <2>3, <2>10, <2>12, <2>13, <4>1 DEF Done
    <3>2. ASSUME NEW k \in Chunk, Upload(p).file[k] # None PROVE Waits(p, k)' /\ Ahead(p, k)'
      <4>1. Waits(p, k) /\ Ahead(p, k)
        BY <2>2, <3>2 DEF Shifting
      <4>2. Ahead(p, k)'
        BY <2>1, <2>11, <4>1 DEF Ahead
      <4>3. ~Replacing(p, k) /\ (Replacing(p, k)' <=> k = c)
        BY <2>1, <2>5, <2>11 DEF Replacing
      <4>4. /\ Upload(p).file[k] = Coming(p)[k] /\ Coming(p)[k] # tree[L].keyring[k]
            /\ DirOf(k) \in Upload(p).dirs
            /\ tree[L].file[k] = None /\ tree[N].file[k] = tree[L].keyring[k]
        BY <2>3, <4>1, <4>3 DEF Waits
      <4>5. /\ ~Replacing(p, k)' => /\ tree'[L].file[k] = None
                                    /\ tree'[N].file[k] = tree[L].keyring[k]
            /\ Replacing(p, k)' => /\ tree'[L].file[k] = tree[L].keyring[k]
                                   /\ tree'[N].file[k] = None
        BY <2>10, <4>3, <4>4
      <4>6. Waits(p, k)'
        BY <2>12, <2>13, <4>4, <4>5 DEF Waits
      <4> QED BY <4>2, <4>6
    <3> QED BY <2>2, <2>3, <2>12, <2>13, <3>1, <3>2 DEF Shifting
  <2>17. At(p)'
    BY <2>11, <2>14, <2>15, <2>16 DEF At
  <2> QED BY <2>1, <2>11, <2>13, <2>17 DEF Advances, Running
\* The new chunk takes its place.
<1>MoveNewAdvances.
  ASSUME StoreInv, NEW p \in Proc, At(p), MoveNew(p)
  PROVE  Advances(p)
  <2> USE <1>MoveNewAdvances
  <2> USE DEF RollbackPc, CommitPc, FillPc, BuildPc
  <2>1. proc[p].pc = "new"
    BY DEF MoveNew
  <2>2. Making(p) /\ Filing(p) /\ Shifting(p)
    BY <2>1 DEF At
  <2>3. PICK L \in Version, N \in Version : L = Lastver(p) /\ N = Nextver(p)
    BY <2>2 DEF Making
  <2>4. /\ tree[L] # None /\ tree[N] \in Tree /\ tree[N] # None /\ L # N
        /\ tree[L].dirs \in SUBSET Dir /\ tree[L].dirs # None
        /\ tree[N].file \in [Chunk -> Tag \cup {None}]
    <3>1. Owner(p)
      BY <2>1 DEF Owner
    <3>2. L < N /\ tree[L] \in Tree /\ tree[N] \in Tree
      BY <2>3, <3>1, OwnerFacts
    <3>3. tree[L].dirs # None
      BY <2>1, <2>2, <2>3 DEF Filing
    <3> QED BY <3>2, <3>3, TreeFacts, VersionFacts, NoneApart
  <2>5. /\ proc[p].nonce \in Nonce /\ Upload(p) = cache[proc[p].nonce]
        /\ cache \in [Nonce -> Tree \cup {None}]
        /\ Upload(p) \in Tree /\ Upload(p) # None
        /\ Upload(p).file \in [Chunk -> Tag \cup {None}]
    <3>1. Upload(p) # None /\ Running(p)
      BY <2>1, <2>2 DEF Shifting, Running
    <3> QED BY <3>1, UploadFacts, TreeFacts
  <2>6. PICK c \in Chunk : /\ c = Min(proc[p].todo) /\ c \in proc[p].todo
                           /\ DirOf(c) = proc[p].dir
    BY <2>1, TodoFacts
  <2>7. /\ Upload(p).file[c] # None /\ Waits(p, c) /\ Replacing(p, c)
        /\ Upload(p).file[c] = Coming(p)[c] /\ Coming(p)[c] # tree[L].keyring[c]
        /\ tree[L].file[c] = tree[L].keyring[c]
    <3>1. Upload(p).file[c] # None /\ Waits(p, c)
      BY <2>1, <2>2, <2>6 DEF Filing, Shifting
    <3>2. Replacing(p, c)
      BY <2>1, <2>6 DEF Replacing
    <3> QED BY <2>3, <3>1, <3>2 DEF Waits
  <2> DEFINE a == Upload(p).file[c]
             tn == [tree[N] EXCEPT !.file[c] = a]
             u == [Upload(p) EXCEPT !.file[c] = None]
             rest == proc[p].todo \ {c}
             s == IF rest = {} THEN [proc[p] EXCEPT !.pc = "dir", !.todo = {}, !.dir = @ + 1]
                               ELSE [proc[p] EXCEPT !.pc = "old", !.todo = rest]
  <2>8. /\ tree' = [tree EXCEPT ![N] = tn] /\ cache' = [cache EXCEPT ![proc[p].nonce] = u]
        /\ Become(p, s) /\ UNCHANGED <<last, committed>>
    <3>1. HasDir(tree[N], DirOf(c))
      <4>1. tree[N].dirs = Dir /\ DirOf(c) \in Dir /\ Dir # None
        BY <2>2, <2>3, DirFacts, NoneApart DEF Shifting
      <4> QED BY <2>4, <4>1 DEF HasDir, HasHdk
    <3> QED BY <2>3, <2>5, <2>6, <2>7, <3>1 DEF MoveNew
  <2>9. /\ proc'[p].nonce = proc[p].nonce
        /\ proc'[p].target = proc[p].target /\ proc'[p].lastver = proc[p].lastver
        /\ \/ rest = {} /\ proc'[p].pc = "dir" /\ proc'[p].dir = proc[p].dir + 1
           \/ proc'[p].pc = "old" /\ proc'[p].dir = proc[p].dir /\ proc'[p].todo = rest
    <3>1. proc'[p] = s /\ proc[p] \in Process
      BY <2>8, Becomes DEF StoreInv
    <3>2. CASE rest = {}
      <4>1. proc'[p] = [proc[p] EXCEPT !.pc = "dir", !.todo = {}, !.dir = @ + 1]
        BY <3>1, <3>2
      <4> QED BY <3>1, <3>2, <4>1 DEF Process
    <3>3. CASE rest # {}
      <4>1. proc'[p] = [proc[p] EXCEPT !.pc = "old", !.todo = rest]
        BY <3>1, <3>3
      <4> QED BY <3>1, <4>1 DEF Process
    <3> QED BY <3>2, <3>3
  <2> HIDE DEF s
  <2>10. /\ tn \in Tree /\ tn.file = [tree[N].file EXCEPT ![c] = a]
         /\ tn.keyring = tree[N].keyring /\ tn.cfg = tree[N].cfg /\ tn.dirs = tree[N].dirs
         /\ u \in Tree /\ u.file = [Upload(p).file EXCEPT ![c] = None]
         /\ u.dirs = Upload(p).dirs
    <3>1. a \in Tag \cup {None}
      BY <2>5
    <3> HIDE DEF a
    <3> QED BY <2>4, <2>5, <3>1 DEF Tree
  <2> HIDE DEF tn, u
  <2>11. /\ tree'[N] = tn /\ tn # None
         /\ \A v \in Version : v # N => tree'[v] = tree[v]
    BY <2>8, <2>10, FileFacts DEF StoreInv
  <2>12. Upload(p)' = u /\ u # None
    BY <2>5, <2>8, <2>9, <2>10, NoneApart DEF Upload
  <2>13. /\ tree'[N].file[c] = Upload(p).file[c] /\ Upload(p)'.file[c] = None
         /\ \A k \in Chunk : k # c => /\ tree'[N].file[k] = tree[N].file[k]
                                      /\ Upload(p)'.file[k] = Upload(p).file[k]
    BY <2>4, <2>5, <2>10, <2>11, <2>12
  <2>14. /\ Lastver(p)' = L /\ Nextver(p)' = N /\ tree'[L] = tree[L]
         /\ Upload(p)'.dirs = Upload(p).dirs /\ Upload(p)' # None
         /\ tree'[N].keyring = tree[N].keyring /\ tree'[N].dirs = tree[N].dirs
         /\ tree'[N].cfg = tree[N].cfg
    BY <2>3, <2>4, <2>9, <2>10, <2>11, <2>12 DEF Lastver, Nextver
  <2>15. Coming(p)' = Coming(p)
    BY <2>1, <2>3, <2>9, <2>14 DEF Coming
  <2>16. Making(p)'
    <3>1. proc[p].pc # "link" /\ proc'[p].pc # "link"
      BY <2>1, <2>9
    <3>2. /\ tree'[L] # None /\ tree'[N] # None
          /\ tree'[L].cfg = tree[L].cfg /\ tree'[L].keyring = tree[L].keyring
          /\ \A v \in Version : v # L /\ v # N => tree'[v] = tree[v]
      BY <2>4, <2>11, <2>14
    <3> QED BY <2>2, <2>3, <2>8, <2>9, <3>1, <3>2, MakingSame
  <2>17. /\ proc[p].dir \in Nat
         /\ \A k \in Chunk :
              DirOf(k) \in Nat /\ (DirOf(k) > proc[p].dir => DirOf(k) >= proc[p].dir + 1)
         /\ \A e \in tree[L].dirs : e < proc[p].dir \/ e = proc[p].dir => e < proc[p].dir + 1
    <3>1. proc[p].dir \in Nat
      BY <2>1, TodoFacts
    <3>2. \A e \in tree[L].dirs : e \in Nat
      BY <2>4, DirFacts, SMTT(20) DEF Dir
    <3>3. \A k \in Chunk : DirOf(k) \in Nat
      BY DirFacts, SMTT(20) DEF Dir
    <3> QED BY <3>1, <3>2, <3>3, SMTT(20)
  <2>18. Filing(p)'
    <3>1. /\ tree[N].cfg /\ tree[L].dirs # None /\ proc[p].dir \in tree[L].dirs
          /\ \A e \in tree[L].dirs : e < proc[p].dir \/ e = proc[p].dir
          /\ \A k \in proc[p].todo : Upload(p).file[k] # None
      BY <2>1, <2>2, <2>3 DEF Filing
    <3>2. proc[p].todo \in SUBSET Chunk
      BY <2>1, TodoFacts
    <3>3. CASE proc'[p].pc = "dir" /\ proc'[p].dir = proc[p].dir + 1
      <4>1. \A e \in tree[L].dirs : e < proc'[p].dir
        BY <2>17, <3>1, <3>3
      <4> QED BY <2>14, <3>1, <3>3, <4>1 DEF Filing
    <3>4. CASE proc'[p].pc = "old" /\ proc'[p].dir = proc[p].dir /\ proc'[p].todo = rest
      <4>1. \A k \in rest : Upload(p)'.file[k] # None
        BY <2>13, <3>1, <3>2
      <4> HIDE DEF rest
      <4> QED BY <2>14, <3>1, <3>4, <4>1 DEF Filing
    <3> QED BY <2>9, <3>3, <3>4
  <2>19. Shifting(p)'
    <3>1. ASSUME NEW k \in Chunk, Upload(p)'.file[k] = None PROVE Done(p, k)'
      <4>1. CASE k = c
        BY <2>7, <2>13, <2>14, <2>15, <4>1 DEF Done
      <4>2. CASE k # c
        <5>1. Done(p, k)
          BY <2>2, <2>13, <3>1, <4>2 DEF Shifting
        <5> QED BY <2>3, <2>13, <2>14, <2>15, <4>2, <5>1 DEF Done
      <4> QED BY <4>1, <4>2
    <3>2. ASSUME NEW k \in Chunk, Upload(p)'.file[k] # None PROVE Waits(p, k)' /\ Ahead(p, k)'
      <4>1. k # c
        BY <2>13, <3>2
      <4>2. Waits(p, k) /\ Ahead(p, k) /\ Upload(p)'.file[k] = Upload(p).file[k]
        BY <2>2, <2>13, <3>2, <4>1 DEF Shifting
      <4>3. ~Replacing(p, k) /\ ~Replacing(p, k)'
        BY <2>6, <2>9, <4>1 DEF Replacing
      <4>4. Waits(p, k)'
        BY <2>3, <2>13, <2>14, <2>15, <4>1, <4>2, <4>3 DEF Waits
      <4>5. DirOf(k) > proc[p].dir \/ k \in rest
        BY <2>1, <4>1, <4>2 DEF Ahead
      <4>6. Ahead(p, k)'
        BY <2>9, <2>17, <4>5 DEF Ahead
      <4> QED BY <4>4, <4>6
    <3> QED BY <2>2, <2>3, <2>14, <2>15, <3>1, <3>2 DEF Shifting
  <2>20. At(p)'
    BY <2>9, <2>16, <2>18, <2>19 DEF At
  <2> QED BY <2>1, <2>9, <2>15, <2>20 DEF Advances, Running
\* Steps that move no file leave the versions before last as they are.
<1>ChainKept.
  ASSUME UNCHANGED <<tree, committed>>, NEW n
  PROVE  (Chain(n)' <=> Chain(n)) /\ (Newest(n)' <=> Newest(n))
  BY <1>ChainKept DEF Chain, Stored, Delta, Newest
\* last is removed ...
<1>UnlinkLastAdvances.
  ASSUME StoreInv, NEW p \in Proc, At(p), UnlinkLast(p)
  PROVE  Advances(p)
  <2> USE <1>UnlinkLastAdvances
  <2> USE DEF RollbackPc, CommitPc, FillPc, BuildPc
  <2>1. proc[p].pc = "unlink"
    BY DEF UnlinkLast
  <2>2. Making(p) /\ Filing(p) /\ Shifting(p)
    BY <2>1 DEF At
  <2>3. last # None
    BY <2>1, <2>2, NoneApart, VersionFacts DEF Making
  <2>4. last' = None /\ Goto(p, "link") /\ UNCHANGED <<tree, cache, committed>>
    BY <2>3 DEF UnlinkLast
  <2>5. /\ proc'[p].pc = "link"
        /\ proc'[p].nonce = proc[p].nonce /\ proc'[p].target = proc[p].target
        /\ proc'[p].lastver = proc[p].lastver /\ proc'[p].dir = proc[p].dir
        /\ proc'[p].todo = proc[p].todo
    BY <2>4, GoesOn DEF StoreInv
  <2>6. /\ Coming(p)' = Coming(p) /\ Upload(p)' = Upload(p)
        /\ Lastver(p)' = Lastver(p) /\ Nextver(p)' = Nextver(p)
    BY <2>1, <2>4, <2>5 DEF Coming, Upload, Lastver, Nextver
  <2>7. Making(p)'
    <3>1. PICK L \in Version, N \in Version : L = Lastver(p) /\ N = Nextver(p)
      BY <2>2 DEF Making
    <3>2. Chain(L)' /\ Newest(N)' /\ tree'[N] # None
      BY <2>2, <2>4, <3>1, <1>ChainKept DEF Making
    <3> QED BY <2>4, <2>5, <2>6, <3>1, <3>2 DEF Making
  <2>8. Filing(p)'
    BY <2>1, <2>2, <2>4, <2>5, <2>6 DEF Filing
  <2>9. Shifting(p)'
    <3>1. ASSUME NEW k \in Chunk PROVE Upload(p)'.file[k] = None /\ Done(p, k)'
      <4>1. Upload(p).file[k] = None /\ Done(p, k)
        BY <2>1, <2>2 DEF Filing, Shifting
      <4> QED BY <2>4, <2>6, <4>1 DEF Done
    <3> QED BY <2>2, <2>4, <2>6, <3>1 DEF Shifting
  <2>10. At(p)'
    BY <2>5, <2>7, <2>8, <2>9 DEF At
  <2> QED BY <2>1, <2>5, <2>6, <2>10 DEF Advances, Running
\* The disk of a version that is the newest is in its own directory.
<1>NewestRestored.
  ASSUME TypeOK, NEW n \in Version, tree[n] # None, Newest(n),
         \A k \in Chunk : tree[n].file[k] # None
  PROVE  Restored(n) = tree[n].file
  <2> USE <1>NewestRestored
  <2>1. ASSUME NEW k \in Chunk PROVE Restored(n)[k] = tree[n].file[k]
    <3>1. /\ File(n, k) = tree[n].file[k] /\ File(n, k) # None
          /\ \A w \in Version : w > n => File(w, k) = None
      BY DEF File, Newest
    <3>2. Having(n, k) = {n}
      BY <3>1, Bounds, SMTT(20) DEF Having, Version
    <3>3. Min(Having(n, k)) = n
      BY <3>2, MinFacts, VersionFacts, SMTT(20)
    <3> QED BY <3>1, <3>2, <3>3 DEF Restored
  <2>2. tree[n].file \in [Chunk -> Tag \cup {None}]
    BY TreeFacts DEF TypeOK
  <2> QED BY <2>1, <2>2 DEF Restored
\* ... and made again, and refers to the version that has now all its chunks.
<1>LinkLastAdvances.
  ASSUME StoreInv, NEW p \in Proc, At(p), LinkLast(p)
  PROVE  Advances(p)
  <2> USE <1>LinkLastAdvances
  <2> USE DEF RollbackPc, CommitPc, FillPc, BuildPc
  <2>1. proc[p].pc = "link"
    BY DEF LinkLast
  <2>2. Making(p) /\ Filing(p) /\ Shifting(p)
    BY <2>1 DEF At
  <2>3. PICK L \in Version, N \in Version : L = Lastver(p) /\ N = Nextver(p) /\ N = L + 1
    BY <2>2 DEF Making, Nextver, Lastver
  <2>4. last = None /\ Chain(L) /\ Newest(N) /\ tree[N] # None
    BY <2>1, <2>2, <2>3 DEF Making
  <2>5. /\ last' = N
        /\ committed' = [committed EXCEPT ![N] = [by |-> proc[p].nonce, disk |-> Restored(N)]]
        /\ Goto(p, "rm") /\ UNCHANGED <<tree, cache>>
    BY <2>3, <2>4 DEF LinkLast
  <2>6. /\ proc'[p].pc = "rm" /\ proc'[p].nonce = proc[p].nonce
        /\ proc'[p].target = proc[p].target /\ proc'[p].lastver = proc[p].lastver
    BY <2>5, GoesOn DEF StoreInv
  <2>7. /\ tree[N] \in Tree /\ tree[N].cfg /\ tree[N].dirs = Dir /\ tree[L].dirs # None
        /\ Coming(p) = tree[N].keyring /\ tree[N].keyring \in Keyring
    BY <2>1, <2>2, <2>3, <2>4 DEF Filing, Shifting, Coming, StoreInv, TypeOK
  <2>8. \A k \in Chunk :
          /\ tree[L].file[k] = IF tree[L].keyring[k] # tree[N].keyring[k]
                               THEN tree[L].keyring[k] ELSE None
          /\ tree[N].file[k] = tree[N].keyring[k]
          /\ tree[N].keyring[k] # None
    <3> TAKE k \in Chunk
    <3>1. Done(p, k)
      BY <2>1, <2>2 DEF Filing, Shifting
    <3> QED BY <2>3, <2>7, <3>1, NoneIsNoTag DEF Done
  <2>9. Restored(N) = tree[N].keyring
    <3>1. Restored(N) = tree[N].file
      BY <2>4, <2>8, <1>NewestRestored DEF StoreInv
    <3>2. tree[N].file \in [Chunk -> Tag \cup {None}] /\ tree[N].keyring \in [Chunk -> Tag]
      BY <2>7, TreeFacts DEF Keyring
    <3> QED BY <2>8, <3>1, <3>2, SMTT(20)
  <2>10. committed'[N] # None /\ committed'[N].disk = tree[N].keyring
    <3>1. committed'[N] = [by |-> proc[p].nonce, disk |-> Restored(N)]
      BY <2>5 DEF StoreInv, TypeOK
    <3>2. proc[p].nonce \in Nonce
      BY <2>1, UploadFacts DEF Running
    <3>3. [by |-> proc[p].nonce, disk |-> Restored(N)] \in Record
      <4>1. Restored(N) \in [Chunk -> Tag \cup {None}]
        BY <2>7, <2>9 DEF Keyring
      <4> QED BY <3>2, <4>1 DEF Record
    <3> QED BY <2>9, <3>1, <3>3, NoneApart, SMTT(20)
  <2>11. \A v \in Version : v # N => committed'[v] = committed[v]
    BY <2>5 DEF StoreInv, TypeOK
  <2>12. \A v \in Version : (v =< N <=> v =< L \/ v = N) /\ (v < N <=> v < L \/ v = L)
                            /\ (v =< L => v # N)
    BY <2>3, VersionFacts, SMTT(20)
  <2>13. Chain(N)'
    <3>1. ASSUME NEW v \in Version, v =< N PROVE Stored(v)'
      <4>1. CASE v =< L
        BY <2>4, <2>5, <2>11, <2>12, <4>1 DEF Chain, Stored
      <4>2. CASE v = N
        BY <2>4, <2>5, <2>7, <2>10, <4>2 DEF Stored
      <4> QED BY <2>12, <3>1, <4>1, <4>2
    <3>2. ASSUME NEW v \in Version, v < N PROVE Delta(v, v + 1)'
      <4>1. CASE v < L
        BY <2>4, <2>5, <4>1 DEF Chain, Delta
      <4>2. CASE v = L
        BY <2>3, <2>5, <2>7, <2>8, <4>2 DEF Delta
      <4> QED BY <2>12, <3>2, <4>1, <4>2
    <3> QED BY <3>1, <3>2 DEF Chain
  <2>14. Settled(N)'
    BY <2>4, <2>5, <2>7, <2>8, <2>13 DEF Settled, Newest, Full
  <2>15. Nextver(p)' = N
    BY <2>3, <2>6 DEF Nextver
  <2>16. At(p)'
    BY <2>6, <2>14, <2>15 DEF At
  <2>17. Coming(p)' = Coming(p)
    BY <2>1, <2>3, <2>5, <2>6, <2>15 DEF Coming
  <2> QED BY <2>1, <2>6, <2>16, <2>17 DEF Advances, Running
\* The uploads are removed, and the commit has ended.
<1>RemoveUploadsAdvances.
  ASSUME StoreInv, NEW p \in Proc, At(p), RemoveUploads(p)
  PROVE  Advances(p)
  <2> USE <1>RemoveUploadsAdvances
  <2> USE DEF RollbackPc, CommitPc, FillPc, BuildPc
  <2>1. proc[p].pc = "rm" /\ Exit(p, "ok") /\ UNCHANGED <<tree, last, committed>>
    BY DEF RemoveUploads
  <2>2. proc'[p].pc = "ok"
    BY <2>1, Ended DEF StoreInv
  <2>3. Settled(Nextver(p)) /\ last = Nextver(p) /\ Settled(last)
    BY <2>1 DEF At, Settled
  <2>4. Settled(last)'
    BY <2>1, <2>3, SettledSame
  <2>5. tree'[last'].keyring = Coming(p)
    BY <2>1, <2>3 DEF Coming
  <2> QED BY <2>2, <2>4, <2>5 DEF Advances, Running
<1> SUFFICES ASSUME NEW p \in Proc, StoreInv, At(p), proc[p].nonce = lock, Commit(p)
             PROVE  Advances(p)
  OBVIOUS
<1> QED BY NonceAdvances, BuildAdvances, <1>EnterDirAdvances, <1>MoveOldAdvances,
           <1>MoveNewAdvances, <1>UnlinkLastAdvances, <1>LinkLastAdvances, <1>RemoveUploadsAdvances DEF Commit

\* A step of program p is a step of a program that runs, and of no other.
LEMMA OneProgram ==
  ASSUME StoreInv, NEW p \in Proc, ScriptStep(p)
  PROVE  /\ Running(p) /\ lock' = lock
         /\ \A q \in Proc : q # p => proc'[q] = proc[q]
<1>1. proc \in [Proc -> Process]
  BY DEF StoreInv, TypeOK
<1>2. \A s : Become(p, s) => \A q \in Proc : q # p => proc'[q] = proc[q]
  BY <1>1 DEF Become
<1>3. \A l : Goto(p, l) => \A q \in Proc : q # p => proc'[q] = proc[q]
  BY <1>1 DEF Goto
<1>4. \A l : Exit(p, l) => \A q \in Proc : q # p => proc'[q] = proc[q]
  BY <1>2 DEF Exit
<1>5. CASE CheckNonce(p) \/ Scan(p) \/ RollbackNonce(p) \/ RollbackTarget(p)
  BY <1>2, <1>3, <1>4, <1>5 DEF CheckNonce, Scan, RollbackNonce, RollbackTarget, Fails,
     Running, CommitPc, RollbackPc
<1>6. CASE MakeNext(p) \/ MoveHdk(p) \/ MakeHdk(p)
  BY <1>3, <1>4, <1>6 DEF MakeNext, MoveHdk, MakeHdk, Fails, Running, CommitPc
<1>7. CASE MoveCfg(p) \/ MoveKeyring(p) \/ EnterDir(p)
  BY <1>2, <1>3, <1>4, <1>7 DEF MoveCfg, MoveKeyring, EnterDir, Fails, Running, CommitPc
<1>8. CASE MoveOld(p) \/ MoveNew(p) \/ UnlinkLast(p)
  BY <1>2, <1>3, <1>4, <1>8 DEF MoveOld, MoveNew, UnlinkLast, Fails, Running, CommitPc
<1>9. CASE LinkLast(p) \/ RemoveUploads(p)
  BY <1>2, <1>3, <1>4, <1>9 DEF LinkLast, RemoveUploads, Fails, Running, CommitPc
<1>10. CASE MakeCache(p) \/ CopyVersion(p) \/ CopyFiles(p)
  BY <1>2, <1>3, <1>4, <1>10 DEF MakeCache, CopyVersion, CopyFiles, Fails, Running,
     RollbackPc
<1> QED BY <1>5, <1>6, <1>7, <1>8, <1>9, <1>10 DEF ScriptStep, Commit, Rollback

\* A rollback stays one until it starts the commit.
LEMMA StillRollback ==
  ASSUME StoreInv, NEW p \in Proc, Rollback(p), ~CopyFiles(p)
  PROVE  proc'[p].pc \notin CommitPc /\ proc[p].pc \notin CommitPc
<1> USE DEF CommitPc
<1>1. \A l : Goto(p, l) => proc'[p].pc = l
  BY GoesOn DEF StoreInv
<1>2. \A l : Exit(p, l) => proc'[p].pc = l
  BY Ended DEF StoreInv
<1>3. CASE \E l \in {"failed", "ok"} : Exit(p, l)
  BY <1>2, <1>3 DEF Rollback, RollbackNonce, RollbackTarget, MakeCache, CopyVersion,
     CopyFiles
<1>4. CASE ~\E l \in {"failed", "ok"} : Exit(p, l)
  <2>1. CASE RollbackNonce(p)
    BY <1>1, <1>4, <2>1 DEF RollbackNonce, Fails
  <2>2. CASE RollbackTarget(p)
    <3>1. /\ proc[p].pc = "target"
          /\ \E v, t, d : Become(p, [proc[p] EXCEPT !.pc = "mkcache", !.lastver = v,
                                                    !.version = t, !.diffs = d])
      BY <1>4, <2>2 DEF RollbackTarget, Fails
    <3>2. PICK v, t, d : Become(p, [proc[p] EXCEPT !.pc = "mkcache", !.lastver = v,
                                                   !.version = t, !.diffs = d])
      BY <3>1
    <3>3. /\ proc'[p] = [proc[p] EXCEPT !.pc = "mkcache", !.lastver = v,
                                        !.version = t, !.diffs = d]
          /\ proc[p] \in Process
      BY <3>2, Becomes DEF StoreInv
    <3>4. proc'[p].pc = "mkcache"
      BY <3>3 DEF Process
    <3> QED BY <3>1, <3>4
  <2>3. CASE MakeCache(p)
    BY <1>1, <2>3 DEF MakeCache
  <2>4. CASE CopyVersion(p)
    <3>1. /\ proc[p].pc = "copy"
          /\ \E v : \E l \in {"copyfiles", "copy"} :
               Become(p, [proc[p] EXCEPT !.version = v, !.pc = l])
      BY <1>4, <2>4 DEF CopyVersion, Fails
    <3>2. PICK v : \E l \in {"copyfiles", "copy"} :
            /\ proc'[p] = [proc[p] EXCEPT !.version = v, !.pc = l]
            /\ proc[p] \in Process
      BY <3>1, Becomes DEF StoreInv
    <3>3. proc'[p].pc \in {"copyfiles", "copy"}
      BY <3>2 DEF Process
    <3> QED BY <3>1, <3>3
  <2> QED BY <2>1, <2>2, <2>3, <2>4 DEF Rollback
<1> QED BY <1>3, <1>4

\* Every step of a program that has the lock leads on.
LEMMA ScriptAdvances ==
  ASSUME StoreInv, NEW p \in Proc, At(p), Aimed(p), proc[p].nonce = lock, ScriptStep(p)
  PROVE  Advances(p) /\ (Running(p)' => Aimed(p)')
<1>1. CASE Commit(p)
  <2>1. Advances(p)
    BY <1>1, CommitAdvances
  <2>2. proc[p].pc \in CommitPc
    BY <1>1 DEF Commit, CheckNonce, Scan, MakeNext, MoveHdk, MakeHdk, MoveCfg,
       MoveKeyring, EnterDir, MoveOld, MoveNew, UnlinkLast, LinkLast, RemoveUploads, CommitPc
  <2>3. ASSUME Running(p)' PROVE Aimed(p)'
    <3>1. proc'[p].target = proc[p].target /\ Coming(p)' = Coming(p)
      BY <2>1, <2>2, <2>3 DEF Advances
    <3>2. \A v \in Version : committed[v] # None => committed'[v] = committed[v]
      BY OnceStep
    <3> QED BY <2>2, <3>1, <3>2 DEF Aimed
  <2> QED BY <2>1, <2>3
<1>2. CASE Rollback(p) /\ ~CopyFiles(p)
  <2>1. Advances(p)
    BY <1>2, RollbackAdvances
  <2> QED BY <1>2, <2>1, StillRollback DEF Aimed
<1>3. CASE CopyFiles(p)
  BY <1>3, CopyFilesAdvances
<1> QED BY <1>1, <1>2, <1>3 DEF ScriptStep

-----------------------------------------------------------------------------
(* Clients and programs without a fault                                    *)

\* A client that has the lock, and one that has started a program.
Holder(c) == stage[c] # "away"
Waiting(c) == stage[c] \in {"rolling", "committing"}

\* A program runs for a client that waits for it, with the nonce that is in the lock.
Runs(p) ==
  Running(p) => /\ \E c \in Client : Waiting(c) /\ job[c] = p
                /\ proc[p].nonce = lock
                /\ At(p) /\ Aimed(p)

\* Whoever has a session has the lock, and who waits has a program.
Alone(c) ==
  /\ Holder(c) => nonce[c] = lock /\ lock # None
  /\ ~Holder(c) => nonce[c] = None
  /\ Waiting(c) => job[c] \in Proc /\ proc[job[c]].pc # "idle"
  /\ ~Waiting(c) => job[c] = None

\* What the parcel directory of the client has to do with the server.
Session(c) ==
  /\ clean[c] => stage[c] = "out" /\ keyring[c] = tree[last].keyring
  /\ stage[c] \in {"out", "uploaded", "checked", "prechecked"} => prev[c] = tree[last].keyring
  /\ stage[c] \in {"out", "away", "locked", "rolling", "rolled"} => upload[c] = None
  /\ stage[c] \in {"uploaded", "checked", "prechecked"} => cache[nonce[c]] = DirtyChunks(c)
  /\ stage[c] = "committing" =>
       IF Running(job[c])
       THEN Coming(job[c]) = keyring[c] /\ proc[job[c]].pc \in CommitPc
       ELSE proc[job[c]].pc = "ok" /\ tree[last].keyring = keyring[c]
  /\ stage[c] = "committed" => tree[last].keyring = keyring[c]

\* One client at a time has a session, and the store is settled when no program runs.
Calm ==
  /\ \A c, d \in Client : Holder(c) /\ Holder(d) => c = d
  /\ \A c \in Client : Alone(c) /\ Session(c)
  /\ \A p \in Proc : Runs(p)
  /\ (\A p \in Proc : ~Running(p)) => Settled(last)

\* The inductive invariant: all this holds until the first fault.
CalmInv == faults = 0 => Calm

-----------------------------------------------------------------------------
(* The steps of the system                                                 *)

\* One program runs at a time, for the client that has the lock.
LEMMA OneRuns ==
  ASSUME Calm, NEW p \in Proc, NEW c \in Client, Running(p), Holder(c)
  PROVE  Waiting(c) /\ job[c] = p
<1>1. PICK d \in Client : Waiting(d) /\ job[d] = p
  BY DEF Calm, Runs
<1>2. Holder(d)
  BY <1>1 DEF Waiting, Holder
<1>3. d = c
  BY <1>2 DEF Calm
<1> QED BY <1>1, <1>3

\* A step of a program without a fault.
LEMMA ServerCalm ==
  ASSUME IInv, Calm, NEW p \in Proc, Server(p)
  PROVE  Calm'
<1>1. StoreInv /\ ScriptStep(p) /\ UNCHANGED <<stage, nonce, prev, keyring, clean, upload, job>>
  BY DEF IInv, Server, clientvars
<1>2. Running(p) /\ lock' = lock /\ \A q \in Proc : q # p => proc'[q] = proc[q]
  BY <1>1, OneProgram
<1>3. PICK c \in Client : Waiting(c) /\ job[c] = p
  BY <1>2 DEF Calm, Runs
<1>4. Holder(c) /\ \A d \in Client : Holder(d) => d = c
  BY <1>3 DEF Calm, Holder, Waiting
<1>5. proc[p].nonce = lock /\ At(p) /\ Aimed(p)
  BY <1>2 DEF Calm, Runs
<1>6. Advances(p) /\ (Running(p)' => Aimed(p)')
  BY <1>1, <1>5, ScriptAdvances
<1>7. \A q \in Proc : q # p => ~Running(q) /\ ~Running(q)'
  <2>1. \A q \in Proc : q # p => ~Running(q)
    BY <1>3, <1>4, OneRuns
  <2> QED BY <1>2, <2>1 DEF Running
<1>8. \A d \in Client : (Holder(d)' <=> Holder(d)) /\ (Waiting(d)' <=> Waiting(d))
  BY <1>1 DEF Holder, Waiting
<1>9. ASSUME NEW d \in Client PROVE Alone(d)'
  <2>1. Alone(d)
    BY DEF Calm
  <2>2. Waiting(d) => d = c
    BY <1>4 DEF Holder, Waiting
  <2>3. proc'[p].pc # "idle"
    BY <1>6 DEF Advances
  <2> QED BY <1>1, <1>2, <1>3, <1>8, <2>1, <2>2, <2>3 DEF Alone
<1>10. ASSUME NEW d \in Client PROVE Session(d)'
  <2>1. Session(d)
    BY DEF Calm
  <2>2. CASE d # c
    <3>1. stage[d] = "away" /\ stage'[d] = "away" /\ ~clean[d] /\ ~clean'[d] /\ upload'[d] = None
      BY <1>1, <1>4, <2>1, <2>2 DEF Holder, Session
    <3> QED BY <3>1 DEF Session
  <2>3. CASE stage[c] = "rolling" /\ d = c
    <3>1. stage'[c] = "rolling" /\ ~clean[c] /\ ~clean'[c] /\ upload'[c] = None
      BY <1>1, <2>1, <2>3 DEF Session
    <3> QED BY <2>3, <3>1 DEF Session
  <2>4. CASE stage[c] = "committing" /\ d = c
    <3>1. stage'[c] = "committing" /\ ~clean[c] /\ ~clean'[c]
      BY <1>1, <2>1, <2>4 DEF Session
    <3>2. Coming(p) = keyring[c] /\ proc[p].pc \in CommitPc
      BY <1>2, <1>3, <2>1, <2>4 DEF Session
    <3>3. IF Running(p)' THEN Coming(p)' = keyring'[c] /\ proc'[p].pc \in CommitPc
                         ELSE proc'[p].pc = "ok" /\ tree'[last'].keyring = keyring'[c]
      BY <1>1, <1>6, <3>2 DEF Advances
    <3>4. job'[c] = p
      BY <1>1, <1>3
    <3>5. IF Running(job[c])' THEN Coming(job[c])' = keyring'[c] /\ proc'[job'[c]].pc \in CommitPc
                              ELSE proc'[job'[c]].pc = "ok" /\ tree'[last'].keyring = keyring'[c]
      BY <3>3, <3>4 DEF Running, Coming, Nextver, Upload
    <3> QED BY <2>4, <3>1, <3>5 DEF Session
  <2> QED BY <1>3, <2>2, <2>3, <2>4 DEF Waiting
<1>11. ASSUME NEW q \in Proc PROVE Runs(q)'
  <2>1. CASE q # p
    BY <1>7, <2>1 DEF Runs
  <2>2. CASE q = p
    <3>1. \E d \in Client : Waiting(d)' /\ job'[d] = p
      BY <1>1, <1>3, <1>8
    <3>2. Running(p)' => At(p)' /\ Aimed(p)' /\ proc'[p].nonce = lock'
      BY <1>2, <1>5, <1>6 DEF Advances
    <3> QED BY <2>2, <3>1, <3>2 DEF Runs
  <2> QED BY <2>1, <2>2
<1>12. ~Running(p)' => Settled(last)'
  BY <1>6 DEF Advances
<1>13. \A d, e \in Client : Holder(d)' /\ Holder(e)' => d = e
  BY <1>8 DEF Calm
<1> QED BY <1>9, <1>10, <1>11, <1>12, <1>13 DEF Calm

\* The other clients have nothing, while c has the lock or takes it.
LEMMA OtherClients ==
  ASSUME Calm, NEW c \in Client, \A d \in Client : Holder(d) => d = c,
         \A d \in Client : d # c =>
           /\ stage'[d] = stage[d] /\ nonce'[d] = nonce[d] /\ clean'[d] = clean[d]
           /\ upload'[d] = upload[d] /\ job'[d] = job[d],
         Alone(c)', Session(c)',
         \A p \in Proc : Runs(p)',
         (\A p \in Proc : ~Running(p)') => Settled(last)'
  PROVE  Calm'
<1>1. ASSUME NEW d \in Client, d # c PROVE ~Holder(d)' /\ Alone(d)' /\ Session(d)'
  <2>1. ~Holder(d) /\ Alone(d) /\ Session(d)
    BY <1>1 DEF Calm
  <2>2. /\ stage[d] = "away" /\ nonce[d] = None /\ job[d] = None /\ ~clean[d]
        /\ upload[d] = None
    BY <2>1 DEF Holder, Waiting, Alone, Session
  <2>3. /\ stage'[d] = "away" /\ nonce'[d] = None /\ job'[d] = None /\ ~clean'[d]
        /\ upload'[d] = None
    BY <1>1, <2>2
  <2> QED BY <2>3 DEF Holder, Waiting, Alone, Session
<1>2. \A d, e \in Client : Holder(d)' /\ Holder(e)' => d = e
  BY <1>1
<1>3. \A d \in Client : Alone(d)' /\ Session(d)'
  BY <1>1
<1> QED BY <1>2, <1>3 DEF Calm

\* No program runs.
NoneRuns == \A p \in Proc : ~Running(p)

\* No program runs for a client that does not wait for one.
LEMMA HolderQuiet ==
  ASSUME Calm, NEW c \in Client, Holder(c), ~Waiting(c) \/ ~Running(job[c])
  PROVE  NoneRuns /\ Settled(last) /\ \A d \in Client : Holder(d) => d = c
<1>1. NoneRuns
  BY OneRuns DEF NoneRuns
<1> QED BY <1>1 DEF Calm, NoneRuns

\* A step of a client while no program runs, and that starts none.
LEMMA ClientCalm ==
  ASSUME Calm, NEW c \in Client, NoneRuns, Settled(last),
         \A d \in Client : Holder(d) => d = c,
         \A d \in Client : d # c =>
           /\ stage'[d] = stage[d] /\ nonce'[d] = nonce[d] /\ clean'[d] = clean[d]
           /\ upload'[d] = upload[d] /\ job'[d] = job[d],
         UNCHANGED <<tree, last, committed, proc>>,
         Alone(c)', Session(c)'
  PROVE  Calm'
<1>1. \A p \in Proc : ~Running(p)'
  BY DEF NoneRuns, Running
<1>2. Settled(last)'
  BY SettledSame
<1>3. \A p \in Proc : Runs(p)'
  BY <1>1 DEF Runs
<1> QED BY <1>2, <1>3, OtherClients

\* A client takes the lock that nobody has.
LEMMA CheckoutCalm ==
  ASSUME IInv, Calm, NEW c \in Client, Checkout(c)
  PROVE  Calm'
<1>1. Clients /\ lock = None
  BY Parts DEF Checkout, Acquire
<1>2. \A d \in Client : ~Holder(d)
  BY <1>1 DEF Calm, Alone
<1>3. NoneRuns
  <2>1. \A p \in Proc, d \in Client : Waiting(d) => ~Running(p)
    BY <1>2 DEF Holder, Waiting
  <2> QED BY <2>1 DEF Calm, Runs, NoneRuns
<1>4. Settled(last)
  BY <1>3 DEF Calm, NoneRuns
<1>5. UNCHANGED <<tree, last, committed, proc, clean, upload, job>> /\ lock' = nonces + 1
  BY DEF Checkout, Acquire
<1>6. /\ stage'[c] = "locked" /\ nonce'[c] = lock'
      /\ \A d \in Client : d # c => stage'[d] = stage[d] /\ nonce'[d] = nonce[d]
  BY <1>1, <1>5 DEF Checkout, ToStage, Clients
<1>7. lock' # None
  <2>1. nonces \in Nat
    BY Bounds, SMTT(20) DEF IInv, StoreInv, TypeOK
  <2>2. lock' \in Nat
    BY <1>5, <2>1, SMTT(20)
  <2> QED BY <2>2, NoneApart
<1>8. ~clean[c] /\ upload[c] = None /\ job[c] = None
  BY DEF Calm, Alone, Session, Checkout, Waiting
<1>9. Alone(c)'
  BY <1>5, <1>6, <1>7, <1>8 DEF Alone, Holder, Waiting
<1>10. Session(c)'
  BY <1>5, <1>6, <1>8 DEF Session
<1> QED BY <1>2, <1>3, <1>4, <1>5, <1>6, <1>9, <1>10, ClientCalm

\* The parcel is erased and the lock released.
LEMMA CleanCalm ==
  ASSUME IInv, Calm, NEW c \in Client, Holder(c), ~Waiting(c) \/ ~Running(job[c]), Clean(c)
  PROVE  Calm'
<1>1. Clients
  BY Parts
<1>2. NoneRuns /\ Settled(last) /\ \A d \in Client : Holder(d) => d = c
  BY HolderQuiet
<1>3. UNCHANGED <<tree, last, committed, proc>>
  BY DEF Clean
<1>4. /\ stage'[c] = "away" /\ nonce'[c] = None /\ ~clean'[c]
      /\ upload'[c] = None /\ job'[c] = None
  BY <1>1 DEF Clean, Erased, ToStage, Clients
<1>5. \A d \in Client : d # c =>
        /\ stage'[d] = stage[d] /\ nonce'[d] = nonce[d] /\ clean'[d] = clean[d]
        /\ upload'[d] = upload[d] /\ job'[d] = job[d]
  BY <1>1 DEF Clean, Erased, ToStage, Clients
<1>6. Alone(c)' /\ Session(c)'
  BY <1>4 DEF Alone, Session, Holder, Waiting
<1> QED BY <1>2, <1>3, <1>5, <1>6, ClientCalm

\* A step of a client to stage s that leaves the lock and the store alone.
LEMMA StageCalm ==
  ASSUME IInv, Calm, NEW c \in Client, Holder(c), ~Waiting(c) \/ ~Running(job[c]),
         NEW s \in Stage \ {"away", "rolling", "committing"}, ToStage(c, s),
         UNCHANGED <<tree, last, committed, proc, lock, nonce>>,
         \A d \in Client : d # c =>
           clean'[d] = clean[d] /\ upload'[d] = upload[d] /\ job'[d] = job[d],
         job'[c] = None, Session(c)'
  PROVE  Calm'
<1>1. NoneRuns /\ Settled(last) /\ \A d \in Client : Holder(d) => d = c
  BY HolderQuiet
<1>2. stage'[c] = s /\ \A d \in Client : d # c => stage'[d] = stage[d]
  BY Parts DEF ToStage, Clients
<1>3. nonce[c] = lock /\ lock # None
  BY DEF Calm, Alone
<1>4. Alone(c)'
  BY <1>2, <1>3 DEF Alone, Holder, Waiting
<1> QED BY <1>1, <1>2, <1>4, ClientCalm

\* The client fetches the parcel, or gives up.
LEMMA FetchCalm ==
  ASSUME IInv, Calm, NEW c \in Client, Fetch(c)
  PROVE  Calm'
<1>1. Holder(c) /\ ~Waiting(c) /\ Clients
  BY Parts DEF Fetch, Holder, Waiting
<1>2. CASE Clean(c)
  BY <1>1, <1>2, CleanCalm
<1>3. CASE /\ prev' = [prev EXCEPT ![c] = tree[last].keyring]
           /\ keyring' = [keyring EXCEPT ![c] = tree[last].keyring]
           /\ clean' = [clean EXCEPT ![c] = TRUE]
           /\ ToStage(c, "out")
           /\ UNCHANGED <<storevars, nonce, upload, job>>
  <2>1. UNCHANGED <<tree, last, committed, proc, lock, nonce, upload, job>> /\ "out" \in Stage
    BY <1>3 DEF storevars, Stage
  <2>2. /\ stage'[c] = "out" /\ prev'[c] = tree[last].keyring
        /\ keyring'[c] = tree[last].keyring
        /\ \A d \in Client : d # c => clean'[d] = clean[d]
    BY <1>1, <1>3 DEF ToStage, Clients
  <2>3. upload[c] = None /\ job[c] = None
    BY <1>1 DEF Calm, Alone, Session, Fetch
  <2>4. Session(c)'
    BY <2>1, <2>2, <2>3 DEF Session
  <2> QED BY <1>1, <1>3, <2>1, <2>2, <2>3, <2>4, StageCalm
<1> QED BY <1>2, <1>3 DEF Fetch

\* A rollback has ended.
LEMMA RollbackReturnsCalm ==
  ASSUME IInv, Calm, NEW c \in Client, RollbackReturns(c)
  PROVE  Calm'
<1>1. Holder(c) /\ Clients
  BY Parts DEF RollbackReturns, Holder
<1>2. ~Running(job[c])
  BY DEF RollbackReturns, Running, RollbackPc, CommitPc
<1>3. CASE Clean(c)
  BY <1>1, <1>2, <1>3, CleanCalm
<1>4. CASE /\ ToStage(c, "rolled") /\ job' = [job EXCEPT ![c] = None]
           /\ UNCHANGED <<storevars, nonce, prev, keyring, clean, upload>>
  <2>1. UNCHANGED <<tree, last, committed, proc, lock, nonce, clean, upload>> /\ "rolled" \in Stage
    BY <1>4 DEF storevars, Stage
  <2>2. /\ stage'[c] = "rolled" /\ job'[c] = None
        /\ \A d \in Client : d # c => job'[d] = job[d]
    BY <1>1, <1>4 DEF ToStage, Clients
  <2>3. upload[c] = None /\ ~clean[c]
    BY DEF Calm, Session, RollbackReturns
  <2>4. Session(c)'
    BY <2>1, <2>2, <2>3 DEF Session
  <2> QED BY <1>1, <1>2, <1>4, <2>1, <2>2, <2>4, StageCalm
<1> QED BY <1>3, <1>4 DEF RollbackReturns

\* A settled parcel passes checkparcel, together with what has the chunks that it
\* changes.
LEMMA SettledConsistent ==
  ASSUME StoreInv, Settled(last), NEW t,
         t # None => /\ t.keyring \in Keyring
                     /\ \A k \in Chunk : t.file[k] =
                          IF t.keyring[k] # tree[last].keyring[k] THEN t.keyring[k] ELSE None
  PROVE  last # None /\ Consistent(t)
<1>1. last \in Version /\ last # None
  BY NoneApart, VersionFacts DEF Settled
<1>2. last = LastVersion
  BY <1>1, SettledLast
<1>3. tree[last] # None /\ tree[last].keyring \in Keyring
  BY <1>1, VersionFacts DEF Settled, Chain, Stored
<1>4. HasHdk(tree[last]) /\ tree[last].keyring # None
  BY <1>3, NoneApart DEF Settled, Full, HasHdk
<1>5. \A r \in Keyring : r # None /\ \A k \in Chunk : r[k] # None
  BY NoneApart DEF Keyring
<1>6. \A k \in Chunk : tree[last].file[k] # None
  BY <1>3, <1>5 DEF Settled, Full
<1>7. t # None => {k \in Chunk : t.file[k] # None} = Differing(t.keyring, tree[last].keyring)
  BY <1>5 DEF Differing
<1> QED BY <1>1, <1>2, <1>4, <1>5, <1>6, <1>7 DEF Consistent

\* checkparcel finds nothing wrong with a settled parcel and the version before it.
LEMMA SettledParcel ==
  ASSUME StoreInv, Settled(last)
  PROVE  ParcelConsistent
<1>1. last \in Version
  BY DEF Settled
<1>2. CASE last = 1
  <2>1. last # None /\ Consistent(None)
    BY SettledConsistent
  <2> QED BY <1>2, <2>1 DEF ParcelConsistent
<1>3. CASE last # 1
  <2>1. PICK v \in Version : v = last - 1 /\ v < last /\ v + 1 = last
    BY <1>1, <1>3, Bounds, SMTT(20) DEF Version
  <2>2. Stored(v) /\ Delta(v, last)
    BY <1>1, <2>1, VersionFacts DEF Settled, Chain
  <2>3. last # None /\ Consistent(tree[v])
    BY <2>2, SettledConsistent DEF Stored, Delta
  <2> QED BY <1>3, <2>1, <2>3 DEF ParcelConsistent
<1> QED BY <1>2, <1>3

\* What the client uploads.
LEMMA DirtyBrings ==
  ASSUME IInv, NEW c \in Client, prev[c] = tree[last].keyring, keyring[c] \in Keyring,
         prev[c] \in Keyring
  PROVE  DirtyChunks(c) # None /\ Brings(DirtyChunks(c), last)
<1> DEFINE F == [k \in Chunk |-> IF keyring[c][k] # prev[c][k] THEN keyring[c][k] ELSE None]
           D == Dir
<1>1. D # None /\ \A k \in Chunk : DirOf(k) \in D
  BY NoneApart, DirFacts
<1>2. \A k \in Chunk : F[k] = IF keyring[c][k] # tree[last].keyring[k] THEN keyring[c][k] ELSE None
  OBVIOUS
<1>3. DirtyChunks(c) = [cfg |-> TRUE, keyring |-> keyring[c], dirs |-> D, file |-> F]
  BY DEF DirtyChunks
<1>4. F \in [Chunk -> Tag \cup {None}] /\ D \in SUBSET Dir
  BY DEF Keyring
<1>5. DirtyChunks(c) \in Tree
  BY <1>4 DEF DirtyChunks, Tree
<1> HIDE DEF F, D
<1>6. DirtyChunks(c) # None
  BY <1>5, NoneApart
<1>7. /\ DirtyChunks(c).cfg /\ DirtyChunks(c).keyring = keyring[c]
      /\ DirtyChunks(c).dirs = D /\ DirtyChunks(c).file = F
  BY <1>3, SMTT(20)
<1> QED BY <1>1, <1>2, <1>6, <1>7 DEF Brings

\* The virtual machine writes.
LEMMA RunCalm ==
  ASSUME IInv, Calm, NEW c \in Client, NEW r \in Keyring, Run(c, r)
  PROVE  Calm'
<1>1. Holder(c) /\ ~Waiting(c) /\ Clients /\ stage[c] = "out"
  BY Parts DEF Run, Holder, Waiting
<1>2. NoneRuns /\ Settled(last) /\ \A d \in Client : Holder(d) => d = c
  BY <1>1, HolderQuiet
<1>3. UNCHANGED <<tree, last, committed, proc, lock, nonce, prev, stage, job>>
  BY DEF Run, storevars
<1>4. /\ ~clean'[c] /\ upload'[c] = None
      /\ \A d \in Client : d # c => clean'[d] = clean[d] /\ upload'[d] = upload[d]
  BY <1>1 DEF Run, Clients
<1>5. Alone(c)'
  BY <1>1, <1>3 DEF Calm, Alone, Holder, Waiting
<1>6. prev[c] = tree[last].keyring
  BY <1>1 DEF Calm, Session
<1>7. Session(c)'
  BY <1>1, <1>3, <1>4, <1>6 DEF Session
<1> QED BY <1>2, <1>3, <1>4, <1>5, <1>7, ClientCalm

\* The upload.
LEMMA SendCalm ==
  ASSUME IInv, Calm, NEW c \in Client, Send(c)
  PROVE  Calm'
<1>1. Holder(c) /\ ~Waiting(c) /\ Clients /\ stage[c] = "out" /\ ~clean[c]
  BY Parts DEF Send, Holder, Waiting
<1>2. /\ UNCHANGED <<tree, last, committed, proc, lock, nonce, prev, keyring, clean, job>>
      /\ ToStage(c, "uploaded") /\ "uploaded" \in Stage
  BY DEF Send, Stage
<1>3. UploadDir(c) = DirtyChunks(c)
  BY <1>1 DEF UploadDir, Calm, Session
<1>4. nonce[c] \in Nonce /\ cache \in [Nonce -> Tree \cup {None}]
  BY <1>1 DEF IInv, Sessions, StoreInv, TypeOK
<1>5. cache'[nonce[c]] = DirtyChunks(c)
  BY <1>3, <1>4 DEF Send
<1>6. /\ stage'[c] = "uploaded"
      /\ \A d \in Client : d # c => upload'[d] = upload[d]
  BY <1>1 DEF Send, ToStage, Clients
<1>7. prev[c] = tree[last].keyring /\ job[c] = None
  BY <1>1 DEF Calm, Session, Alone
<1>8. Session(c)'
  BY <1>1, <1>2, <1>5, <1>6, <1>7 DEF Session, DirtyChunks
<1> QED BY <1>1, <1>2, <1>6, <1>7, <1>8, StageCalm

\* The two checks before the commit find nothing wrong.
LEMMA ChecksPass ==
  ASSUME IInv, Calm, NEW c \in Client, stage[c] \in {"uploaded", "checked", "committed"}
  PROVE  ParcelConsistent /\ (stage[c] = "checked" => UploadConsistent(nonce[c]))
<1>1. Holder(c) /\ ~Waiting(c) /\ StoreInv
  BY DEF Holder, Waiting, IInv
<1>2. Settled(last)
  BY <1>1, HolderQuiet
<1>3. ParcelConsistent
  BY <1>1, <1>2, SettledParcel
<1>4. ASSUME stage[c] = "checked" PROVE UploadConsistent(nonce[c])
  <2>1. cache[nonce[c]] = DirtyChunks(c) /\ prev[c] = tree[last].keyring
    BY <1>4 DEF Calm, Session
  <2>2. keyring[c] \in Keyring /\ prev[c] \in Keyring
    BY <1>4 DEF IInv, Sessions
  <2>3. DirtyChunks(c) # None /\ Brings(DirtyChunks(c), last)
    BY <2>1, <2>2, DirtyBrings
  <2>4. last # None /\ Consistent(DirtyChunks(c))
    BY <1>1, <1>2, <2>3, SettledConsistent DEF Brings
  <2> QED BY <2>1, <2>3, <2>4 DEF UploadConsistent
<1> QED BY <1>3, <1>4

\* The two checks before the commit.
LEMMA CheckCalm ==
  ASSUME IInv, Calm, NEW c \in Client, CheckParcel(c) \/ CheckUpload(c)
  PROVE  Calm' /\ stage'[c] # "out"
<1>1. /\ stage[c] \in {"uploaded", "checked"}
      /\ UNCHANGED <<storevars, nonce, prev, keyring, clean, upload, job>>
  BY DEF CheckParcel, CheckUpload
<1>2. Holder(c) /\ ~Waiting(c) /\ Clients
  BY <1>1, Parts DEF Holder, Waiting
<1>3. PICK s \in {"checked", "prechecked"} : ToStage(c, s)
  BY ChecksPass DEF CheckParcel, CheckUpload
<1>4. stage'[c] = s /\ s \in Stage
  BY <1>2, <1>3 DEF ToStage, Clients, Stage
<1>5. UNCHANGED <<tree, last, cache, committed, proc, lock>>
  BY <1>1 DEF storevars
<1>6. /\ prev[c] = tree[last].keyring /\ cache[nonce[c]] = DirtyChunks(c) /\ ~clean[c]
      /\ job[c] = None
  BY <1>1, <1>2 DEF Calm, Session, Alone
<1>7. Session(c)'
  BY <1>1, <1>3, <1>4, <1>5, <1>6 DEF Session, DirtyChunks
<1>8. s \in Stage \ {"away", "rolling", "committing"}
  BY <1>3, <1>4
<1>9. Calm'
  BY <1>1, <1>2, <1>3, <1>5, <1>6, <1>7, <1>8, StageCalm
<1> QED BY <1>3, <1>4, <1>9

\* The client learns that its commit has ended well.
LEMMA CommitReturnsCalm ==
  ASSUME IInv, Calm, NEW c \in Client, CommitReturns(c)
  PROVE  Calm' /\ stage'[c] # "out"
<1>1. Holder(c) /\ Clients /\ stage[c] = "committing" /\ ~Running(job[c])
  BY Parts DEF CommitReturns, Holder
<1>2. proc[job[c]].pc = "ok" /\ tree[last].keyring = keyring[c] /\ ~clean[c]
  BY <1>1 DEF Calm, Session
<1>3. ToStage(c, "committed") /\ "committed" \in Stage
  BY <1>2 DEF CommitReturns, Stage
<1>4. /\ UNCHANGED <<tree, last, committed, proc, lock, nonce, keyring, clean, upload>>
      /\ job' = [job EXCEPT ![c] = None]
  BY DEF CommitReturns, storevars
<1>5. /\ stage'[c] = "committed" /\ job'[c] = None
      /\ \A d \in Client : d # c => job'[d] = job[d]
  BY <1>1, <1>3, <1>4 DEF ToStage, Clients
<1>6. Session(c)'
  BY <1>2, <1>4, <1>5 DEF Session
<1>7. Calm'
  BY <1>1, <1>3, <1>4, <1>5, <1>6, StageCalm
<1> QED BY <1>5, <1>7

\* clientcommit() sets the flag.
LEMMA ClientCommitCalm ==
  ASSUME IInv, Calm, NEW c \in Client, ClientCommit(c)
  PROVE  Calm' /\ clean'[c]
<1>1. Holder(c) /\ ~Waiting(c) /\ Clients /\ stage[c] = "committed"
  BY Parts DEF ClientCommit, Holder, Waiting
<1>2. ParcelConsistent
  BY <1>1, ChecksPass
<1>3. /\ prev' = [prev EXCEPT ![c] = keyring[c]] /\ upload' = [upload EXCEPT ![c] = None]
      /\ clean' = [clean EXCEPT ![c] = TRUE]
  BY <1>2 DEF ClientCommit
<1>4. /\ UNCHANGED <<tree, last, committed, proc, lock, nonce, keyring, job>>
      /\ ToStage(c, "out") /\ "out" \in Stage
  BY DEF ClientCommit, storevars, Stage
<1>5. /\ prev'[c] = keyring[c] /\ upload'[c] = None /\ clean'[c] = TRUE /\ stage'[c] = "out"
      /\ \A d \in Client : d # c => upload'[d] = upload[d] /\ clean'[d] = clean[d]
  BY <1>1, <1>3, <1>4 DEF ToStage, Clients
<1>6. tree[last].keyring = keyring[c] /\ job[c] = None
  BY <1>1 DEF Calm, Session, Alone
<1>7. Session(c)'
  BY <1>4, <1>5, <1>6 DEF Session
<1>8. Calm'
  BY <1>1, <1>4, <1>5, <1>6, <1>7, StageCalm
<1> QED BY <1>5, <1>8

\* The client starts a program.
LEMMA StartCalm ==
  ASSUME IInv, Calm, NEW c \in Client, NEW p \in Proc, NEW l \in {"locked", "nonce"}, NEW t,
         Holder(c), ~Waiting(c), NEW s \in {"rolling", "committing"}, ToStage(c, s),
         job' = [job EXCEPT ![c] = p],
         UNCHANGED <<tree, last, committed, cache, lock, nonce, prev, keyring, clean, upload>>,
         Start(p, l, nonce[c], t),
         s = "committing" => l = "nonce" /\ cache[nonce[c]].keyring = keyring[c],
         s = "rolling" => upload[c] = None,
         ~clean[c],
         l = "nonce" => t = None /\ Brings(cache[nonce[c]], last)
  PROVE  Calm'
<1> USE DEF RollbackPc, CommitPc, FillPc, BuildPc
<1>1. NoneRuns /\ Settled(last) /\ \A d \in Client : Holder(d) => d = c
  BY HolderQuiet
<1>2. Clients /\ TypeOK
  BY Parts DEF IInv, StoreInv
<1>3. /\ stage'[c] = s /\ job'[c] = p
      /\ \A d \in Client : d # c => stage'[d] = stage[d] /\ job'[d] = job[d]
  BY <1>2 DEF ToStage, Clients
<1>4. nonce[c] = lock /\ lock # None
  BY DEF Calm, Alone
<1>5. /\ proc'[p] = [Idle EXCEPT !.pc = l, !.nonce = nonce[c], !.target = t]
      /\ \A q \in Proc : q # p => proc'[q] = proc[q]
  BY <1>2 DEF Start, Become, TypeOK
<1>6. proc'[p].pc = l /\ proc'[p].nonce = nonce[c] /\ proc'[p].target = t /\ proc'[p].dir = 0
  BY <1>5, SMTT(20) DEF Idle
<1>7. Settled(last)'
  BY <1>1, SettledSame
<1>8. Running(p)'
  BY <1>6 DEF Running
<1>9. ASSUME NEW q \in Proc PROVE Runs(q)'
  <2>1. CASE q # p
    BY <1>1, <1>5, <2>1 DEF Runs, Running, NoneRuns
  <2>2. CASE q = p
    <3>1. \E d \in Client : Waiting(d)' /\ job'[d] = p
      BY <1>3 DEF Waiting
    <3>2. Upload(p)' = cache[nonce[c]]
      BY <1>6 DEF Upload
    <3>3. l = "nonce" => Brings(Upload(p), last)'
      <4>1. ASSUME l = "nonce" PROVE Brings(Upload(p), last)'
        <5>1. Brings(cache[nonce[c]], last)
          BY <4>1
        <5> QED BY <3>2, <5>1 DEF Brings
      <4> QED BY <4>1
    <3>4. At(p)'
      BY <1>6, <1>7, <3>3 DEF At
    <3>5. Aimed(p)'
      BY <1>6 DEF Aimed
    <3> QED BY <1>4, <1>6, <2>2, <3>1, <3>4, <3>5 DEF Runs
  <2> QED BY <2>1, <2>2
<1>10. Alone(c)'
  BY <1>3, <1>4, <1>6 DEF Alone, Holder, Waiting
<1>11. Session(c)'
  <2>1. CASE s = "rolling"
    BY <1>3, <2>1 DEF Session
  <2>2. CASE s = "committing"
    <3>1. Coming(p)' = keyring'[c] /\ proc'[p].pc \in CommitPc
      BY <1>6, <2>2 DEF Coming, Upload
    <3>2. Running(job[c])' /\ Coming(job[c])' = keyring'[c] /\ proc'[job'[c]].pc \in CommitPc
      BY <1>3, <1>8, <3>1 DEF Running, Coming, Upload, Nextver
    <3> QED BY <1>3, <2>2, <3>2 DEF Session
  <2> QED BY <2>1, <2>2
<1> QED BY <1>1, <1>3, <1>7, <1>9, <1>10, <1>11, OtherClients

\* A client that starts a rollback or a commit.
LEMMA StartedCalm ==
  ASSUME IInv, Calm, NEW c \in Client, NEW p \in Proc, NEW v \in Version,
         StartRollback(c, p, v) \/ StartCommit(c, p)
  PROVE  Calm'
<1>1. Holder(c) /\ ~Waiting(c)
  BY DEF StartRollback, StartCommit, Holder, Waiting
<1>2. /\ UNCHANGED <<tree, last, committed, cache, lock, nonce, prev, keyring, clean, upload>>
      /\ job' = [job EXCEPT ![c] = p]
  BY DEF StartRollback, StartCommit
<1>3. ~clean[c]
  BY DEF StartRollback, StartCommit, Calm, Session
<1>4. CASE StartRollback(c, p, v)
  <2>1. Start(p, "locked", nonce[c], v) /\ ToStage(c, "rolling") /\ upload[c] = None
    BY <1>4 DEF StartRollback, Calm, Session
  <2> QED BY <1>1, <1>2, <1>3, <2>1, StartCalm
<1>5. CASE StartCommit(c, p)
  <2>1. Start(p, "nonce", nonce[c], None) /\ ToStage(c, "committing") /\ stage[c] = "prechecked"
    BY <1>5 DEF StartCommit
  <2>2. cache[nonce[c]] = DirtyChunks(c) /\ prev[c] = tree[last].keyring
    BY <2>1 DEF Calm, Session
  <2>3. prev[c] \in Keyring /\ keyring[c] \in Keyring
    BY <2>1 DEF IInv, Sessions
  <2>4. Brings(cache[nonce[c]], last)
    BY <2>2, <2>3, DirtyBrings
  <2>5. cache[nonce[c]].keyring = keyring[c]
    BY <2>2, SMTT(20) DEF DirtyChunks
  <2> QED BY <1>1, <1>2, <1>3, <2>1, <2>4, <2>5, StartCalm
<1> QED BY <1>4, <1>5

\* Faults are counted.
LEMMA FaultCounts ==
  ASSUME IInv, faults' = 0
  PROVE  ~Fault
BY FaultBound, SMTT(20) DEF Fault, IInv, ClientTypeOK

\* A step of a client without a fault.
LEMMA ClientStepCalm ==
  ASSUME IInv, Calm, NEW c \in Client, ClientStep(c), faults' = 0
  PROVE  Calm'
<1>1. ~Fault
  BY FaultCounts
<1>2. \/ Checkout(c) \/ Fetch(c) \/ \E p \in Proc, v \in Version : StartRollback(c, p, v)
      \/ RollbackReturns(c) \/ (\E r \in Keyring : Run(c, r)) \/ Send(c)
      \/ CheckParcel(c) \/ CheckUpload(c) \/ (\E p \in Proc : StartCommit(c, p))
      \/ CommitReturns(c) \/ ClientCommit(c) \/ Release(c)
  BY <1>1 DEF ClientStep, NonceLost, RollbackReplyLost, SendFails, CommitReplyLost,
     ReleaseLost, ForceClean
<1>3. CASE Release(c)
  <2>1. Holder(c) /\ ~Waiting(c) /\ Clean(c)
    BY <1>3 DEF Release, Holder, Waiting
  <2> QED BY <2>1, CleanCalm
<1>4. \E v \in Version : TRUE
  BY Bounds, SMTT(20) DEF Version
<1> QED BY <1>2, <1>3, <1>4, CheckoutCalm, FetchCalm, StartedCalm, RollbackReturnsCalm, RunCalm,
     SendCalm, CheckCalm, CommitReturnsCalm, ClientCommitCalm

\* What the invariant is about does not change when no variable does.
LEMMA CalmSame ==
  ASSUME Calm, UNCHANGED vars
  PROVE  Calm'
<1>1. UNCHANGED <<tree, last, cache, lock, proc, committed, stage, nonce, prev, keyring, clean,
                  upload, job>>
  BY DEF vars, storevars, clientvars
<1>2. Settled(last)' <=> Settled(last)
  BY <1>1, SettledSame
<1>3. \A p \in Proc : Running(p)' <=> Running(p)
  BY <1>1 DEF Running
<1>4. \A p \in Proc : Coming(p)' = Coming(p)
  BY <1>1 DEF Coming, Upload, Nextver
<1>5. ASSUME NEW p \in Proc PROVE At(p) => At(p)'
  <2>1. Settled(Lastver(p))' <=> Settled(Lastver(p))
    BY <1>1, SettledSame DEF Lastver
  <2>2. Settled(Nextver(p))' <=> Settled(Nextver(p))
    BY <1>1, SettledSame DEF Nextver
  <2>3. Chain(Lastver(p))' <=> Chain(Lastver(p))
    BY <1>1, SettledSame DEF Lastver
  <2>4. Compared(p)' <=> Compared(p)
    BY <1>1, <2>1 DEF Compared, Lastver, Differing
  <2>5. Copying(p)' <=> Copying(p)
    BY <1>1 DEF Copying, CopiedSoFar, Lastver, Upload
  <2>6. Making(p)' <=> Making(p)
    BY <1>1, <2>3 DEF Making, Lastver, Nextver, Newest
  <2>7. Filing(p)' <=> Filing(p)
    BY <1>1 DEF Filing, Lastver, Nextver, Upload
  <2>8. Shifting(p)' <=> Shifting(p)
    <3>1. /\ Lastver(p)' = Lastver(p) /\ Nextver(p)' = Nextver(p) /\ Upload(p)' = Upload(p)
          /\ Coming(p)' = Coming(p)
      BY <1>1, <1>4 DEF Lastver, Nextver, Upload
    <3>2. \A k \in Chunk : Done(p, k)' <=> Done(p, k)
      BY <1>1, <3>1 DEF Done
    <3>3. \A k \in Chunk : Replacing(p, k)' <=> Replacing(p, k)
      BY <1>1 DEF Replacing
    <3>4. \A k \in Chunk : Waits(p, k)' <=> Waits(p, k)
      BY <1>1, <3>1, <3>3 DEF Waits
    <3>5. \A k \in Chunk : Ahead(p, k)' <=> Ahead(p, k)
      BY <1>1 DEF Ahead
    <3> QED BY <1>1, <3>1, <3>2, <3>4, <3>5 DEF Shifting
  <2>9. /\ Brings(Upload(p), last)' <=> Brings(Upload(p), last)
        /\ Brings(Upload(p), Lastver(p))' <=> Brings(Upload(p), Lastver(p))
        /\ Full(Lastver(p))' <=> Full(Lastver(p))
        /\ Nextver(p)' = Nextver(p)
    BY <1>1 DEF Brings, Full, Upload, Lastver, Nextver
  <2> QED BY <1>1, <1>2, <2>1, <2>2, <2>4, <2>5, <2>6, <2>7, <2>8, <2>9 DEF At
<1>6. ASSUME NEW p \in Proc PROVE Runs(p)'
  <2>1. Runs(p) /\ (Aimed(p)' <=> Aimed(p))
    BY <1>1, <1>4 DEF Calm, Aimed
  <2> QED BY <1>1, <1>3, <1>5, <2>1 DEF Runs, Waiting
<1>7. ASSUME NEW c \in Client PROVE Alone(c)'
  BY <1>1 DEF Calm, Alone, Holder, Waiting
<1>8. ASSUME NEW c \in Client PROVE Session(c)'
  <2>1. Session(c)
    BY DEF Calm
  <2>2. (Running(job[c])' <=> Running(job[c])) /\ Coming(job[c])' = Coming(job[c])
    BY <1>1 DEF Running, Coming, Upload, Nextver
  <2> QED BY <1>1, <2>1, <2>2 DEF Session, DirtyChunks
<1>9. \A c, d \in Client : Holder(c)' /\ Holder(d)' => c = d
  BY <1>1 DEF Calm, Holder
<1> QED BY <1>2, <1>3, <1>6, <1>7, <1>8, <1>9 DEF Calm

\* The faults that have happened are never forgotten.
LEMMA FaultsStay ==
  ASSUME IInv, [Next]_vars, faults' = 0
  PROVE  faults = 0
<1>1. ~Fault
  BY FaultCounts
<1>2. ASSUME NEW c \in Client, ClientStep(c) PROVE faults' = faults
  BY <1>1, <1>2 DEF ClientStep, Checkout, NonceLost, Fetch, StartRollback,
     RollbackReturns, RollbackReplyLost, Run, Send, SendFails, CheckParcel, CheckUpload,
     StartCommit, CommitReturns, CommitReplyLost, ClientCommit, Release, ReleaseLost,
     ForceClean
<1>3. ASSUME NEW p \in Proc, Server(p) \/ ServerKilled(p) PROVE faults' = faults
  BY <1>1, <1>3 DEF Server, ServerKilled
<1> QED BY <1>2, <1>3 DEF Next, vars

\* Every step preserves the invariant.
LEMMA CalmStep ==
  ASSUME IInv, CalmInv, [Next]_vars
  PROVE  CalmInv'
<1> SUFFICES ASSUME faults' = 0 PROVE Calm'
  BY DEF CalmInv
<1>1. ~Fault
  BY FaultCounts
<1>2. faults = 0
  BY FaultsStay
<1>3. Calm
  BY <1>2 DEF CalmInv
<1>4. ASSUME NEW p \in Proc, Server(p) \/ ServerKilled(p) PROVE Calm'
  BY <1>1, <1>3, <1>4, ServerCalm DEF ServerKilled
<1>5. ASSUME NEW c \in Client, ClientStep(c) PROVE Calm'
  BY <1>3, <1>5, ClientStepCalm
<1>6. CASE UNCHANGED vars
  BY <1>3, <1>6, CalmSame
<1> QED BY <1>4, <1>5, <1>6 DEF Next

\* At first version 1 is there, with all its chunks, and nobody has the lock.
LEMMA InitCalm ==
  ASSUME Init
  PROVE  CalmInv
<1>1. PICK r \in Keyring :
        /\ tree = [v \in Version |->
             IF v = 1 THEN [cfg |-> TRUE, keyring |-> r, dirs |-> Dir, file |-> r] ELSE None]
        /\ committed = [v \in Version |-> IF v = 1 THEN [by |-> None, disk |-> r] ELSE None]
  BY DEF Init, StoreInit
<1>2. 1 \in Version /\ \A v \in Version : ~(v < 1) /\ (v =< 1 => v = 1) /\ (v > 1 => v # 1)
  BY Bounds, SMTT(20) DEF Version
<1>3. r \in [Chunk -> Tag \cup {None}]
  BY DEF Keyring
<1> DEFINE D == Dir
           first == [cfg |-> TRUE, keyring |-> r, dirs |-> D, file |-> r]
           made == [by |-> None, disk |-> r]
<1>4. first # None /\ made # None
  <2>1. first \in Tree
    BY <1>3 DEF Tree
  <2>2. made \in Record
    BY <1>3 DEF Record
  <2> QED BY <2>1, <2>2, NoneApart
<1>5. /\ tree = [v \in Version |-> IF v = 1 THEN first ELSE None]
      /\ committed = [v \in Version |-> IF v = 1 THEN made ELSE None]
  BY <1>1
<1> HIDE DEF D
<1>6. /\ first.cfg /\ first.keyring = r /\ first.dirs = D /\ first.file = r /\ made.disk = r
  OBVIOUS
<1> HIDE DEF first, made
<1>7. /\ tree[1] = first /\ committed[1] = made
      /\ \A v \in Version : v # 1 => tree[v] = None
  BY <1>2, <1>5
<1>8. Stored(1)
  BY <1>4, <1>6, <1>7 DEF Stored
<1>9. Chain(1) /\ Newest(1)
  BY <1>2, <1>7, <1>8 DEF Chain, Newest
<1>10. Full(1)
  BY <1>6, <1>7 DEF Full, D
<1>11. last = 1
  BY DEF Init, StoreInit
<1>12. Settled(last)
  BY <1>2, <1>9, <1>10, <1>11 DEF Settled
<1>13. \A p \in Proc : ~Running(p)
  <2>1. Idle.pc = "idle"
    BY SMTT(20) DEF Idle
  <2>2. \A p \in Proc : proc[p].pc = "idle"
    BY <2>1 DEF Init, StoreInit
  <2> QED BY <2>2 DEF Running, RollbackPc, CommitPc
<1>14. \A c \in Client : /\ stage[c] = "away" /\ nonce[c] = None /\ ~clean[c]
                         /\ upload[c] = None /\ job[c] = None
  BY DEF Init
<1>15. \A c \in Client : ~Holder(c) /\ Alone(c) /\ Session(c)
  BY <1>14 DEF Holder, Waiting, Alone, Session
<1> QED BY <1>12, <1>13, <1>15 DEF CalmInv, Calm, Runs

\* As long as nothing has failed, one client at a time has a session, at most one
\* program of srv_commit.pm or srv_rollback.pm runs, it runs for that client, and
\* what it has moved and copied so far is as its place in the program says.
THEOREM CalmInvariant == Spec => []CalmInv
<1>1. Init => CalmInv
  BY InitCalm
<1>2. IInv /\ CalmInv /\ [Next]_vars => CalmInv'
  BY CalmStep
<1> QED BY <1>1, <1>2, ParcelInvariant, PTL DEF Spec

\* A parcel with the clean-cache flag, which isr checkin releases without an
\* upload, is the newest version of the server (CleanIsStored), for any number of
\* chunks, versions and clients.
THEOREM CleanParcelsAreStored == Spec => []CleanIsStored
<1>1. ASSUME IInv, CalmInv PROVE CleanIsStored
  <2> SUFFICES ASSUME NEW c \in Client, faults = 0, clean[c] PROVE Restored(last) = keyring[c]
    BY DEF CleanIsStored
  <2>1. Calm
    BY <1>1 DEF CalmInv
  <2>2. stage[c] = "out" /\ keyring[c] = tree[last].keyring
    BY <2>1 DEF Calm, Session
  <2>3. Holder(c) /\ ~Waiting(c)
    BY <2>2 DEF Holder, Waiting
  <2>4. Settled(last)
    BY <2>1, <2>3, HolderQuiet
  <2>5. last \in Version
    BY <2>4 DEF Settled
  <2> QED BY <1>1, <2>2, <2>4, <2>5, SettledRestored DEF IInv
<1> QED BY <1>1, ParcelInvariant, CalmInvariant, PTL

\* A sync succeeds when nothing fails (SyncSucceeds): no check of checkparcel and
\* no test of srv_commit.pm refuses what copy_dirtychunks() has made, for any
\* number of chunks and directories, after any commits and rollbacks before it.
THEOREM SyncsSucceed == Spec => SyncSucceeds
<1>1. ASSUME IInv, CalmInv, [Next]_vars
      PROVE  [\A c \in Client :
                /\ faults' = 0
                /\ stage[c] \in {"uploaded", "checked", "prechecked", "committing", "committed"}
                => stage'[c] # "out" \/ clean'[c]]_vars
  <2> SUFFICES ASSUME NEW c \in Client, faults' = 0, Next,
                 stage[c] \in {"uploaded", "checked", "prechecked", "committing", "committed"}
               PROVE  stage'[c] # "out" \/ clean'[c]
    BY <1>1
  <2>1. Calm /\ ~Fault /\ Clients
    BY <1>1, FaultsStay, FaultCounts, Parts DEF CalmInv
  <2>2. ASSUME NEW p \in Proc, Server(p) \/ ServerKilled(p) PROVE stage'[c] = stage[c]
    BY <2>2 DEF Server, ServerKilled, clientvars
  <2>3. ASSUME NEW d \in Client, d # c, ClientStep(d) PROVE stage'[c] = stage[c]
    <3>1. stage' = stage \/ \E s : ToStage(d, s)
      BY <2>1, <2>3 DEF ClientStep, Checkout, NonceLost, Fetch, StartRollback,
         RollbackReturns, RollbackReplyLost, Run, Send, SendFails, CheckParcel, CheckUpload,
         StartCommit, CommitReturns, CommitReplyLost, ClientCommit, Release, ReleaseLost,
         ForceClean, Clean, Erased
    <3> QED BY <2>1, <2>3, <3>1 DEF ToStage, Clients
  <2>4. ASSUME ClientStep(c) PROVE stage'[c] # "out" \/ clean'[c]
    <3>1. \/ CheckParcel(c) \/ CheckUpload(c) \/ (\E p \in Proc : StartCommit(c, p))
          \/ CommitReturns(c) \/ ClientCommit(c)
      BY <2>1, <2>4 DEF ClientStep, Checkout, NonceLost, Fetch, StartRollback,
         RollbackReturns, RollbackReplyLost, Run, Send, SendFails, CommitReplyLost, Release,
         ReleaseLost, ForceClean
    <3>2. ASSUME NEW p \in Proc, StartCommit(c, p) PROVE stage'[c] = "committing"
      BY <2>1, <3>2 DEF StartCommit, ToStage, Clients
    <3> QED BY <1>1, <2>1, <3>1, <3>2, CheckCalm, CommitReturnsCalm, ClientCommitCalm
  <2> QED BY <2>2, <2>3, <2>4 DEF Next
<1> QED BY <1>1, ParcelInvariant, CalmInvariant, PTL DEF Spec, SyncSucceeds

\* The newest version of a settled parcel can be put together.
NewestWhole == Settled(last) => Restored(LastVersion) = tree[last].keyring

\* What a rollback has stored when it ends without an error.
LEMMA RollbackEnds ==
  ASSUME StoreInv, NEW p \in Proc, At(p), Aimed(p), proc[p].nonce = lock, ScriptStep(p),
         proc'[p].pc = "ok", proc[p].target # None, committed[proc[p].target] # None
  PROVE  Settled(last)' /\ tree'[last'].keyring = committed[proc[p].target].disk
<1>1. Advances(p) /\ Running(p)
  BY ScriptAdvances, OneProgram
<1>2. ~Running(p)'
  BY DEF Running, RollbackPc, CommitPc
<1>3. Settled(last)'
  BY <1>1, <1>2 DEF Advances
<1>4. CASE proc[p].pc \in CommitPc
  BY <1>1, <1>2, <1>3, <1>4 DEF Advances, Aimed
<1>5. CASE proc[p].pc \notin CommitPc
  <2>1. Rollback(p)
    BY <1>5 DEF ScriptStep, Commit, CheckNonce, Scan, MakeNext, MoveHdk, MakeHdk, MoveCfg,
       MoveKeyring, EnterDir, MoveOld, MoveNew, UnlinkLast, LinkLast, RemoveUploads, CommitPc
  <2>2. \A l : Goto(p, l) => l = "ok"
    BY GoesOn DEF StoreInv
  <2>3. \A l : Exit(p, l) => l = "ok"
    BY Ended DEF StoreInv
  <2>4. ~Fails(p) /\ ~RollbackNonce(p) /\ ~MakeCache(p)
    BY <2>2, <2>3 DEF Fails, RollbackNonce, MakeCache
  <2>5. ~CopyVersion(p)
    <3>1. SUFFICES ASSUME CopyVersion(p) PROVE FALSE
      OBVIOUS
    <3>2. \E v : \E l \in {"copyfiles", "copy"} :
            Become(p, [proc[p] EXCEPT !.version = v, !.pc = l])
      BY <2>4, <3>1 DEF CopyVersion
    <3>3. PICK v : \E l \in {"copyfiles", "copy"} :
            /\ proc'[p] = [proc[p] EXCEPT !.version = v, !.pc = l]
            /\ proc[p] \in Process
      BY <3>2, Becomes DEF StoreInv
    <3> QED BY <3>3 DEF Process
  <2>6. ~CopyFiles(p)
    <3>1. SUFFICES ASSUME CopyFiles(p) PROVE FALSE
      OBVIOUS
    <3>2. Become(p, [Idle EXCEPT !.pc = "nonce", !.nonce = proc[p].nonce,
                                 !.target = proc[p].target])
      BY <2>4, <3>1 DEF CopyFiles
    <3>3. proc'[p] = [Idle EXCEPT !.pc = "nonce", !.nonce = proc[p].nonce,
                                  !.target = proc[p].target]
      BY <3>2, Becomes DEF StoreInv
    <3>4. proc'[p].pc = "nonce"
      BY <3>3, SMTT(20) DEF Idle
    <3> QED BY <3>4, SMTT(20)
  <2>7. RollbackTarget(p)
    BY <2>1, <2>4, <2>5, <2>6 DEF Rollback
  <2>8. proc[p].target = LastVersion /\ UNCHANGED <<tree, last, committed>>
    <3>1. SUFFICES ASSUME ~(proc[p].target = LastVersion /\ UNCHANGED <<tree, last, committed>>)
                   PROVE FALSE
      OBVIOUS
    <3>2. \E v, t, d : Become(p, [proc[p] EXCEPT !.pc = "mkcache", !.lastver = v,
                                                 !.version = t, !.diffs = d])
      BY <2>4, <2>7, <3>1 DEF RollbackTarget
    <3>3. PICK v, t, d : Become(p, [proc[p] EXCEPT !.pc = "mkcache", !.lastver = v,
                                                   !.version = t, !.diffs = d])
      BY <3>2
    <3>4. /\ proc'[p] = [proc[p] EXCEPT !.pc = "mkcache", !.lastver = v,
                                        !.version = t, !.diffs = d]
          /\ proc[p] \in Process
      BY <3>3, Becomes DEF StoreInv
    <3>5. proc'[p].pc = "mkcache"
      BY <3>4 DEF Process
    <3> QED BY <3>5, SMTT(20)
  <2>9. Settled(last)
    BY <2>7 DEF RollbackTarget, At
  <2>10. last \in Version /\ LastVersion = last
    BY <2>9, SettledLast DEF Settled
  <2>11. Stored(last)
    BY <2>9, <2>10, VersionFacts DEF Settled, Chain
  <2> QED BY <1>3, <2>8, <2>10, <2>11 DEF Stored
<1> QED BY <1>3, <1>4, <1>5

\* A rollback restores its target (RollbackRestores): however many versions
\* srv_rollback.pm has to gather the chunks from, the version that is the newest
\* one when it ends without an error is what the target was.
THEOREM RollbacksRestore == Spec => RollbackRestores
<1>1. IInv => NewestWhole
  <2> SUFFICES ASSUME IInv, Settled(last) PROVE Restored(LastVersion) = tree[last].keyring
    BY DEF NewestWhole
  <2>1. StoreInv /\ last \in Version
    BY DEF IInv, Settled
  <2>2. LastVersion = last /\ Restored(last) = tree[last].keyring
    BY <2>1, SettledLast, SettledRestored
  <2> QED BY <2>2
<1>2. ASSUME IInv, CalmInv, NewestWhole', [Next]_vars
      PROVE  [\A p \in Proc :
                /\ faults = 0
                /\ proc[p].target # None /\ committed[proc[p].target] # None
                /\ proc[p].pc # "ok" /\ proc'[p].pc = "ok"
                => Restored(LastVersion)' = committed[proc[p].target].disk]_vars
  <2> SUFFICES ASSUME NEW p \in Proc, faults = 0, Next,
                 proc[p].target # None, committed[proc[p].target] # None,
                 proc[p].pc # "ok", proc'[p].pc = "ok"
               PROVE  Restored(LastVersion)' = committed[proc[p].target].disk
    BY <1>2
  <2>1. Calm /\ StoreInv /\ TypeOK
    BY <1>2 DEF CalmInv, IInv, StoreInv
  <2>2. ~\E c \in Client : ClientStep(c)
    <3>1. SUFFICES ASSUME NEW c \in Client, ClientStep(c) PROVE FALSE
      OBVIOUS
    <3>2. \/ proc' = proc
          \/ \E q \in Proc, l \in {"locked", "nonce"}, t \in Version \cup {None} :
               Start(q, l, nonce[c], t)
      BY <3>1 DEF ClientStep, Checkout, NonceLost, Acquire, Fetch, StartRollback,
         RollbackReturns, RollbackReplyLost, Run, Send, SendFails, CheckParcel, CheckUpload,
         StartCommit, CommitReturns, CommitReplyLost, ClientCommit, Release, ReleaseLost,
         ForceClean, Clean, storevars
    <3>3. PICK q \in Proc, l \in {"locked", "nonce"}, t \in Version \cup {None} :
            Start(q, l, nonce[c], t)
      BY <3>2
    <3>4. p = q
      BY <2>1, <3>3 DEF Start, Become, TypeOK
    <3>5. proc'[p] = [Idle EXCEPT !.pc = l, !.nonce = nonce[c], !.target = t]
      BY <2>1, <3>3, <3>4, Becomes DEF Start
    <3>6. proc'[p].pc = l
      BY <3>5, SMTT(20) DEF Idle
    <3> QED BY <3>3, <3>6
  <2>3. PICK q \in Proc : Server(q) \/ ServerKilled(q)
    BY <2>2 DEF Next
  <2>4. ~ServerKilled(q)
    <3>1. SUFFICES ASSUME ServerKilled(q) PROVE FALSE
      OBVIOUS
    <3>2. Exit(q, "failed")
      BY <3>1 DEF ServerKilled, Killed, Fails
    <3>3. proc'[q].pc = "failed"
      BY <2>1, <3>2, Ended
    <3>4. p # q
      BY <3>3, SMTT(20)
    <3> QED BY <2>1, <3>2, <3>4 DEF Exit, Become, TypeOK
  <2>5. ScriptStep(q)
    BY <2>3, <2>4 DEF Server
  <2>6. q = p /\ Running(p)
    BY <2>1, <2>5, OneProgram
  <2>7. proc[p].nonce = lock /\ At(p) /\ Aimed(p)
    BY <2>1, <2>6 DEF Calm, Runs
  <2>8. Settled(last)' /\ tree'[last'].keyring = committed[proc[p].target].disk
    BY <2>1, <2>5, <2>6, <2>7, RollbackEnds
  <2> QED BY <1>2, <2>8 DEF NewestWhole
<1> QED BY <1>1, <1>2, ParcelInvariant, CalmInvariant, PTL DEF Spec, RollbackRestores

=============================================================================
