---------------------------- MODULE ParcelStore -----------------------------
(***************************************************************************)
(* The parcel directory on the server and the programs that change it      *)
(* (locksrv/srv_lock.pm, srv_commit.pm, srv_rollback.pm), with the check   *)
(* of srv_checkparcel.pm.                                                  *)
(*                                                                         *)
(* The newest version directory holds every chunk; an older one holds only *)
(* the chunks that its successor changed.  A commit makes the next version *)
(* out of the newest one and an upload by renaming files one at a time.    *)
(* Each system call that changes the directory is a step here, and a       *)
(* program can be killed between any two of them.                          *)
(*                                                                         *)
(* The contents of a chunk file are its tag, the hash of the encrypted     *)
(* chunk, and a keyring is the tag of every chunk.                         *)
(***************************************************************************)
EXTENDS Naturals, FiniteSets, FiniteSetsExt

CONSTANTS
  NumChunks,      \* NUMCHUNKS of parcel.cfg
  ChunksPerDir,   \* CHUNKSPERDIR of parcel.cfg
  Tag,            \* contents of chunks
  Proc,           \* processes of isr_runserv
  MaxVersion,     \* bound on the version numbers
  MaxNonce,       \* bound on the number of checkouts
  None

ASSUME Geometry == NumChunks \in Nat \ {0} /\ ChunksPerDir \in Nat \ {0}
ASSUME Bounds == MaxVersion \in Nat \ {0} /\ MaxNonce \in Nat

Chunk == 0 .. (NumChunks - 1)
NumDirs == (NumChunks + ChunksPerDir - 1) \div ChunksPerDir
Dir == 0 .. (NumDirs - 1)
DirOf(k) == k \div ChunksPerDir

Version == 1 .. MaxVersion
Nonce == 1 .. MaxNonce
Keyring == [Chunk -> Tag]

\* A directory with cfg.tgz.enc, keyring.enc and hdk; dirs is None if there is
\* no hdk, and otherwise the subdirectories of hdk.
Tree == [cfg : BOOLEAN, keyring : Keyring \cup {None},
         dirs : (SUBSET Dir) \cup {None}, file : [Chunk -> Tag \cup {None}]]

\* A committed version: the session that made it, and its disk.
Record == [by : Nonce \cup {None}, disk : [Chunk -> Tag \cup {None}]]

ASSUME NoneApart == /\ None \notin Tag /\ None \notin Nat
                    /\ None \notin Keyring /\ \A s \in SUBSET Dir : s # None
                    /\ None \notin Tree /\ None \notin Record

NoFiles == [k \in Chunk |-> None]
EmptyDir == [cfg |-> FALSE, keyring |-> None, dirs |-> None, file |-> NoFiles]

VARIABLES
  tree,       \* the version directories
  last,       \* the version the symbolic link last refers to, or None
  cache,      \* the directories under cache/, by nonce
  lock,       \* the nonce in the LOCK file, or None if there is no such file
  nonces,     \* the nonces given out
  proc,       \* the processes of commit and rollback
  committed   \* history: who made each version, and what it held when last was
              \* set to it

storevars == <<tree, last, cache, lock, nonces, proc, committed>>

\* A process: its program counter, its arguments and its variables.  The target
\* is None in a commit that no rollback has started.
Idle == [pc |-> "idle", nonce |-> None, target |-> None, lastver |-> None,
         version |-> None, diffs |-> {}, dir |-> 0, todo |-> {}]

RollbackPc == {"locked", "target", "mkcache", "copy", "copyfiles"}
CommitPc == {"nonce", "scan", "mkdir", "hdk", "mkhdk", "cfg", "keyring", "dir",
             "old", "new", "unlink", "link", "rm"}
Process ==
  [pc : RollbackPc \cup CommitPc \cup {"idle", "ok", "failed"},
   nonce : Nonce \cup {None}, target : Version \cup {None},
   lastver : Version \cup {None}, version : Version \cup {None},
   diffs : SUBSET Chunk, dir : 0 .. NumDirs, todo : SUBSET Chunk]
Running(p) == proc[p].pc \in RollbackPc \cup CommitPc

TypeOK ==
  /\ tree \in [Version -> Tree \cup {None}]
  /\ last \in Version \cup {None}
  /\ cache \in [Nonce -> Tree \cup {None}]
  /\ lock \in Nonce \cup {None}
  /\ nonces \in 0 .. MaxNonce
  /\ proc \in [Proc -> Process]
  /\ committed \in [Version -> Record \cup {None}]

-----------------------------------------------------------------------------
(* The directory                                                           *)

\* The largest number that is the name of a directory.
LastVersion == Max({v \in Version : tree[v] # None})

HasHdk(t) == t # None /\ t.dirs # None
HasDir(t, d) == HasHdk(t) /\ d \in t.dirs
Whole(t) == HasHdk(t) /\ t.cfg /\ t.keyring # None
FilesIn(t, d) == {k \in Chunk : DirOf(k) = d /\ t.file[k] # None}

Differing(r, s) == {k \in Chunk : r[k] # s[k]}

File(v, k) == IF tree[v] = None THEN None ELSE tree[v].file[k]

\* The disk of version v: a chunk that is not in v has not changed since, so it
\* is in the oldest later version that has it.
Having(v, k) == {w \in v .. MaxVersion : File(w, k) # None}
Restored(v) ==
  [k \in Chunk |->
     IF Having(v, k) = {} THEN None ELSE File(Min(Having(v, k)), k)]

\* checkparcel, without -c: pred is the version before last, or an upload (-s).
Consistent(pred) ==
  /\ last = LastVersion
  /\ HasHdk(tree[last]) /\ tree[last].keyring # None
  /\ \A k \in Chunk : tree[last].file[k] # None
  /\ pred # None =>
       /\ pred.keyring # None
       /\ {k \in Chunk : pred.file[k] # None} =
            Differing(pred.keyring, tree[last].keyring)

ParcelConsistent ==
  last # None /\ Consistent(IF last = 1 THEN None ELSE tree[last - 1])
UploadConsistent(n) ==
  last # None /\ cache[n] # None /\ Consistent(cache[n])

-----------------------------------------------------------------------------
(* A process                                                               *)

Become(p, s) == proc' = [proc EXCEPT ![p] = s]
Goto(p, label) == proc' = [proc EXCEPT ![p].pc = label]

\* The process ends with this exit status, and forgets its variables.
Exit(p, status) == Become(p, [Idle EXCEPT !.pc = status])

\* A system call that fails ends the process (errexit).
Fails(p) ==
  /\ Exit(p, "failed")
  /\ UNCHANGED <<tree, last, cache, lock, nonces, committed>>

\* A process that dies on a signal, or with the machine.
Killed(p) ==
  /\ Running(p)
  /\ Fails(p)

-----------------------------------------------------------------------------
(* srv_lock.pm                                                             *)

Acquire ==
  /\ lock = None
  /\ nonces < MaxNonce
  /\ nonces' = nonces + 1
  /\ lock' = nonces + 1
  /\ UNCHANGED <<tree, last, cache, proc, committed>>

\* -r: the nonce has to be the one in the file.
SoftReleased(n) == IF lock = n THEN None ELSE lock

\* -C
NonceMatches(n) == lock = n

-----------------------------------------------------------------------------
(* srv_commit.pm                                                           *)

Upload(p) == cache[proc[p].nonce]
Lastver(p) == proc[p].lastver
Nextver(p) == proc[p].lastver + 1

CheckNonce(p) ==
  /\ proc[p].pc = "nonce"
  /\ IF NonceMatches(proc[p].nonce)
     THEN /\ Goto(p, "scan")
          /\ UNCHANGED <<tree, last, cache, lock, nonces, committed>>
     ELSE Fails(p)

\* The newest version is found, and all that is needed is there.
Scan(p) ==
  /\ proc[p].pc = "scan"
  /\ IF Whole(Upload(p)) /\ Whole(tree[LastVersion])
     THEN /\ Become(p, [proc[p] EXCEPT !.pc = "mkdir", !.lastver = LastVersion])
          /\ UNCHANGED <<tree, last, cache, lock, nonces, committed>>
     ELSE Fails(p)

MakeNext_Tolerant(p) ==
  /\ proc[p].pc = "mkdir"
  /\ Lastver(p) < MaxVersion
  /\ tree' = [tree EXCEPT ![Nextver(p)] = IF @ = None THEN EmptyDir ELSE @]
  /\ Goto(p, "hdk")
  /\ UNCHANGED <<last, cache, lock, nonces, committed>>

MakeNext(p) ==
  /\ proc[p].pc = "mkdir"
  /\ Lastver(p) < MaxVersion
  /\ IF tree[Nextver(p)] = None
     THEN /\ tree' = [tree EXCEPT ![Nextver(p)] = EmptyDir]
          /\ Goto(p, "hdk")
          /\ UNCHANGED <<last, cache, lock, nonces, committed>>
     ELSE Fails(p)

MoveHdk(p) ==
  /\ proc[p].pc = "hdk"
  /\ IF HasHdk(tree[Lastver(p)])
     THEN /\ tree' = [tree EXCEPT
               ![Nextver(p)] = [@ EXCEPT !.dirs = tree[Lastver(p)].dirs,
                                         !.file = tree[Lastver(p)].file],
               ![Lastver(p)] = [@ EXCEPT !.dirs = None, !.file = NoFiles]]
          /\ Goto(p, "mkhdk")
          /\ UNCHANGED <<last, cache, lock, nonces, committed>>
     ELSE Fails(p)

MakeHdk(p) ==
  /\ proc[p].pc = "mkhdk"
  /\ IF ~HasHdk(tree[Lastver(p)])
     THEN /\ tree' = [tree EXCEPT ![Lastver(p)].dirs = {}]
          /\ Goto(p, "cfg")
          /\ UNCHANGED <<last, cache, lock, nonces, committed>>
     ELSE Fails(p)

MoveCfg(p) ==
  /\ proc[p].pc = "cfg"
  /\ IF Upload(p) # None /\ Upload(p).cfg
     THEN /\ tree' = [tree EXCEPT ![Nextver(p)].cfg = TRUE]
          /\ cache' = [cache EXCEPT ![proc[p].nonce].cfg = FALSE]
          /\ Goto(p, "keyring")
          /\ UNCHANGED <<last, lock, nonces, committed>>
     ELSE Fails(p)

MoveKeyring(p) ==
  /\ proc[p].pc = "keyring"
  /\ IF Upload(p) # None /\ Upload(p).keyring # None
     THEN /\ tree' = [tree EXCEPT ![Nextver(p)].keyring = Upload(p).keyring]
          /\ cache' = [cache EXCEPT ![proc[p].nonce].keyring = None]
          /\ Goto(p, "dir")
          /\ UNCHANGED <<last, lock, nonces, committed>>
     ELSE Fails(p)

\* The chunks to move that are listed in a directory of the upload.
Listed(p, d) == IF HasDir(Upload(p), d) THEN FilesIn(Upload(p), d) ELSE {}

DirsDone_LastForgotten(d) == d >= NumDirs - 1
DirsDone(d) == d = NumDirs
PassOver(d) == d + 1

\* The directories of the upload are taken one after another, those without
\* files are passed over.
EnterDir(p) ==
  /\ proc[p].pc = "dir"
  /\ LET d     == proc[p].dir
         files == Listed(p, d)
     IN  CASE DirsDone(d) ->
                /\ Goto(p, "unlink")
                /\ UNCHANGED <<tree, last, cache, lock, nonces, committed>>
           [] ~DirsDone(d) /\ files = {} ->
                /\ Become(p, [proc[p] EXCEPT !.dir = PassOver(d)])
                /\ UNCHANGED <<tree, last, cache, lock, nonces, committed>>
           [] ~DirsDone(d) /\ files # {} /\ HasHdk(tree[Lastver(p)]) /\ ~HasDir(tree[Lastver(p)], d) ->
                /\ tree' = [tree EXCEPT ![Lastver(p)].dirs = @ \cup {d}]
                /\ Become(p, [proc[p] EXCEPT !.pc = "old", !.todo = files])
                /\ UNCHANGED <<last, cache, lock, nonces, committed>>
           [] OTHER -> Fails(p)

MoveOld_Skipped(p) ==
  /\ proc[p].pc = "old"
  /\ Goto(p, "new")
  /\ UNCHANGED <<tree, last, cache, lock, nonces, committed>>

\* "Move the about-be-overwritten chunk from next to last"
MoveOld(p) ==
  /\ proc[p].pc = "old"
  /\ LET k == Min(proc[p].todo)
     IN  IF /\ tree[Nextver(p)].file[k] # None
            /\ HasDir(tree[Lastver(p)], DirOf(k))
         THEN /\ tree' = [tree EXCEPT
                   ![Lastver(p)].file[k] = tree[Nextver(p)].file[k],
                   ![Nextver(p)].file[k] = None]
              /\ Goto(p, "new")
              /\ UNCHANGED <<last, cache, lock, nonces, committed>>
         ELSE Fails(p)

\* "Move the new chunk from cache to next"
MoveNew(p) ==
  /\ proc[p].pc = "new"
  /\ LET k    == Min(proc[p].todo)
         rest == proc[p].todo \ {k}
     IN  IF /\ Upload(p) # None /\ Upload(p).file[k] # None
            /\ HasDir(tree[Nextver(p)], DirOf(k))
         THEN /\ tree' = [tree EXCEPT ![Nextver(p)].file[k] = Upload(p).file[k]]
              /\ cache' = [cache EXCEPT ![proc[p].nonce].file[k] = None]
              /\ Become(p, IF rest = {}
                           THEN [proc[p] EXCEPT !.pc = "dir", !.todo = {},
                                                !.dir = @ + 1]
                           ELSE [proc[p] EXCEPT !.pc = "old", !.todo = rest])
              /\ UNCHANGED <<last, lock, nonces, committed>>
         ELSE Fails(p)

UnlinkLast(p) ==
  /\ proc[p].pc = "unlink"
  /\ IF last # None
     THEN /\ last' = None
          /\ Goto(p, "link")
          /\ UNCHANGED <<tree, cache, lock, nonces, committed>>
     ELSE Fails(p)

LinkLast(p) ==
  /\ proc[p].pc = "link"
  /\ IF last = None
     THEN /\ last' = Nextver(p)
          /\ committed' = [committed EXCEPT ![Nextver(p)] =
               [by |-> proc[p].nonce, disk |-> Restored(Nextver(p))]]
          /\ Goto(p, "rm")
          /\ UNCHANGED <<tree, cache, lock, nonces>>
     ELSE Fails(p)

\* "Remove old partial uploads that may still be hanging around"
RemoveUploads(p) ==
  /\ proc[p].pc = "rm"
  /\ cache' = [n \in Nonce |-> None]
  /\ Exit(p, "ok")
  /\ UNCHANGED <<tree, last, lock, nonces, committed>>

Commit(p) ==
  \/ CheckNonce(p) \/ Scan(p)
  \/ MakeNext(p) \/ MoveHdk(p) \/ MakeHdk(p) \/ MoveCfg(p) \/ MoveKeyring(p)
  \/ EnterDir(p) \/ MoveOld(p) \/ MoveNew(p)
  \/ UnlinkLast(p) \/ LinkLast(p) \/ RemoveUploads(p)

-----------------------------------------------------------------------------
(* srv_rollback.pm, run with the nonce of the client (-N)                  *)

RollbackNonce(p) ==
  /\ proc[p].pc = "locked"
  /\ IF NonceMatches(proc[p].nonce)
     THEN /\ Goto(p, "target")
          /\ UNCHANGED <<tree, last, cache, lock, nonces, committed>>
     ELSE Fails(p)

\* The chunks that differ are found by comparing the keyring of the target with
\* that of the newest version.
RollbackTarget(p) ==
  /\ proc[p].pc = "target"
  /\ LET t == proc[p].target
         v == LastVersion
     IN  CASE t = v ->
                /\ Exit(p, "ok")
                /\ UNCHANGED <<tree, last, cache, lock, nonces, committed>>
           [] t # v /\ tree[t] # None /\ tree[t].keyring # None /\ tree[v].keyring # None ->
                /\ Become(p, [proc[p] EXCEPT !.pc = "mkcache", !.lastver = v,
                     !.version = t,
                     !.diffs = Differing(tree[t].keyring, tree[v].keyring)])
                /\ UNCHANGED <<tree, last, cache, lock, nonces, committed>>
           [] OTHER -> Fails(p)

MakeCache(p) ==
  /\ proc[p].pc = "mkcache"
  /\ cache' = [cache EXCEPT ![proc[p].nonce] = [EmptyDir EXCEPT !.dirs = {}]]
  /\ Goto(p, "copy")
  /\ UNCHANGED <<tree, last, lock, nonces, committed>>

MustCopy_Newest(p, k) == k \in proc[p].diffs

\* A chunk is copied if there is no copy of it yet and its tag differs.
MustCopy(p, k) == Upload(p).file[k] = None /\ k \in proc[p].diffs

Found(p) == {k \in Chunk : tree[proc[p].version].file[k] # None}

\* The upload directory with the chunks of one more version.
Copied(p) ==
  [cfg |-> Upload(p).cfg, keyring |-> Upload(p).keyring,
   dirs |-> Upload(p).dirs \cup {DirOf(k) : k \in Found(p)},
   file |-> [k \in Chunk |-> IF k \in Found(p) /\ MustCopy(p, k)
                             THEN tree[proc[p].version].file[k]
                             ELSE Upload(p).file[k]]]

\* One version of the main loop.
CopyVersion(p) ==
  /\ proc[p].pc = "copy"
  /\ LET after == proc[p].version + 1
     IN  IF HasHdk(tree[proc[p].version]) /\ (Found(p) # {} => HasHdk(Upload(p)))
         THEN /\ cache' = IF Found(p) = {} THEN cache
                          ELSE [cache EXCEPT ![proc[p].nonce] = Copied(p)]
              /\ Become(p, [proc[p] EXCEPT !.version = after,
                   !.pc = IF after = Lastver(p) THEN "copyfiles" ELSE "copy"])
              /\ UNCHANGED <<tree, last, lock, nonces, committed>>
         ELSE Fails(p)

\* The commit is started with the variables of a fresh process.
CopyFiles(p) ==
  /\ proc[p].pc = "copyfiles"
  /\ LET from == tree[proc[p].target]
     IN  IF Upload(p) # None /\ from # None /\ from.cfg /\ from.keyring # None
         THEN /\ cache' = [cache EXCEPT ![proc[p].nonce].cfg = TRUE,
                                        ![proc[p].nonce].keyring = from.keyring]
              /\ Become(p, [Idle EXCEPT !.pc = "nonce", !.nonce = proc[p].nonce,
                                        !.target = proc[p].target])
              /\ UNCHANGED <<tree, last, lock, nonces, committed>>
         ELSE Fails(p)

Rollback(p) ==
  \/ RollbackNonce(p) \/ RollbackTarget(p) \/ MakeCache(p) \/ CopyVersion(p)
  \/ CopyFiles(p)

ScriptStep(p) == Commit(p) \/ Rollback(p)

\* A parcel as isr_admin leaves it: version 1, with all its chunks.
StoreInit ==
  /\ \E r \in Keyring :
       LET first == [cfg |-> TRUE, keyring |-> r, dirs |-> Dir, file |-> r]
       IN  /\ tree = [v \in Version |-> IF v = 1 THEN first ELSE None]
           /\ committed = [v \in Version |->
                IF v = 1 THEN [by |-> None, disk |-> r] ELSE None]
  /\ last = 1
  /\ cache = [n \in Nonce |-> None]
  /\ lock = None
  /\ nonces = 0
  /\ proc = [p \in Proc |-> Idle]

\* A process starts in a slot that nobody waits for.
Start(p, label, n, t) ==
  Become(p, [Idle EXCEPT !.pc = label, !.nonce = n, !.target = t])

-----------------------------------------------------------------------------
(* Properties                                                              *)

\* A version is never lost or changed: whatever is killed, lost or forced
\* afterwards, putting version v together out of the version directories gives
\* the disk it had when srv_commit.pm set the link last to it.
VersionsKept ==
  \A v \in Version : committed[v] # None => Restored(v) = committed[v].disk

\* Every number is used once: no commit and no rollback writes to a version that
\* has been made, so that what srv_commit.pm has numbered stays that version.
CommittedOnce ==
  [][\A v \in Version : committed[v] # None => committed'[v] = committed[v]]_storevars

\* The processes that have found the newest version, those that have made the
\* next one, and those that have not given it a keyring yet.
BuildPc == {"hdk", "mkhdk", "cfg", "keyring"}
FillPc == {"dir", "old", "new", "unlink", "link"}
Scanned(p) == proc[p].pc \in {"mkdir"} \cup BuildPc \cup FillPc
Owner(p) == proc[p].pc \in BuildPc \cup FillPc
Building(p) == proc[p].pc \in BuildPc

\* The process has moved chunk k out of the next version, and not put the new
\* chunk there yet.
Replacing(p, k) == proc[p].pc = "new" /\ k = Min(proc[p].todo)

\* The process may still move chunk k out of the next version.
ToMove(p, k) ==
  \/ proc[p].pc \in {"mkhdk", "cfg", "keyring"}
  \/ proc[p].pc = "dir" /\ DirOf(k) >= proc[p].dir
  \/ proc[p].pc \in {"old", "new"} /\ DirOf(k) > proc[p].dir
  \/ proc[p].pc \in {"old", "new"} /\ k \in proc[p].todo /\ ~Replacing(p, k)

\* The arguments and variables of a process are those its program has set.
Sound(s) ==
  /\ s.pc \in RollbackPc \cup CommitPc => s.nonce \in Nonce
  /\ s.pc \in RollbackPc => s.target \in Version
  /\ s.pc \in {"mkcache", "copy"} =>
       /\ s.version \in Version /\ s.lastver \in Version
       /\ s.version < s.lastver
  /\ s.pc \in {"old", "new"} =>
       s.todo # {} /\ s.dir < NumDirs /\ \A k \in s.todo : DirOf(k) = s.dir
Arguments == \A p \in Proc : Sound(proc[p])

\* Versions are numbered without gaps.  A version belongs to one process at
\* most, and is not committed while it does.
Owned ==
  /\ tree[1] # None
  /\ \A v \in Version : committed[v] # None => tree[v] # None
  /\ \A v, w \in Version : v < w /\ tree[w] # None => tree[v] # None
  /\ \A p \in Proc : Scanned(p) => Lastver(p) \in Version /\ tree[Lastver(p)] # None
  /\ \A p \in Proc : Owner(p) =>
       /\ Nextver(p) \in Version
       /\ tree[Nextver(p)] # None
       /\ committed[Nextver(p)] = None
  /\ \A p, q \in Proc : Owner(p) /\ Owner(q) /\ p # q => Lastver(p) # Lastver(q)

\* A version that has been made and has no keyring yet is the newest one, nobody
\* commits on top of it, and it starts without chunks.
Unfinished ==
  \A p \in Proc : Building(p) =>
    /\ tree[Nextver(p)].keyring = None
    /\ \A q \in Proc : Scanned(q) => Lastver(q) # Nextver(p)
    /\ \A w \in Version : w > Nextver(p) => tree[w] = None
    /\ \A w \in Version, k \in Chunk :
         proc[p].pc = "hdk" /\ w = Nextver(p) => File(w, k) = None

\* Version v has chunk k, in a directory of its own or a later one, unless the
\* process that makes it is just replacing that chunk.
Anchored(v, k) ==
  \/ committed[v] # None
  \/ \E p \in Proc : /\ Owner(p) /\ proc[p].pc # "hdk"
                     /\ Nextver(p) = v
                     /\ ~Replacing(p, k)

\* While a process replaces a chunk, the old chunk is there for every version
\* that needs it.
OldKept ==
  \A p \in Proc, k \in Chunk, l \in Version :
    Replacing(p, k) /\ Lastver(p) = l =>
      \A v \in 1 .. l : Anchored(v, k) => \E w \in v .. l : File(w, k) # None

\* If a chunk comes back into the version meanwhile, it was brought by a commit
\* that has taken that version's chunks on to the next one.
Returned ==
  \A p \in Proc, k \in Chunk, l \in Version :
    Replacing(p, k) /\ Lastver(p) = l /\ l + 1 \in Version /\ File(l + 1, k) # None =>
      /\ l + 2 \in Version /\ tree[l + 2] # None
      /\ \A q \in Proc : proc[q].pc = "hdk" => Lastver(q) # l + 1

\* And a commit on top of it that has not come to this chunk has not got it.
NotAhead ==
  \A p, q \in Proc, k \in Chunk, l \in Version :
    Replacing(p, k) /\ Lastver(p) = l /\ ToMove(q, k) /\ Lastver(q) = l + 1 =>
      Having(l + 2, k) = {}

\* No chunk is moved onto another one.
NoOverwrite ==
  \A p \in Proc, k \in Chunk, l \in Version :
    ToMove(p, k) /\ Lastver(p) = l => File(l, k) = None \/ Having(l + 1, k) = {}

Handover == OldKept /\ Returned /\ NotAhead /\ NoOverwrite

StoreInv == TypeOK /\ Arguments /\ Owned /\ Unfinished /\ Handover /\ VersionsKept

=============================================================================
