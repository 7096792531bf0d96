------------------------- MODULE ParcelStoreProofs --------------------------
(***************************************************************************)
(* The version directories of a parcel.  Every step of the programs on the *)
(* server preserves the invariant of the store, so that no version is ever *)
(* lost; and what a program that is not disturbed has done at each of its  *)
(* steps: all those of a rollback, and those of a commit that build the    *)
(* directory of the next version.                                          *)
(***************************************************************************)
EXTENDS ParcelStore, WellFoundedInduction, TLAPS

\* A step that names no prover is one for Zenon.
USE ZenonT(30)

\* A set of natural numbers has a smallest one.
LEMMA MinFacts ==
  ASSUME NEW S \in SUBSET Nat, S # {}
  PROVE  Min(S) \in S /\ \A y \in S : Min(S) =< y
<1> DEFINE R == OpToRel(<, Nat)
<1>1. IsWellFoundedOn(R, Nat)
  BY NatLessThanWellFounded
<1>2. \A x, y \in Nat : y < x => <<y, x>> \in R
  BY SMTT(20) DEF OpToRel
<1> HIDE DEF R
<1>3. PICK x \in S : \A y \in S : ~(<<y, x>> \in R)
  BY <1>1, WFMin
<1>4. ASSUME NEW y \in S PROVE x =< y
  <2>1. x \in Nat /\ y \in Nat
    OBVIOUS
  <2>2. ~(y < x)
    BY <1>2, <1>3, <2>1
  <2> QED BY <2>1, <2>2, SMTT(20)
<1> QED BY <1>4 DEF Min

\* The directories of the parcel have a largest number.
LEMMA LastVersionFacts ==
  ASSUME TypeOK, tree[1] # None
  PROVE  /\ LastVersion \in Version
         /\ tree[LastVersion] # None
         /\ \A w \in Version : w > LastVersion => tree[w] = None
<1> DEFINE S == {v \in Version : tree[v] # None}
           T == {n \in Nat : n =< MaxVersion /\ MaxVersion - n \in S}
<1>1. 1 \in S
  BY Bounds, SMTT(20) DEF Version
<1>2. MaxVersion - 1 \in T
  BY <1>1, Bounds, SMTT(20) DEF Version
<1>3. Min(T) \in T /\ \A y \in T : Min(T) =< y
  BY <1>2, MinFacts
<1>4. PICK n \in T : \A y \in T : n =< y
  BY <1>3
<1>5. \A v \in S : v =< MaxVersion - n
  <2> TAKE v \in S
  <2>1. v \in Version
    OBVIOUS
  <2>2. MaxVersion - v \in T
    BY <2>1, Bounds, SMTT(20) DEF Version
  <2> QED BY <2>1, <2>2, <1>4, Bounds, SMTT(20) DEF Version
<1>6. MaxVersion - n \in S
  BY <1>4
<1>7. Max(S) \in S /\ \A y \in S : Max(S) >= y
  <2>1. \E x \in S : \A y \in S : x >= y
    BY <1>5, <1>6, Bounds DEF Version
  <2> QED BY <2>1 DEF Max
<1>8. \A w \in Version : w > Max(S) => w \notin S
  BY <1>7, Bounds, SMTT(20) DEF Version
<1> QED BY <1>7, <1>8 DEF LastVersion

-----------------------------------------------------------------------------
(* Types                                                                   *)

\* Every chunk is in one of the directories.
LEMMA DirFacts ==
  /\ NumDirs \in Nat \ {0}
  /\ \A k \in Chunk : DirOf(k) \in Dir
<1>1. NumDirs \in Nat \ {0}
  BY Geometry, SMTT(20) DEF NumDirs
<1>2. ASSUME NEW k \in Chunk PROVE DirOf(k) \in Dir
  <2>1. k \in Nat /\ k < NumChunks
    BY Geometry, SMTT(20) DEF Chunk
  <2> QED BY <2>1, Geometry, SMTT(20) DEF Dir, DirOf, NumDirs
<1> QED BY <1>1, <1>2

\* The directories that appear are directories.
LEMMA TreeFacts ==
  /\ EmptyDir \in Tree
  /\ NoFiles \in [Chunk -> Tag \cup {None}]
  /\ None \notin Tree
  /\ \A t \in Tree : /\ t.file \in [Chunk -> Tag \cup {None}]
                     /\ t.keyring \in Keyring \cup {None}
                     /\ t.dirs \in (SUBSET Dir) \cup {None}
BY NoneApart DEF EmptyDir, NoFiles, Tree

\* A process changes its own state only.
LEMMA BecomeFacts ==
  ASSUME TypeOK, Arguments, NEW p \in Proc, NEW s \in Process, Sound(s), Become(p, s)
  PROVE  /\ proc' \in [Proc -> Process] /\ Arguments'
         /\ proc'[p] = s
         /\ \A q \in Proc : q # p => proc'[q] = proc[q]
<1>1. proc \in [Proc -> Process] /\ proc' = [proc EXCEPT ![p] = s]
  BY DEF TypeOK, Become
<1>2. /\ proc' \in [Proc -> Process]
      /\ proc'[p] = s
      /\ \A q \in Proc : q # p => proc'[q] = proc[q]
  BY <1>1
<1>3. \A q \in Proc : Sound(proc'[q])
  BY <1>2 DEF Arguments
<1> QED BY <1>2, <1>3 DEF Arguments

\* A process that goes on with its variables.
LEMMA GotoFacts ==
  ASSUME TypeOK, NEW p \in Proc,
         NEW l \in RollbackPc \cup CommitPc \cup {"idle", "ok", "failed"}
  PROVE  /\ Goto(p, l) <=> Become(p, [proc[p] EXCEPT !.pc = l])
         /\ [proc[p] EXCEPT !.pc = l] \in Process
BY DEF TypeOK, Goto, Become, Process

\* Replacing one version directory.
LEMMA FileFacts ==
  ASSUME TypeOK, NEW v \in Version, NEW t \in Tree, tree' = [tree EXCEPT ![v] = t]
  PROVE  /\ tree' \in [Version -> Tree \cup {None}]
         /\ tree'[v] = t /\ t # None
         /\ \A w \in Version : w # v => tree'[w] = tree[w]
         /\ \A k \in Chunk : File(v, k)' = t.file[k]
         /\ \A w \in Version : w # v => \A k \in Chunk : File(w, k)' = File(w, k)
<1>1. tree \in [Version -> Tree \cup {None}]
  BY DEF TypeOK
<1>2. /\ tree' \in [Version -> Tree \cup {None}]
      /\ tree'[v] = t
      /\ \A w \in Version : w # v => tree'[w] = tree[w]
  BY <1>1
<1>3. t # None
  BY NoneApart
<1> QED BY <1>2, <1>3 DEF File

-----------------------------------------------------------------------------
(* The disk of a version                                                   *)

\* Version v has its chunk k from w.
First(v, w, k) == w \in Having(v, k) /\ \A u \in Having(v, k) : w =< u

\* The versions that have a chunk are versions.
LEMMA HavingFacts ==
  ASSUME NEW v \in Version, NEW k \in Chunk
  PROVE  /\ Having(v, k) \in SUBSET Version
         /\ Having(v, k)' \in SUBSET Version
         /\ Version \subseteq Nat
BY Bounds, SMTT(20) DEF Having, Version

\* If a later version has the chunk, there is a first one.
LEMMA FirstExists ==
  ASSUME NEW v \in Version, NEW k \in Chunk, Having(v, k) # {}
  PROVE  \E w \in Version : First(v, w, k)
<1>1. Having(v, k) \in SUBSET Nat
  BY HavingFacts
<1>2. Min(Having(v, k)) \in Having(v, k) /\ \A y \in Having(v, k) : Min(Having(v, k)) =< y
  BY <1>1, MinFacts
<1> QED BY <1>2, HavingFacts DEF First

\* A set has one smallest element.
LEMMA MinIs ==
  ASSUME NEW S \in SUBSET Nat, NEW x \in S, \A u \in S : x =< u
  PROVE  Min(S) = x
<1>1. Min(S) \in S /\ \A y \in S : Min(S) =< y
  BY MinFacts
<1>2. Min(S) \in Nat /\ x \in Nat /\ Min(S) =< x /\ x =< Min(S)
  BY <1>1
<1> QED BY <1>2, SMTT(20)

\* The disk of a version stays what it is if each chunk stays absent, or is
\* found with the same contents.
LEMMA RestoredTransfer ==
  ASSUME NEW v \in Version,
         \A k \in Chunk :
           \/ Having(v, k) = {} /\ Having(v, k)' = {}
           \/ \E w, x \in Version : /\ First(v, w, k) /\ First(v, x, k)'
                                    /\ File(w, k) = File(x, k)'
  PROVE  Restored(v)' = Restored(v)
<1> DEFINE old(k) == IF Having(v, k) = {} THEN None ELSE File(Min(Having(v, k)), k)
           new(k) == IF Having(v, k)' = {} THEN None ELSE File(Min(Having(v, k)), k)'
<1>1. ASSUME NEW k \in Chunk PROVE new(k) = old(k)
  <2>1. CASE Having(v, k) = {} /\ Having(v, k)' = {}
    BY <2>1
  <2>2. CASE \E w, x \in Version : /\ First(v, w, k) /\ First(v, x, k)'
                                   /\ File(w, k) = File(x, k)'
    <3>1. PICK w, x \in Version : /\ First(v, w, k) /\ First(v, x, k)'
                                  /\ File(w, k) = File(x, k)'
      BY <2>2
    <3>2. Having(v, k) \in SUBSET Nat /\ Having(v, k)' \in SUBSET Nat
      BY HavingFacts
    <3>3. w \in Having(v, k) /\ \A u \in Having(v, k) : w =< u
      BY <3>1 DEF First
    <3>4. x \in Having(v, k)' /\ \A u \in Having(v, k)' : x =< u
      BY <3>1 DEF First
    <3>5. Min(Having(v, k)) = w
      BY <3>2, <3>3, MinIs
    <3>6. Min(Having(v, k)') = x
      BY <3>2, <3>4, MinIs
    <3>7. File(Min(Having(v, k)), k)' = File(x, k)'
      BY <3>6 DEF File
    <3> QED BY <3>1, <3>3, <3>4, <3>5, <3>7
  <2> QED BY <2>1, <2>2
<1>2. Restored(v) = [k \in Chunk |-> old(k)]
  BY DEF Restored
<1>3. Restored(v)' = [k \in Chunk |-> new(k)]
  BY DEF Restored
<1> HIDE DEF old, new
<1> QED BY <1>1, <1>2, <1>3

-----------------------------------------------------------------------------
(* Steps that leave the chunks where they are                              *)

SameFiles == \A w \in Version, k \in Chunk : File(w, k)' = File(w, k)

\* Such a step leaves the disks of the versions what they are.
LEMMA RestoredSame ==
  ASSUME SameFiles, NEW v \in Version
  PROVE  Restored(v)' = Restored(v)
<1>1. \A w \in v .. MaxVersion : w \in Version
  BY Bounds, SMTT(20) DEF Version
<1>2. ASSUME NEW k \in Chunk
      PROVE  \/ Having(v, k) = {} /\ Having(v, k)' = {}
             \/ \E w, x \in Version : /\ First(v, w, k) /\ First(v, x, k)'
                                      /\ File(w, k) = File(x, k)'
  <2>1. Having(v, k)' = Having(v, k)
    BY <1>1 DEF SameFiles, Having
  <2>2. CASE Having(v, k) # {}
    <3>1. PICK w \in Version : First(v, w, k)
      BY <2>2, FirstExists
    <3>2. First(v, w, k)'
      BY <2>1, <3>1 DEF First
    <3> QED BY <3>1, <3>2 DEF SameFiles
  <2> QED BY <2>1, <2>2
<1> QED BY <1>2, RestoredTransfer

\* It keeps the versions if it commits none.
LEMMA KeptSame ==
  ASSUME VersionsKept, SameFiles, committed' = committed
  PROVE  VersionsKept'
<1> SUFFICES ASSUME NEW v \in Version, committed'[v] # None
             PROVE  Restored(v)' = committed'[v].disk
  BY DEF VersionsKept
<1>1. Restored(v) = committed[v].disk
  BY DEF VersionsKept
<1> QED BY <1>1, RestoredSame

\* It hands chunks over correctly if no process begins to replace or to move one.
LEMMA HandoverSame ==
  ASSUME Handover, SameFiles,
         \A w \in Version : tree[w] # None => tree'[w] # None,
         \A q \in Proc, k \in Chunk :
           Replacing(q, k)' => Replacing(q, k) /\ Lastver(q)' = Lastver(q),
         \A q \in Proc, k \in Chunk :
           ToMove(q, k)' => ToMove(q, k) /\ Lastver(q)' = Lastver(q),
         \A v \in Version, k \in Chunk : Anchored(v, k)' => Anchored(v, k),
         \A q \in Proc : proc'[q].pc = "hdk" =>
           \/ proc[q].pc = "hdk" /\ Lastver(q)' = Lastver(q)
           \/ Lastver(q)' \in Version /\ tree[Lastver(q)' + 1] = None
  PROVE  Handover'
<1>1. \A v \in Nat \ {0}, k \in Chunk : Having(v, k)' = Having(v, k)
  BY Bounds, SMTT(20) DEF SameFiles, Having, Version
<1>2. Version \subseteq Nat \ {0} /\ \A l \in Version : l + 1 \in Nat \ {0} /\ l + 2 \in Nat \ {0}
  BY Bounds, SMTT(20) DEF Version
<1>3. OldKept'
  <2> SUFFICES ASSUME NEW q \in Proc, NEW k \in Chunk, NEW l \in Version,
                      Replacing(q, k)', Lastver(q)' = l,
                      NEW v \in 1 .. l, Anchored(v, k)'
               PROVE  \E w \in v .. l : File(w, k)' # None
    BY DEF OldKept
  <2>1. v \in Version /\ \A w \in v .. l : w \in Version
    BY Bounds, SMTT(20) DEF Version
  <2>2. Anchored(v, k) /\ Replacing(q, k) /\ Lastver(q) = l
    BY <2>1
  <2>3. PICK w \in v .. l : File(w, k) # None
    BY <2>2 DEF Handover, OldKept
  <2> QED BY <2>1, <2>3 DEF SameFiles
<1>4. Returned'
  <2> SUFFICES ASSUME NEW q \in Proc, NEW k \in Chunk, NEW l \in Version,
                      Replacing(q, k)', Lastver(q)' = l,
                      l + 1 \in Version, File(l + 1, k)' # None
               PROVE  /\ l + 2 \in Version /\ tree'[l + 2] # None
                      /\ \A r \in Proc : proc'[r].pc = "hdk" => Lastver(r)' # l + 1
    BY DEF Returned
  <2>1. File(l + 1, k)' = File(l + 1, k)
    BY DEF SameFiles
  <2>2. /\ l + 2 \in Version /\ tree[l + 2] # None
        /\ \A r \in Proc : proc[r].pc = "hdk" => Lastver(r) # l + 1
    BY <2>1, SMTT(20) DEF Handover, Returned
  <2>3. l + 1 + 1 = l + 2
    BY <1>2, SMTT(20)
  <2> QED BY <2>2, <2>3
<1>5. NotAhead'
  <2> SUFFICES ASSUME NEW q \in Proc, NEW r \in Proc, NEW k \in Chunk, NEW l \in Version,
                      Replacing(q, k)', Lastver(q)' = l, ToMove(r, k)', Lastver(r)' = l + 1
               PROVE  Having(l + 2, k)' = {}
    BY DEF NotAhead
  <2>1. Having(l + 2, k) = {}
    BY DEF Handover, NotAhead
  <2> QED BY <2>1, <1>1, <1>2
<1>6. NoOverwrite'
  <2> SUFFICES ASSUME NEW q \in Proc, NEW k \in Chunk, NEW l \in Version,
                      ToMove(q, k)', Lastver(q)' = l
               PROVE  File(l, k)' = None \/ Having(l + 1, k)' = {}
    BY DEF NoOverwrite
  <2>1. File(l, k) = None \/ Having(l + 1, k) = {}
    BY DEF Handover, NoOverwrite
  <2> QED BY <2>1, <1>1, <1>2 DEF SameFiles
<1> QED BY <1>3, <1>4, <1>5, <1>6 DEF Handover

\* A quiet step of process p ends its commit, finds the newest version, or goes
\* on without moving a chunk; it gives a keyring to no version but its own.
Quiet(p) ==
  /\ SameFiles
  /\ committed' = committed
  /\ \A w \in Version : tree'[w] = None <=> tree[w] = None
  /\ \A q \in Proc : q # p => proc'[q] = proc[q]
  /\ \/ /\ proc'[p].pc \notin {"mkdir"} \cup BuildPc \cup FillPc
        /\ tree' = tree
     \/ /\ proc'[p].pc = "mkdir"
        /\ proc'[p].lastver \in Version
        /\ tree[proc'[p].lastver] # None /\ tree[proc'[p].lastver].keyring # None
        /\ tree' = tree
     \/ /\ proc[p].pc \in (BuildPc \cup FillPc) \ {"hdk", "new"}
        /\ proc'[p].pc \in (BuildPc \cup FillPc) \ {"hdk", "new"}
        /\ proc'[p].pc \in BuildPc => proc[p].pc \in BuildPc
        /\ proc'[p].lastver = proc[p].lastver
        /\ \A k \in Chunk : ToMove(p, k)' => ToMove(p, k)
        /\ \A w \in Version : tree[w] # None =>
             \/ tree'[w].keyring = tree[w].keyring
             \/ w = Nextver(p) /\ proc'[p].pc \notin BuildPc

\* A quiet step preserves what is said of owners, hand-overs and versions.
LEMMA QuietStep ==
  ASSUME StoreInv, NEW p \in Proc, Quiet(p)
  PROVE  Owned' /\ Unfinished' /\ Handover' /\ VersionsKept'
<1> USE DEF BuildPc, FillPc
<1>1. /\ \A q \in Proc : Owner(q)' =>
           Owner(q) /\ Nextver(q)' = Nextver(q) /\ Lastver(q)' = Lastver(q)
      /\ \A q \in Proc : Building(q)' => Building(q)
      /\ \A q \in Proc : proc'[q].pc = "hdk" => proc[q].pc = "hdk"
  BY DEF Quiet, Owner, Building, Lastver, Nextver
<1>2. \A q \in Proc : Scanned(q)' =>
        \/ Scanned(q) /\ Lastver(q)' = Lastver(q)
        \/ /\ Lastver(q)' \in Version /\ tree[Lastver(q)'] # None
           /\ tree[Lastver(q)'].keyring # None
  BY DEF Quiet, Scanned, Lastver
<1>3. \A q \in Proc, k \in Chunk : Replacing(q, k)' => Replacing(q, k) /\ Lastver(q)' = Lastver(q)
  BY DEF Quiet, Replacing, Lastver
<1>4. \A q \in Proc, k \in Chunk : ToMove(q, k)' => ToMove(q, k) /\ Lastver(q)' = Lastver(q)
  BY SMTT(30) DEF Quiet, ToMove, Replacing, Lastver
<1>5. \A v \in Version, k \in Chunk : Anchored(v, k)' => Anchored(v, k)
  <2>1. \A q \in Proc, k \in Chunk :
          Owner(q)' /\ proc'[q].pc # "hdk" /\ ~Replacing(q, k)' =>
          Owner(q) /\ proc[q].pc # "hdk" /\ ~Replacing(q, k)
    BY DEF Quiet, Owner, Replacing
  <2> QED BY <2>1, <1>1 DEF Anchored, Quiet
<1>i. Owned /\ Unfinished /\ Handover /\ VersionsKept /\ TypeOK
  BY DEF StoreInv
<1>s. /\ \A w \in Version : tree'[w] = None <=> tree[w] = None
      /\ committed' = committed /\ SameFiles
  BY DEF Quiet
<1>6. Owned'
  <2>1. tree'[1] # None
    BY <1>i, <1>s, Bounds, SMTT(20) DEF Owned, Version
  <2>2. /\ \A v \in Version : committed'[v] # None => tree'[v] # None
        /\ \A v, w \in Version : v < w /\ tree'[w] # None => tree'[v] # None
    BY <1>i, <1>s DEF Owned
  <2>3. \A q \in Proc : Scanned(q)' => Lastver(q)' \in Version /\ tree'[Lastver(q)'] # None
    BY <1>2, <1>i, <1>s, SMTT(20) DEF Owned
  <2>4. \A q \in Proc : Owner(q)' =>
          /\ Nextver(q)' \in Version
          /\ tree'[Nextver(q)'] # None
          /\ committed'[Nextver(q)'] = None
    BY <1>1, <1>i, <1>s, SMTT(20) DEF Owned
  <2>5. \A q, r \in Proc : Owner(q)' /\ Owner(r)' /\ q # r => Lastver(q)' # Lastver(r)'
    BY <1>1, <1>i, SMTT(30) DEF Owned
  <2> QED BY <2>1, <2>2, <2>3, <2>4, <2>5 DEF Owned
<1>7. Unfinished'
  <2> SUFFICES ASSUME NEW q \in Proc, Building(q)'
               PROVE  /\ tree'[Nextver(q)'].keyring = None
                      /\ \A r \in Proc : Scanned(r)' => Lastver(r)' # Nextver(q)'
                      /\ \A w \in Version : w > Nextver(q)' => tree'[w] = None
                      /\ \A w \in Version, k \in Chunk :
                           proc'[q].pc = "hdk" /\ w = Nextver(q)' => File(w, k)' = None
    BY DEF Unfinished
  <2>1. Building(q) /\ Owner(q) /\ Nextver(q)' = Nextver(q)
    BY <1>1 DEF Building, Owner
  <2>2. Nextver(q) \in Version /\ tree[Nextver(q)] # None
    BY <2>1, <1>i DEF Owned
  <2>3. tree'[Nextver(q)].keyring = tree[Nextver(q)].keyring
    <3>1. CASE tree' = tree
      BY <3>1
    <3>2. CASE q = p /\ tree' # tree
      BY <2>1, <2>2, <3>2 DEF Quiet, Building
    <3>3. CASE q # p /\ tree' # tree
      <4>1. Owner(p)
        BY <3>3 DEF Quiet, Owner
      <4>2. Lastver(q) # Lastver(p) /\ Lastver(q) \in Version /\ Lastver(p) \in Version
        BY <2>1, <3>3, <4>1, <1>i DEF Owned, Owner, Scanned
      <4>3. Nextver(q) # Nextver(p)
        BY <4>2, SMTT(20) DEF Nextver, Lastver, Version
      <4> QED BY <3>3, <4>3, <2>2 DEF Quiet
    <3> QED BY <3>1, <3>2, <3>3
  <2>4. tree[Nextver(q)].keyring = None
    BY <2>1, <1>i DEF Unfinished
  <2>5. \A r \in Proc : Scanned(r)' => Lastver(r)' # Nextver(q)
    BY <1>2, <1>i, <2>1, <2>4 DEF Unfinished
  <2> QED BY <2>1, <2>2, <2>3, <2>4, <2>5, <1>1, <1>i, <1>s, SMTT(30) DEF Unfinished, SameFiles
<1>8. Handover'
  <2>1. \A q \in Proc : proc'[q].pc = "hdk" => Lastver(q)' = Lastver(q)
    BY <1>1 DEF Owner
  <2> QED BY <1>3, <1>4, <1>5, <1>i, <1>s, <1>1, <2>1, HandoverSame
<1>9. VersionsKept'
  BY <1>i, <1>s, KeptSame
<1> QED BY <1>6, <1>7, <1>8, <1>9

-----------------------------------------------------------------------------
(* The steps of a commit                                                   *)

\* What the invariant says of the process that makes a step.
LEMMA OwnerFacts ==
  ASSUME StoreInv, NEW p \in Proc, Owner(p)
  PROVE  /\ Lastver(p) \in Version /\ Nextver(p) \in Version
         /\ Lastver(p) < Nextver(p) /\ Nextver(p) = Lastver(p) + 1
         /\ tree[Lastver(p)] \in Tree /\ tree[Nextver(p)] \in Tree
         /\ committed[Nextver(p)] = None
         /\ \A q \in Proc : Owner(q) /\ q # p =>
              Lastver(q) # Lastver(p) /\ Nextver(q) # Nextver(p)
<1>1. Scanned(p)
  BY DEF Owner, Scanned
<1>2. /\ Lastver(p) \in Version /\ tree[Lastver(p)] # None
      /\ Nextver(p) \in Version /\ tree[Nextver(p)] # None
      /\ committed[Nextver(p)] = None
      /\ \A q \in Proc : Owner(q) /\ q # p => Lastver(q) # Lastver(p)
  BY <1>1 DEF StoreInv, Owned
<1>3. tree[Lastver(p)] \in Tree /\ tree[Nextver(p)] \in Tree
  BY <1>2 DEF StoreInv, TypeOK
<1>4. Lastver(p) < Nextver(p) /\ Nextver(p) = Lastver(p) + 1
  BY <1>2, SMTT(20) DEF Nextver, Lastver, Version
<1>5. \A q \in Proc : Owner(q) => Lastver(q) \in Version
  BY DEF StoreInv, Owned, Owner, Scanned
<1>6. \A q \in Proc : Owner(q) /\ q # p => Nextver(q) # Nextver(p)
  BY <1>2, <1>5, SMTT(20) DEF Nextver, Lastver, Version
<1> QED BY <1>2, <1>3, <1>4, <1>6

\* A step that moves chunks changes neither the versions there are nor their
\* keyrings, and takes the process on within its commit.
Moving(p) ==
  /\ \A w \in Version : tree'[w] = None <=> tree[w] = None
  /\ \A w \in Version : tree[w] # None => tree'[w].keyring = tree[w].keyring
  /\ committed' = committed
  /\ \A q \in Proc : q # p => proc'[q] = proc[q]
  /\ proc'[p].lastver = proc[p].lastver
  /\ proc'[p].pc \in (BuildPc \cup FillPc) \ {"hdk"}
  /\ proc'[p].pc \in BuildPc => proc[p].pc \in BuildPc

-----------------------------------------------------------------------------
(* The steps that rename one chunk                                         *)

\* The chunk that a process is working on.
LEMMA TodoFacts ==
  ASSUME StoreInv, NEW p \in Proc, proc[p].pc \in {"old", "new"}
  PROVE  /\ Min(proc[p].todo) \in proc[p].todo /\ proc[p].todo \in SUBSET Chunk
         /\ proc[p].dir \in Nat /\ proc[p].dir < NumDirs
         /\ \A k \in proc[p].todo : DirOf(k) = proc[p].dir
<1>1. proc[p] \in Process /\ Sound(proc[p])
  BY DEF StoreInv, TypeOK, Arguments
<1>2. /\ proc[p].todo # {} /\ proc[p].dir < NumDirs
      /\ \A k \in proc[p].todo : DirOf(k) = proc[p].dir
  BY <1>1 DEF Sound
<1>3. proc[p].todo \in SUBSET Chunk /\ proc[p].dir \in Nat
  BY <1>1, DirFacts, SMTT(20) DEF Process
<1>4. proc[p].todo \in SUBSET Nat
  BY <1>3, Geometry, SMTT(20) DEF Chunk
<1> QED BY <1>2, <1>3, <1>4, MinFacts

-----------------------------------------------------------------------------
(* The other steps of the server                                           *)

\* The process goes on with its commit as s.
Continues(p, s) ==
  /\ proc[p].pc \in (BuildPc \cup FillPc) \ {"hdk", "new"}
  /\ s.pc \in (BuildPc \cup FillPc) \ {"hdk", "new"}
  /\ s.pc \in BuildPc => proc[p].pc \in BuildPc
  /\ s.lastver = proc[p].lastver
  /\ \A k \in Chunk : ToMove(p, k)' => ToMove(p, k)

\* The variables of the directory that a quiet step changes keep their types.
RestOK ==
  /\ last' \in Version \cup {None}
  /\ cache' \in [Nonce -> Tree \cup {None}]
  /\ lock' \in Nonce \cup {None}
  /\ nonces' \in 0 .. MaxNonce
  /\ committed' = committed

\* A step that changes no version directory.
LEMMA StillStep ==
  ASSUME StoreInv, NEW p \in Proc, NEW s \in Process, Sound(s), Become(p, s),
         RestOK, tree' = tree,
         \/ s.pc \notin {"mkdir"} \cup BuildPc \cup FillPc
         \/ /\ s.pc = "mkdir" /\ s.lastver \in Version
            /\ tree[s.lastver] # None /\ tree[s.lastver].keyring # None
         \/ Continues(p, s)
  PROVE  StoreInv'
<1>1. /\ proc' \in [Proc -> Process] /\ Arguments' /\ proc'[p] = s
      /\ \A q \in Proc : q # p => proc'[q] = proc[q]
  BY BecomeFacts DEF StoreInv
<1>2. TypeOK'
  BY <1>1 DEF StoreInv, TypeOK, RestOK
<1>3. SameFiles
  BY DEF SameFiles, File
<1>4. Quiet(p)
  BY <1>1, <1>3 DEF Quiet, Continues, RestOK
<1> QED BY <1>1, <1>2, <1>4, QuietStep DEF StoreInv

\* Nothing of the directory changes.
LEMMA RestSame ==
  ASSUME StoreInv, UNCHANGED <<last, cache, lock, nonces, committed>>
  PROVE  RestOK
BY DEF StoreInv, TypeOK, RestOK

\* A process that ends, by itself or killed.
LEMMA ExitStep ==
  ASSUME StoreInv, NEW p \in Proc, NEW l \in {"ok", "failed"}, Exit(p, l),
         RestOK, tree' = tree
  PROVE  StoreInv'
<1> DEFINE s == [Idle EXCEPT !.pc = l]
<1>1. s \in Process /\ s.pc = l
  BY DirFacts, SMTT(20) DEF Idle, Process
<1>2. Sound(s) /\ Become(p, s)
  BY <1>1 DEF Sound, RollbackPc, CommitPc, Exit
<1>3. s.pc \notin {"mkdir"} \cup BuildPc \cup FillPc
  BY <1>1 DEF BuildPc, FillPc
<1> HIDE DEF s
<1> QED BY <1>1, <1>2, <1>3, StillStep

\* A program that fails changes nothing but itself.
LEMMA FailsStep ==
  ASSUME StoreInv, NEW p \in Proc, Fails(p)
  PROVE  StoreInv'
BY RestSame, ExitStep DEF Fails

\* A process that starts, or starts the commit.
LEMMA StartStep ==
  ASSUME StoreInv, NEW p \in Proc, NEW n \in Nonce, NEW v \in Version \cup {None},
         NEW l \in {"locked", "nonce"}, l = "locked" => v \in Version,
         Start(p, l, n, v), RestOK, tree' = tree
  PROVE  StoreInv'
<1> DEFINE s == [Idle EXCEPT !.pc = l, !.nonce = n, !.target = v]
<1>1. s \in Process /\ s.pc = l /\ s.nonce = n /\ s.target = v
  <2>1. l \in RollbackPc \cup CommitPc \cup {"idle", "ok", "failed"}
    BY DEF RollbackPc, CommitPc
  <2>2. 0 \in 0 .. NumDirs
    BY DirFacts, SMTT(20)
  <2>3. Idle \in Process
    BY <2>2 DEF Idle, Process
  <2>4. [Idle EXCEPT !.pc = l] \in Process
    BY <2>1, <2>3 DEF Process
  <2>5. [[Idle EXCEPT !.pc = l] EXCEPT !.nonce = n] \in Process
    BY <2>4 DEF Process
  <2>6. s \in Process
    BY <2>5 DEF Process
  <2> QED BY <2>3, <2>6 DEF Process
<1>2. Sound(s) /\ Become(p, s)
  BY <1>1 DEF Sound, RollbackPc, CommitPc, Start
<1>3. s.pc \notin {"mkdir"} \cup BuildPc \cup FillPc
  BY <1>1 DEF BuildPc, FillPc
<1> HIDE DEF s
<1> QED BY <1>1, <1>2, <1>3, StillStep

\* The steps that make a version and move its chunks.
LEMMA ChunkSteps ==
  \A p \in Proc :
    StoreInv /\ (MakeNext(p) \/ MoveHdk(p) \/ MoveOld(p) \/ MoveNew(p) \/ LinkLast(p))
      => StoreInv'
\* A file of a version directory is a chunk, or there is none.
<1>FileType.
  ASSUME TypeOK, NEW v \in Version, NEW k \in Chunk
  PROVE  File(v, k) \in Tag \cup {None}
  <2> USE <1>FileType
  <2>1. tree[v] \in Tree \cup {None}
    BY DEF TypeOK
  <2>2. CASE tree[v] = None
    BY <2>2 DEF File
  <2>3. CASE tree[v] # None
    BY <2>1, <2>3, TreeFacts DEF File
  <2> QED BY <2>2, <2>3
\* mkdir() makes a version that is empty and that nobody else is making.
<1>MakeNextStep.
  ASSUME StoreInv, NEW p \in Proc, MakeNext(p), tree[Nextver(p)] = None
  PROVE  TypeOK' /\ Arguments' /\ Owned' /\ Unfinished' /\ Handover' /\ VersionsKept'
  <2> USE <1>MakeNextStep
  <2> USE DEF BuildPc, FillPc
  <2>i. TypeOK /\ Arguments /\ Owned /\ Unfinished /\ Handover /\ VersionsKept
    BY DEF StoreInv
  <2>0. Scanned(p) /\ Lastver(p) \in Version /\ tree[Lastver(p)] # None
    BY <2>i DEF MakeNext, Scanned, Owned
  <2>l. PICK L \in Version : L = Lastver(p)
    BY <2>0
  <2>n. PICK N : N = L + 1
    OBVIOUS
  <2>1. /\ N \in Version /\ L < N /\ tree[L] # None /\ Scanned(p)
        /\ N = Nextver(p) /\ tree[N] = None
    <3>1. N = Nextver(p) /\ L < MaxVersion
      BY <2>l, <2>n DEF MakeNext, Nextver, Lastver
    <3> QED BY <3>1, <2>0, <2>l, <2>n, Bounds, SMTT(20) DEF Version
  <2>2. /\ proc' \in [Proc -> Process] /\ Arguments'
        /\ proc'[p] = [proc[p] EXCEPT !.pc = "hdk"]
        /\ \A q \in Proc : q # p => proc'[q] = proc[q]
    <3>1. Goto(p, "hdk") /\ proc[p].pc = "mkdir"
      BY DEF MakeNext
    <3>2. /\ Become(p, [proc[p] EXCEPT !.pc = "hdk"])
          /\ [proc[p] EXCEPT !.pc = "hdk"] \in Process
      BY <3>1, <2>i, GotoFacts DEF CommitPc
    <3>3. Sound([proc[p] EXCEPT !.pc = "hdk"])
      BY <3>1, <2>i, SMTT(20) DEF Arguments, Sound, RollbackPc, CommitPc, TypeOK, Process
    <3> QED BY <3>2, <3>3, <2>i, BecomeFacts
  <2>3. /\ proc'[p].pc = "hdk" /\ Lastver(p)' = L /\ Nextver(p)' = N
        /\ \A q \in Proc : q # p => Lastver(q)' = Lastver(q) /\ Nextver(q)' = Nextver(q)
    BY <2>1, <2>2, <2>l, <2>i, SMTT(20) DEF Lastver, Nextver, TypeOK, Process
  <2>4. /\ tree' \in [Version -> Tree \cup {None}]
        /\ tree'[N] = EmptyDir /\ tree'[N] # None
        /\ \A w \in Version : w # N => tree'[w] = tree[w]
        /\ SameFiles
    <3>1. tree' = [tree EXCEPT ![N] = EmptyDir]
      BY <2>1 DEF MakeNext
    <3>2. /\ tree' \in [Version -> Tree \cup {None}]
          /\ tree'[N] = EmptyDir /\ tree'[N] # None
          /\ \A w \in Version : w # N => tree'[w] = tree[w]
          /\ \A k \in Chunk : File(N, k)' = EmptyDir.file[k]
          /\ \A w \in Version : w # N => \A k \in Chunk : File(w, k)' = File(w, k)
      BY <3>1, <2>1, <2>i, FileFacts, TreeFacts
    <3>3. \A k \in Chunk : EmptyDir.file[k] = None /\ File(N, k) = None
      BY <2>1 DEF EmptyDir, NoFiles, File
    <3> QED BY <3>2, <3>3 DEF SameFiles
  <2>5. /\ committed' = committed /\ last' = last /\ cache' = cache
        /\ lock' = lock /\ nonces' = nonces
    BY DEF MakeNext
  <2>6. TypeOK'
    BY <2>2, <2>4, <2>5, <2>i DEF TypeOK
  <2>7. /\ \A q \in Proc : Scanned(q)' => Scanned(q) /\ Lastver(q)' = Lastver(q)
        /\ \A q \in Proc : Owner(q)' => q = p \/ Owner(q)
        /\ \A q \in Proc : Building(q)' => q = p \/ Building(q)
    BY <2>1, <2>2, <2>3, <2>l DEF Scanned, Owner, Building
  <2>8. Owned'
    <3>1. tree'[1] # None
      BY <2>4, <2>i, Bounds, SMTT(30) DEF Owned, Version
    <3>2. /\ \A v \in Version : committed'[v] # None => tree'[v] # None
          /\ \A v, w \in Version : v < w /\ tree'[w] # None => tree'[v] # None
      <4>1. \A v, w \in Version : v < w /\ w = N => v = L \/ v < L
        BY <2>n, SMTT(20) DEF Version
      <4> QED BY <4>1, <2>1, <2>4, <2>5, <2>i DEF Owned
    <3>3. \A q \in Proc : Scanned(q)' => Lastver(q)' \in Version /\ tree'[Lastver(q)'] # None
      BY <2>7, <2>4, <2>i DEF Owned
    <3>4. \A q \in Proc : Owner(q)' =>
            /\ Nextver(q)' \in Version
            /\ tree'[Nextver(q)'] # None
            /\ committed'[Nextver(q)'] = None
      <4>1. committed[N] = None
        BY <2>1, <2>i DEF Owned
      <4> QED BY <4>1, <2>1, <2>3, <2>4, <2>5, <2>7, <2>i, SMTT(30) DEF Owned
    <3>5. \A q \in Proc : Owner(q) => Lastver(q) # L
      <4>1. \A q \in Proc : Owner(q) => tree[Nextver(q)] # None
        BY <2>i DEF Owned
      <4> QED BY <4>1, <2>1, <2>l DEF Nextver, Lastver
    <3>6. \A q, r \in Proc : Owner(q)' /\ Owner(r)' /\ q # r => Lastver(q)' # Lastver(r)'
      BY <3>5, <2>3, <2>7, <2>i, SMTT(30) DEF Owned
    <3> QED BY <3>1, <3>2, <3>3, <3>4, <3>6 DEF Owned
  <2>9. Unfinished'
    <3> SUFFICES ASSUME NEW q \in Proc, Building(q)'
                 PROVE  /\ tree'[Nextver(q)'].keyring = None
                        /\ \A r \in Proc : Scanned(r)' => Lastver(r)' # Nextver(q)'
                        /\ \A w \in Version : w > Nextver(q)' => tree'[w] = None
                        /\ \A w \in Version, k \in Chunk :
                             proc'[q].pc = "hdk" /\ w = Nextver(q)' => File(w, k)' = None
      BY DEF Unfinished
    <3>1. CASE q = p
      <4>1. tree'[N].keyring = None
        BY <2>4, SMTT(30) DEF EmptyDir
      <4>2. \A r \in Proc : Scanned(r)' => Lastver(r)' # N
        BY <2>1, <2>7, <2>i DEF Owned
      <4>3. \A w \in Version : w > N => tree'[w] = None
        BY <2>1, <2>4, <2>i, SMTT(20) DEF Owned, Version
      <4>4. \A k \in Chunk : File(N, k)' = None
        BY <2>4, <2>1 DEF SameFiles, File
      <4> QED BY <3>1, <4>1, <4>2, <4>3, <4>4, <2>3
    <3>2. CASE q # p
      <4>1. /\ Building(q) /\ Owner(q) /\ Nextver(q)' = Nextver(q)
            /\ proc'[q].pc = proc[q].pc
        BY <3>2, <2>2, <2>3, <2>7 DEF Building, Owner
      <4>2. Nextver(q) \in Version /\ tree[Nextver(q)] # None /\ Nextver(q) # N
        BY <4>1, <2>1, <2>i DEF Owned
      <4>3. \A r \in Proc : Scanned(r) => Lastver(r) # Nextver(q)
        BY <4>1, <2>i DEF Unfinished
      <4>4. L # Nextver(q) /\ ~(L > Nextver(q))
        BY <4>1, <4>3, <2>1, <2>l, <2>i DEF Unfinished
      <4>5. ~(N > Nextver(q))
        BY <4>2, <4>4, <2>n, SMTT(30) DEF Version
      <4> QED BY <4>1, <4>2, <4>3, <4>5, <2>4, <2>7, <2>i, SMTT(20) DEF Unfinished, SameFiles
    <3> QED BY <3>1, <3>2
  <2>10. Handover'
    <3>1. \A w \in Version : tree[w] # None => tree'[w] # None
      BY <2>4
    <3>2. /\ \A q \in Proc, k \in Chunk :
               Replacing(q, k)' => Replacing(q, k) /\ Lastver(q)' = Lastver(q)
          /\ \A q \in Proc, k \in Chunk :
               ToMove(q, k)' => ToMove(q, k) /\ Lastver(q)' = Lastver(q)
      BY <2>2, <2>3 DEF Replacing, ToMove
    <3>3. \A v \in Version, k \in Chunk : Anchored(v, k)' => Anchored(v, k)
      <4>1. \A q \in Proc, k \in Chunk :
              Owner(q)' /\ proc'[q].pc # "hdk" /\ ~Replacing(q, k)' =>
              Owner(q) /\ proc[q].pc # "hdk" /\ ~Replacing(q, k) /\ Nextver(q)' = Nextver(q)
        BY <2>2, <2>3 DEF Owner, Replacing
      <4> QED BY <4>1, <2>5 DEF Anchored
    <3>4. \A q \in Proc : proc'[q].pc = "hdk" =>
            \/ proc[q].pc = "hdk" /\ Lastver(q)' = Lastver(q)
            \/ Lastver(q)' \in Version /\ tree[Lastver(q)' + 1] = None
      <4>1. tree[L + 1] = None
        BY <2>1, <2>n
      <4> QED BY <4>1, <2>2, <2>3
    <3> QED BY <3>1, <3>2, <3>3, <3>4, <2>4, <2>i, HandoverSame
  <2>11. VersionsKept'
    BY <2>4, <2>5, <2>i, KeptSame
  <2> QED BY <2>2, <2>6, <2>8, <2>9, <2>10, <2>11
\* A version that is put together has chunks.
<1>RestoredType.
  ASSUME TypeOK, NEW v \in Version
  PROVE  Restored(v) \in [Chunk -> Tag \cup {None}]
  <2> USE <1>RestoredType
  <2> DEFINE f(k) == IF Having(v, k) = {} THEN None ELSE File(Min(Having(v, k)), k)
  <2>1. ASSUME NEW k \in Chunk PROVE f(k) \in Tag \cup {None}
    <3>1. CASE Having(v, k) # {}
      <4>1. Min(Having(v, k)) \in Version
        BY <3>1, HavingFacts, MinFacts
      <4> QED BY <3>1, <4>1, <1>FileType
    <3> QED BY <3>1
  <2>2. Restored(v) = [k \in Chunk |-> f(k)]
    BY DEF Restored
  <2> HIDE DEF f
  <2> QED BY <2>1, <2>2
\* symlink() commits the version as it is.
<1>LinkLastStep.
  ASSUME StoreInv, NEW p \in Proc, LinkLast(p), last = None
  PROVE  TypeOK' /\ Arguments' /\ Owned' /\ Unfinished' /\ Handover' /\ VersionsKept'
  <2> USE <1>LinkLastStep
  <2> USE DEF BuildPc, FillPc
  <2>i. TypeOK /\ Arguments /\ Owned /\ Unfinished /\ Handover /\ VersionsKept
    BY DEF StoreInv
  <2>0. Owner(p) /\ proc[p].pc = "link"
    BY DEF LinkLast, Owner
  <2>n. PICK N \in Version : N = Nextver(p)
    BY <2>0, OwnerFacts
  <2>1. /\ tree[N] \in Tree /\ tree[N] # None
        /\ \A q \in Proc : Owner(q) /\ q # p => Nextver(q) # N
    BY <2>0, <2>n, OwnerFacts, NoneApart
  <2>2. /\ proc' \in [Proc -> Process] /\ Arguments'
        /\ proc'[p].pc = "rm"
        /\ \A q \in Proc : q # p => proc'[q] = proc[q]
    <3>1. Goto(p, "rm")
      BY DEF LinkLast
    <3>2. /\ Become(p, [proc[p] EXCEPT !.pc = "rm"])
          /\ [proc[p] EXCEPT !.pc = "rm"] \in Process
      BY <3>1, <2>i, GotoFacts DEF CommitPc
    <3>3. Sound([proc[p] EXCEPT !.pc = "rm"]) /\ [proc[p] EXCEPT !.pc = "rm"].pc = "rm"
      BY <2>0, <2>i DEF Arguments, Sound, RollbackPc, CommitPc, TypeOK, Process
    <3> QED BY <3>2, <3>3, <2>i, BecomeFacts
  <2> DEFINE rec == [by |-> proc[p].nonce, disk |-> Restored(N)]
  <2>3. rec \in Record /\ rec # None /\ rec.disk = Restored(N)
    <3>1. proc[p].nonce \in Nonce
      BY <2>0, <2>i DEF Arguments, Sound, CommitPc
    <3> QED BY <3>1, <2>i, <1>RestoredType, NoneApart, SMTT(30) DEF Record
  <2>4. /\ tree' = tree /\ cache' = cache /\ lock' = lock /\ nonces' = nonces
        /\ last' = N /\ SameFiles
    BY <2>n DEF LinkLast, SameFiles, File
  <2>5. committed' = [committed EXCEPT ![N] = rec]
    BY <2>n DEF LinkLast
  <2> HIDE DEF rec
  <2>6. /\ committed' \in [Version -> Record \cup {None}]
        /\ committed'[N] = rec
        /\ \A v \in Version : v # N => committed'[v] = committed[v]
    BY <2>3, <2>5, <2>i DEF TypeOK
  <2>7. TypeOK'
    BY <2>2, <2>4, <2>6, <2>i DEF TypeOK
  <2>8. /\ \A q \in Proc : Scanned(q)' => Scanned(q) /\ Lastver(q)' = Lastver(q)
        /\ \A q \in Proc : Owner(q)' =>
             Owner(q) /\ q # p /\ Nextver(q)' = Nextver(q) /\ Lastver(q)' = Lastver(q)
        /\ \A q \in Proc : Building(q)' => Building(q) /\ Owner(q)'
        /\ \A q \in Proc : proc'[q].pc = "hdk" => proc[q].pc = "hdk"
    BY <2>2 DEF Scanned, Owner, Building, Lastver, Nextver
  <2>9. Owned'
    <3>1. /\ tree'[1] # None
          /\ \A v, w \in Version : v < w /\ tree'[w] # None => tree'[v] # None
      BY <2>4, <2>i DEF Owned
    <3>2. \A v \in Version : committed'[v] # None => tree'[v] # None
      BY <2>1, <2>4, <2>6, <2>i DEF Owned
    <3>3. \A q \in Proc : Scanned(q)' => Lastver(q)' \in Version /\ tree'[Lastver(q)'] # None
      BY <2>4, <2>8, <2>i DEF Owned
    <3>4. \A q \in Proc : Owner(q)' =>
            /\ Nextver(q)' \in Version
            /\ tree'[Nextver(q)'] # None
            /\ committed'[Nextver(q)'] = None
      BY <2>1, <2>4, <2>6, <2>8, <2>i, SMTT(30) DEF Owned
    <3>5. \A q, r \in Proc : Owner(q)' /\ Owner(r)' /\ q # r => Lastver(q)' # Lastver(r)'
      BY <2>8, <2>i DEF Owned
    <3> QED BY <3>1, <3>2, <3>3, <3>4, <3>5 DEF Owned
  <2>10. Unfinished'
    <3> SUFFICES ASSUME NEW q \in Proc, Building(q)'
                 PROVE  /\ tree'[Nextver(q)'].keyring = None
                        /\ \A r \in Proc : Scanned(r)' => Lastver(r)' # Nextver(q)'
                        /\ \A w \in Version : w > Nextver(q)' => tree'[w] = None
                        /\ \A w \in Version, k \in Chunk :
                             proc'[q].pc = "hdk" /\ w = Nextver(q)' => File(w, k)' = None
      BY DEF Unfinished
    <3>1. Building(q) /\ Nextver(q)' = Nextver(q)
      BY <2>8
    <3> QED BY <3>1, <2>4, <2>8, <2>i, SMTT(30) DEF Unfinished, SameFiles
  <2>11. Handover'
    <3>1. /\ \A q \in Proc, k \in Chunk :
               Replacing(q, k)' => Replacing(q, k) /\ Lastver(q)' = Lastver(q)
          /\ \A q \in Proc, k \in Chunk :
               ToMove(q, k)' => ToMove(q, k) /\ Lastver(q)' = Lastver(q)
          /\ \A q \in Proc : proc'[q].pc = "hdk" =>
               proc[q].pc = "hdk" /\ Lastver(q)' = Lastver(q)
      BY <2>2 DEF Replacing, ToMove, Lastver
    <3>2. \A v \in Version, k \in Chunk : Anchored(v, k)' => Anchored(v, k)
      <4>1. \A q \in Proc, k \in Chunk :
              Owner(q)' /\ proc'[q].pc # "hdk" /\ ~Replacing(q, k)' =>
              Owner(q) /\ proc[q].pc # "hdk" /\ ~Replacing(q, k) /\ Nextver(q)' = Nextver(q)
        BY <2>2, <2>8 DEF Replacing
      <4>2. \A k \in Chunk : Anchored(N, k)
        BY <2>0, <2>n DEF Anchored, Replacing
      <4> QED BY <4>1, <4>2, <2>6 DEF Anchored
    <3>3. \A w \in Version : tree[w] # None => tree'[w] # None
      BY <2>4
    <3> QED BY <3>1, <3>2, <3>3, <2>4, <2>i, HandoverSame
  <2>12. VersionsKept'
    <3> SUFFICES ASSUME NEW v \in Version, committed'[v] # None
                 PROVE  Restored(v)' = committed'[v].disk
      BY DEF VersionsKept
    <3>1. Restored(v)' = Restored(v)
      BY <2>4, RestoredSame
    <3>2. CASE v = N
      BY <3>1, <3>2, <2>3, <2>6
    <3>3. CASE v # N
      BY <3>1, <3>3, <2>6, <2>i DEF VersionsKept
    <3> QED BY <3>2, <3>3
  <2> QED BY <2>2, <2>7, <2>9, <2>10, <2>11, <2>12
\* A step that moves chunks preserves what is said of the owners.
<1>MovingStep.
  ASSUME StoreInv, NEW p \in Proc, Owner(p), Moving(p),
         \A q \in Proc, w \in Version, k \in Chunk :
           q # p /\ proc[q].pc = "hdk" /\ w = Nextver(q) => File(w, k)' = None
  PROVE  Owned' /\ Unfinished'
  <2> USE <1>MovingStep
  <2> USE DEF BuildPc, FillPc
  <2>i. Owned /\ Unfinished
    BY DEF StoreInv
  <2>1. /\ \A q \in Proc : Scanned(q)' => Scanned(q) /\ Lastver(q)' = Lastver(q)
        /\ \A q \in Proc : Owner(q)' =>
             Owner(q) /\ Nextver(q)' = Nextver(q) /\ Lastver(q)' = Lastver(q)
        /\ \A q \in Proc : Building(q)' => Building(q) /\ Owner(q)'
        /\ \A q \in Proc : proc'[q].pc = "hdk" => proc[q].pc = "hdk" /\ q # p
    BY DEF Moving, Scanned, Owner, Building, Lastver, Nextver
  <2>m. /\ \A w \in Version : tree'[w] = None <=> tree[w] = None
        /\ committed' = committed
    BY DEF Moving
  <2>2. Owned'
    <3>0. 1 \in Version
      BY Bounds, SMTT(20) DEF Version
    <3>1. tree'[1] # None
      BY <3>0, <2>i, <2>m DEF Owned
    <3>2. /\ \A v \in Version : committed'[v] # None => tree'[v] # None
          /\ \A v, w \in Version : v < w /\ tree'[w] # None => tree'[v] # None
      BY <2>i, <2>m DEF Owned
    <3>3. ASSUME NEW q \in Proc, Scanned(q)'
          PROVE  Lastver(q)' \in Version /\ tree'[Lastver(q)'] # None
      <4>1. Scanned(q) /\ Lastver(q)' = Lastver(q)
        BY <2>1, <3>3
      <4>2. Lastver(q) \in Version /\ tree[Lastver(q)] # None
        BY <4>1, <2>i DEF Owned
      <4> QED BY <4>1, <4>2, <2>m
    <3>4. ASSUME NEW q \in Proc, Owner(q)'
          PROVE  /\ Nextver(q)' \in Version
                 /\ tree'[Nextver(q)'] # None
                 /\ committed'[Nextver(q)'] = None
      <4>1. Owner(q) /\ Nextver(q)' = Nextver(q)
        BY <2>1, <3>4
      <4>2. /\ Nextver(q) \in Version
            /\ tree[Nextver(q)] # None
            /\ committed[Nextver(q)] = None
        BY <4>1, <2>i DEF Owned
      <4> QED BY <4>1, <4>2, <2>m
    <3>5. ASSUME NEW q \in Proc, NEW r \in Proc, Owner(q)', Owner(r)', q # r
          PROVE  Lastver(q)' # Lastver(r)'
      <4>1. Owner(q) /\ Lastver(q)' = Lastver(q) /\ Owner(r) /\ Lastver(r)' = Lastver(r)
        BY <2>1, <3>5
      <4>2. Lastver(q) # Lastver(r)
        BY <4>1, <3>5, <2>i DEF Owned
      <4> QED BY <4>1, <4>2
    <3> QED BY <3>1, <3>2, <3>3, <3>4, <3>5 DEF Owned
  <2>3. Unfinished'
    <3> SUFFICES ASSUME NEW q \in Proc, Building(q)'
                 PROVE  /\ tree'[Nextver(q)'].keyring = None
                        /\ \A r \in Proc : Scanned(r)' => Lastver(r)' # Nextver(q)'
                        /\ \A w \in Version : w > Nextver(q)' => tree'[w] = None
                        /\ \A w \in Version, k \in Chunk :
                             proc'[q].pc = "hdk" /\ w = Nextver(q)' => File(w, k)' = None
      BY DEF Unfinished
    <3>1. Building(q) /\ Owner(q) /\ Nextver(q)' = Nextver(q)
      BY <2>1
    <3>2. Nextver(q) \in Version /\ tree[Nextver(q)] # None
      BY <3>1, <2>i DEF Owned
    <3>3. tree'[Nextver(q)].keyring = None
      BY <3>1, <3>2, <2>i DEF Moving, Unfinished
    <3>4. /\ \A r \in Proc : Scanned(r)' => Lastver(r)' # Nextver(q)
          /\ \A w \in Version : w > Nextver(q) => tree'[w] = None
      BY <3>1, <2>1, <2>i DEF Moving, Unfinished
    <3> QED BY <3>1, <3>3, <3>4, <2>1
  <2> QED BY <2>2, <2>3
\* A process that may still move a chunk, or is replacing one, is making a
\* version, and is not doing both.
<1>MoverFacts.
  ASSUME StoreInv, NEW q \in Proc, NEW k \in Chunk
  PROVE  /\ ToMove(q, k) => Owner(q) /\ proc[q].pc # "hdk" /\ ~Replacing(q, k)
         /\ Replacing(q, k) => Owner(q) /\ proc[q].pc # "hdk"
  <2> USE <1>MoverFacts
  <2>1. ASSUME ToMove(q, k), Replacing(q, k) PROVE FALSE
    <3>1. proc[q].pc = "new" /\ k = Min(proc[q].todo)
      BY <2>1 DEF Replacing
    <3>2. DirOf(k) = proc[q].dir /\ proc[q].dir \in Nat
      BY <3>1, TodoFacts
    <3> QED BY <2>1, <3>1, <3>2, SMTT(20) DEF ToMove
  <2> QED BY <2>1 DEF ToMove, Replacing, Owner, BuildPc, FillPc
\* rename() of an old chunk takes it back to the last version.
<1>MoveOldFacts.
  ASSUME StoreInv, NEW p \in Proc, MoveOld(p),
         NEW c \in Chunk, c = Min(proc[p].todo),
         NEW L \in Version, NEW N \in Version, L = Lastver(p), N = Nextver(p),
         File(N, c) # None, HasDir(tree[L], DirOf(c))
  PROVE  /\ TypeOK' /\ Arguments' /\ Moving(p)
         /\ proc'[p] = [proc[p] EXCEPT !.pc = "new"]
         /\ File(L, c)' = File(N, c) /\ File(N, c)' = None
         /\ \A w \in Version, k \in Chunk :
              k # c \/ (w # L /\ w # N) => File(w, k)' = File(w, k)
  <2> USE <1>MoveOldFacts
  <2>i. TypeOK /\ Arguments /\ Owned
    BY DEF StoreInv
  <2>0. Owner(p) /\ proc[p].pc = "old"
    BY DEF MoveOld, Owner, FillPc
  <2>1. L < N /\ tree[L] \in Tree /\ tree[N] \in Tree
    BY <2>0, OwnerFacts
  <2>2. tree[N].file[c] # None /\ tree[N] # None /\ tree[L] # None /\ L # N
    BY <2>1, NoneApart, SMTT(30) DEF File, Version
  <2> DEFINE s == [proc[p] EXCEPT !.pc = "new"]
             tl == [tree[L] EXCEPT !.file[c] = tree[N].file[c]]
             tn == [tree[N] EXCEPT !.file[c] = None]
  <2>3. /\ tree' = [tree EXCEPT ![L].file[c] = tree[N].file[c], ![N].file[c] = None]
        /\ Goto(p, "new")
        /\ UNCHANGED <<last, cache, lock, nonces, committed>>
    BY <2>2 DEF MoveOld
  <2>4. /\ proc' \in [Proc -> Process] /\ Arguments'
        /\ proc'[p] = s /\ s.pc = "new" /\ s.lastver = proc[p].lastver
        /\ \A q \in Proc : q # p => proc'[q] = proc[q]
    <3>1. Become(p, s) /\ s \in Process
      BY <2>3, <2>i, GotoFacts DEF CommitPc
    <3>2. Sound(s) /\ s.pc = "new" /\ s.lastver = proc[p].lastver
      BY <2>0, <2>i DEF Arguments, Sound, RollbackPc, CommitPc, TypeOK, Process
    <3> HIDE DEF s
    <3> QED BY <3>1, <3>2, <2>i, BecomeFacts
  <2>5. /\ tl \in Tree /\ tn \in Tree
        /\ tl.file = [tree[L].file EXCEPT ![c] = tree[N].file[c]]
        /\ tn.file = [tree[N].file EXCEPT ![c] = None]
        /\ tl.keyring = tree[L].keyring /\ tn.keyring = tree[N].keyring
    BY <2>1 DEF Tree
  <2>6. tree' = [tree EXCEPT ![L] = tl, ![N] = tn]
    BY <2>1, <2>2, <2>3, <2>i DEF TypeOK
  <2> HIDE DEF s, tl, tn
  <2>7. /\ tree' \in [Version -> Tree \cup {None}]
        /\ tree'[L] = tl /\ tree'[N] = tn
        /\ \A w \in Version : w # L /\ w # N => tree'[w] = tree[w]
    BY <2>2, <2>5, <2>6, <2>i DEF TypeOK
  <2>8. tl # None /\ tn # None
    BY <2>5, NoneApart
  <2>9. TypeOK'
    BY <2>3, <2>4, <2>7, <2>i DEF TypeOK
  <2>10. Moving(p)
    BY <2>0, <2>2, <2>3, <2>4, <2>5, <2>7, <2>8 DEF Moving, BuildPc, FillPc
  <2>11. /\ tree[L].file \in [Chunk -> Tag \cup {None}]
         /\ tree[N].file \in [Chunk -> Tag \cup {None}]
    BY <2>1, TreeFacts
  <2>12. /\ File(L, c)' = File(N, c) /\ File(N, c)' = None
         /\ \A k \in Chunk : k # c => File(L, k)' = File(L, k) /\ File(N, k)' = File(N, k)
    BY <2>2, <2>5, <2>7, <2>8, <2>11 DEF File
  <2>13. \A w \in Version, k \in Chunk : w # L /\ w # N => File(w, k)' = File(w, k)
    BY <2>7 DEF File
  <2>14. \A w \in Version, k \in Chunk :
           k # c \/ (w # L /\ w # N) => File(w, k)' = File(w, k)
    BY <2>12, <2>13
  <2> QED BY <2>4, <2>9, <2>10, <2>12, <2>14 DEF s
\* A chunk that will be replaced is renamed back into the older version.
<1>MoveOldStep.
  ASSUME StoreInv, NEW p \in Proc, MoveOld(p),
         NEW c \in Chunk, c = Min(proc[p].todo),
         NEW L \in Version, NEW N \in Version, L = Lastver(p), N = Nextver(p),
         File(N, c) # None, HasDir(tree[L], DirOf(c))
  PROVE  TypeOK' /\ Arguments' /\ Owned' /\ Unfinished' /\ Handover' /\ VersionsKept'
  <2> USE <1>MoveOldStep
  <2> USE DEF BuildPc, FillPc
  <2>i. TypeOK /\ Arguments /\ Owned /\ Unfinished /\ Handover /\ VersionsKept
    BY DEF StoreInv
  <2>0. Owner(p) /\ Scanned(p) /\ proc[p].pc = "old"
    BY DEF MoveOld, Owner, Scanned
  <2>n. /\ N = L + 1 /\ L < N /\ committed[N] = None /\ tree[N] # None
        /\ \A q \in Proc : Owner(q) /\ q # p => Lastver(q) # L /\ Nextver(q) # N
    BY <2>0, OwnerFacts, NoneApart
  <2>1. /\ TypeOK' /\ Arguments' /\ Moving(p)
        /\ proc'[p] = [proc[p] EXCEPT !.pc = "new"]
        /\ File(L, c)' = File(N, c) /\ File(N, c)' = None
        /\ \A w \in Version, k \in Chunk :
             k # c \/ (w # L /\ w # N) => File(w, k)' = File(w, k)
    BY <1>MoveOldFacts, SMTT(20)
  <2>p. /\ proc'[p].pc = "new" /\ proc'[p].todo = proc[p].todo /\ proc'[p].dir = proc[p].dir
        /\ proc'[p].lastver = proc[p].lastver
    BY <2>1, <2>i, SMTT(20) DEF TypeOK, Process
  <2>2. /\ \A q \in Proc : q # p => proc'[q] = proc[q]
        /\ \A q \in Proc : Lastver(q)' = Lastver(q) /\ Nextver(q)' = Nextver(q)
        /\ committed' = committed
        /\ \A w \in Version : tree'[w] = None <=> tree[w] = None
    BY <2>1 DEF Moving, Lastver, Nextver
  <2>t. c \in proc[p].todo /\ DirOf(c) = proc[p].dir /\ proc[p].dir \in Nat
    BY <2>0, TodoFacts
  <2>3. /\ \A k \in Chunk : Replacing(p, k)' <=> k = c
        /\ \A q \in Proc, k \in Chunk : q # p => (Replacing(q, k)' <=> Replacing(q, k))
        /\ \A k \in Chunk : ~Replacing(p, k)
    BY <2>0, <2>p, <2>2 DEF Replacing
  <2>4. /\ ToMove(p, c) /\ ~ToMove(p, c)'
        /\ \A q \in Proc, k \in Chunk : ToMove(q, k)' => ToMove(q, k)
    <3>1. ToMove(p, c)
      BY <2>0, <2>t DEF ToMove, Replacing
    <3>2. ~ToMove(p, c)'
      BY <2>p, <2>t, SMTT(20) DEF ToMove, Replacing
    <3>3. \A k \in Chunk : ToMove(p, k)' => ToMove(p, k)
      BY <2>0, <2>p DEF ToMove, Replacing
    <3>4. \A q \in Proc, k \in Chunk : q # p /\ ToMove(q, k)' => ToMove(q, k)
      BY <2>2 DEF ToMove, Replacing
    <3> QED BY <3>1, <3>2, <3>3, <3>4
  \* The old chunk is moved onto no other one.
  <2>5. File(L, c) = None
    <3>1. N \in Having(L + 1, c)
      BY <2>n, Bounds, SMTT(20) DEF Having, Version
    <3> QED BY <3>1, <2>4, <2>i DEF Handover, NoOverwrite
  <2>6. Owned' /\ Unfinished'
    <3>1. ASSUME NEW q \in Proc, NEW w \in Version, NEW k \in Chunk,
                 q # p, proc[q].pc = "hdk", w = Nextver(q)
          PROVE  File(w, k)' = None
      <4>1. Building(q) /\ Owner(q)
        BY <3>1 DEF Building, Owner
      <4>2. File(w, k) = None /\ w # L /\ w # N
        BY <4>1, <3>1, <2>0, <2>n, <2>i DEF Unfinished
      <4> QED BY <4>2, <2>1
    <3> QED BY <3>1, <2>0, <2>1, <1>MovingStep
  <2>7. /\ \A v \in Nat \ {0}, k \in Chunk : k # c => Having(v, k)' = Having(v, k)
        /\ \A v \in Nat \ {0} : v > N => Having(v, c)' = Having(v, c)
        /\ \A v \in Nat \ {0} : Having(v, c) = {} => v > N
    <3>1. \A v \in Nat \ {0} : \A w \in v .. MaxVersion : w \in Version
      BY Bounds, SMTT(20) DEF Version
    <3>2. \A v \in Nat \ {0}, k \in Chunk : k # c => Having(v, k)' = Having(v, k)
      BY <3>1, <2>1 DEF Having
    <3>3. ASSUME NEW v \in Nat \ {0}, v > N PROVE Having(v, c)' = Having(v, c)
      <4>1. \A w \in v .. MaxVersion : w \in Version /\ w # L /\ w # N
        BY <3>1, <3>3, <2>n, Bounds, SMTT(20) DEF Version
      <4> QED BY <4>1, <2>1 DEF Having
    <3>4. ASSUME NEW v \in Nat \ {0}, ~(v > N) PROVE N \in Having(v, c)
      BY <3>4, Bounds, SMTT(20) DEF Having, Version
    <3> QED BY <3>2, <3>3, <3>4
  <2>8. \A v \in Nat \ {0}, k \in Chunk : Having(v, k) = {} => Having(v, k)' = {}
    BY <2>7
  <2>9. OldKept'
    <3> SUFFICES ASSUME NEW q \in Proc, NEW k \in Chunk, NEW l \in Version,
                        Replacing(q, k)', Lastver(q)' = l,
                        NEW v \in 1 .. l, Anchored(v, k)'
                 PROVE  \E w \in v .. l : File(w, k)' # None
      BY DEF OldKept
    <3>1. CASE q = p
      <4>1. k = c /\ l = L
        BY <3>1, <2>2, <2>3
      <4> QED BY <4>1, <2>1, SMTT(20) DEF Version
    <3>2. CASE q # p
      <4>1. Replacing(q, k) /\ Lastver(q) = l
        BY <3>2, <2>2, <2>3
      <4>2. Anchored(v, k)
        <5>1. \A r \in Proc : /\ Owner(r)' <=> Owner(r)
                              /\ proc'[r].pc = "hdk" <=> proc[r].pc = "hdk"
                              /\ Replacing(r, k) => Replacing(r, k)'
          BY <2>0, <2>p, <2>2, <2>3 DEF Owner
        <5> QED BY <5>1, <2>2 DEF Anchored
      <4>3. PICK w \in v .. l : File(w, k) # None
        BY <4>1, <4>2, <2>i DEF Handover, OldKept
      <4>4. w \in Version
        BY Bounds, SMTT(20) DEF Version
      <4>5. CASE k = c /\ w = N
        <5>1. v # N
          <6>1. \A r \in Proc : Owner(r)' /\ r # p => Nextver(r)' # N
            BY <2>2, <2>n DEF Owner
          <6> QED BY <4>5, <6>1, <2>2, <2>3, <2>n DEF Anchored
        <5>2. L \in v .. l
          BY <4>5, <5>1, <2>n, SMTT(20) DEF Version
        <5> QED BY <4>5, <5>2, <2>1
      <4>6. CASE ~(k = c /\ w = N)
        <5>1. ~(k = c /\ w = L)
          BY <4>3, <2>5
        <5> QED BY <4>3, <4>4, <4>6, <5>1, <2>1
      <4> QED BY <4>5, <4>6
    <3> QED BY <3>1, <3>2
  <2>10. Returned'
    <3> SUFFICES ASSUME NEW q \in Proc, NEW k \in Chunk, NEW l \in Version,
                        Replacing(q, k)', Lastver(q)' = l,
                        l + 1 \in Version, File(l + 1, k)' # None
                 PROVE  /\ l + 2 \in Version /\ tree'[l + 2] # None
                        /\ \A r \in Proc : proc'[r].pc = "hdk" => Lastver(r)' # l + 1
      BY DEF Returned
    <3>1. q # p
      BY <2>1, <2>2, <2>3, <2>n
    <3>2. Replacing(q, k) /\ Lastver(q) = l
      BY <3>1, <2>2, <2>3
    <3>3. CASE k = c /\ l + 1 = L
      <4>1. l + 2 = N
        BY <3>3, <2>n, SMTT(30) DEF Version
      <4>2. \A r \in Proc : proc'[r].pc = "hdk" => r # p /\ Owner(r)
        BY <2>2, <2>p DEF Owner
      <4> QED BY <3>3, <4>1, <4>2, <2>2, <2>n, SMTT(30)
    <3>4. CASE ~(k = c /\ l + 1 = L)
      <4>1. File(l + 1, k) # None
        BY <3>4, <2>1
      <4>2. /\ l + 2 \in Version /\ tree[l + 2] # None
            /\ \A r \in Proc : proc[r].pc = "hdk" => Lastver(r) # l + 1
        BY <3>2, <4>1, <2>i DEF Handover, Returned
      <4> QED BY <4>2, <2>2, <2>p
    <3> QED BY <3>3, <3>4
  <2>11. NotAhead'
    <3> SUFFICES ASSUME NEW q \in Proc, NEW r \in Proc, NEW k \in Chunk, NEW l \in Version,
                        Replacing(q, k)', Lastver(q)' = l, ToMove(r, k)', Lastver(r)' = l + 1
                 PROVE  Having(l + 2, k)' = {}
      BY DEF NotAhead
    <3>1. l + 2 \in Nat \ {0}
      BY SMTT(20) DEF Version
    <3>2. Having(l + 2, k) = {}
      <4>1. CASE q = p
        <5>1. k = c /\ l = L
          BY <4>1, <2>2, <2>3
        <5>2. ToMove(r, c) /\ Lastver(r) = N
          BY <5>1, <2>2, <2>4, <2>n
        <5>3. Having(N + 1, c) = {}
          BY <5>2, <2>i DEF Handover, NoOverwrite
        <5>4. N + 1 = l + 2
          BY <5>1, <2>n, SMTT(30) DEF Version
        <5> QED BY <5>1, <5>3, <5>4
      <4>2. CASE q # p
        BY <4>2, <2>2, <2>3, <2>4, <2>i DEF Handover, NotAhead
      <4> QED BY <4>1, <4>2
    <3> QED BY <3>1, <3>2, <2>8
  <2>12. NoOverwrite'
    <3> SUFFICES ASSUME NEW q \in Proc, NEW k \in Chunk, NEW l \in Version,
                        ToMove(q, k)', Lastver(q)' = l
                 PROVE  File(l, k)' = None \/ Having(l + 1, k)' = {}
      BY DEF NoOverwrite
    <3>1. ToMove(q, k) /\ Lastver(q) = l /\ l + 1 \in Nat \ {0}
      BY <2>2, <2>4, SMTT(20) DEF Version
    <3>2. File(l, k) = None \/ Having(l + 1, k) = {}
      BY <3>1, <2>i DEF Handover, NoOverwrite
    <3>3. CASE Having(l + 1, k) = {}
      BY <3>1, <3>3, <2>8
    <3>4. CASE File(l, k) = None
      <4>1. ~(k = c /\ l = L)
        <5>1. k = c => q # p
          BY <2>4
        <5> QED BY <5>1, <3>1, <2>n, <1>MoverFacts
      <4> QED BY <3>4, <4>1, <2>1
    <3> QED BY <3>2, <3>3, <3>4
  <2>13. VersionsKept'
    <3> SUFFICES ASSUME NEW v \in Version, committed'[v] # None
                 PROVE  Restored(v)' = committed'[v].disk
      BY DEF VersionsKept
    <3>1. /\ Restored(v) = committed[v].disk /\ committed'[v] = committed[v]
          /\ v # N /\ v \in Nat \ {0}
      BY <2>2, <2>n, <2>i, SMTT(30) DEF VersionsKept, Version
    <3>2. ASSUME NEW k \in Chunk
          PROVE  \/ Having(v, k) = {} /\ Having(v, k)' = {}
                 \/ \E w, x \in Version : /\ First(v, w, k) /\ First(v, x, k)'
                                          /\ File(w, k) = File(x, k)'
      <4>1. CASE Having(v, k) = {}
        BY <4>1, <3>1, <2>8
      <4>2. CASE Having(v, k) # {}
        <5>1. PICK w \in Version : First(v, w, k)
          BY <4>2, FirstExists
        <5>2. v =< w /\ File(w, k) # None /\ w =< MaxVersion
          BY <5>1, SMTT(20) DEF First, Having, Version
        <5>3. \A u \in Version : v =< u /\ u < w => File(u, k) = None
          BY <5>1, Bounds, SMTT(20) DEF First, Having, Version
        <5>4. CASE k # c \/ v > N
          <6>1. Having(v, k)' = Having(v, k)
            BY <5>4, <3>1, <2>7
          <6>2. First(v, w, k)'
            BY <5>1, <6>1 DEF First
          <6>3. k # c \/ (w # L /\ w # N)
            BY <5>2, <5>4, <2>n, SMTT(30) DEF Version
          <6> QED BY <5>1, <6>2, <6>3, <2>1
        <5>5. CASE k = c /\ ~(v > N)
          <6>1. v =< L /\ w # L
            BY <5>2, <5>5, <3>1, <2>5, <2>n, SMTT(30) DEF Version
          <6>2. w =< N
            BY <5>3, <6>1, <2>n, <5>5, SMTT(30) DEF Version
          <6>3. CASE w = N
            <7>1. First(v, L, k)'
              BY <5>3, <5>5, <6>1, <6>3, <2>1, <2>n, Bounds, SMTT(30) DEF First, Having, Version
            <7> QED BY <5>1, <5>5, <6>3, <7>1, <2>1
          <6>4. CASE w # N
            <7>1. File(w, k)' = File(w, k)
              BY <6>1, <6>4, <2>1
            <7>2. \A u \in Version : v =< u /\ u < w => File(u, k)' = None
              BY <5>3, <6>1, <6>2, <6>4, <2>1, <2>n, SMTT(30) DEF Version
            <7>3. First(v, w, k)'
              BY <5>2, <7>1, <7>2, Bounds, SMTT(30) DEF First, Having, Version
            <7> QED BY <5>1, <7>1, <7>3
          <6> QED BY <6>3, <6>4
        <5> QED BY <5>4, <5>5
      <4> QED BY <4>1, <4>2
    <3>3. Restored(v)' = Restored(v)
      BY <3>2, RestoredTransfer
    <3> QED BY <3>1, <3>3
  <2> QED BY <2>1, <2>6, <2>9, <2>10, <2>11, <2>12, <2>13 DEF Handover
\* rename() of a new chunk puts it into the next version, which has none.
<1>MoveNewFacts.
  ASSUME StoreInv, NEW p \in Proc, MoveNew(p),
         NEW c \in Chunk, c = Min(proc[p].todo),
         NEW L \in Version, NEW N \in Version, L = Lastver(p), N = Nextver(p),
         Upload(p) # None, Upload(p).file[c] # None, HasDir(tree[N], DirOf(c))
  PROVE  /\ TypeOK' /\ Arguments' /\ Moving(p)
         /\ \/ /\ proc'[p].pc = "dir" /\ proc'[p].dir = proc[p].dir + 1
               /\ proc'[p].todo = {}
            \/ /\ proc'[p].pc = "old" /\ proc'[p].dir = proc[p].dir
               /\ proc'[p].todo = proc[p].todo \ {c}
         /\ File(N, c)' # None
         /\ \A w \in Version, k \in Chunk : k # c \/ w # N => File(w, k)' = File(w, k)
  <2> USE <1>MoveNewFacts
  <2>i. TypeOK /\ Arguments /\ Owned
    BY DEF StoreInv
  <2>0. Owner(p) /\ proc[p].pc = "new" /\ proc[p] \in Process
    BY <2>i DEF MoveNew, Owner, FillPc, TypeOK
  <2>1. tree[N] \in Tree /\ tree[N] # None
    BY <2>0, OwnerFacts, NoneApart
  <2>2. PICK n \in Nonce : n = proc[p].nonce
    BY <2>0, <2>i DEF Arguments, Sound, CommitPc
  <2>3. Upload(p) = cache[n] /\ cache[n] \in Tree
    BY <2>2, <2>i DEF Upload, TypeOK
  <2>4. PICK a \in Tag : a = Upload(p).file[c]
    BY <2>3, TreeFacts
  <2> DEFINE rest == proc[p].todo \ {c}
             s == IF rest = {}
                  THEN [proc[p] EXCEPT !.pc = "dir", !.todo = {}, !.dir = @ + 1]
                  ELSE [proc[p] EXCEPT !.pc = "old", !.todo = rest]
             tn == [tree[N] EXCEPT !.file[c] = a]
             tc == [cache[n] EXCEPT !.file[c] = None]
  <2>5. /\ tree' = [tree EXCEPT ![N].file[c] = a]
        /\ cache' = [cache EXCEPT ![n].file[c] = None]
        /\ Become(p, s)
        /\ UNCHANGED <<last, lock, nonces, committed>>
    BY <2>2, <2>4 DEF MoveNew
  <2>6. /\ s \in Process /\ Sound(s) /\ s.lastver = proc[p].lastver
        /\ \/ s.pc = "dir" /\ s.dir = proc[p].dir + 1 /\ s.todo = {}
           \/ s.pc = "old" /\ s.dir = proc[p].dir /\ s.todo = rest
    <3>1. /\ proc[p].todo \in SUBSET Chunk
          /\ proc[p].dir \in Nat /\ proc[p].dir < NumDirs
          /\ \A k \in proc[p].todo : DirOf(k) = proc[p].dir
      BY <2>0, TodoFacts
    <3>2. CASE rest = {}
      <4>1. proc[p].dir + 1 \in 0 .. NumDirs
        BY <3>1, DirFacts, SMTT(20)
      <4>2. s = [proc[p] EXCEPT !.pc = "dir", !.todo = {}, !.dir = @ + 1]
        BY <3>2
      <4>3. /\ s.pc = "dir" /\ s.todo = {} /\ s.dir = proc[p].dir + 1
            /\ s.lastver = proc[p].lastver /\ s.nonce = proc[p].nonce
        BY <4>2, <2>0 DEF Process
      <4>4. s \in Process
        BY <4>1, <4>2, <2>0 DEF Process, CommitPc
      <4>5. Sound(s)
        BY <4>3, <2>2 DEF Sound, RollbackPc, CommitPc
      <4> QED BY <4>3, <4>4, <4>5
    <3>3. CASE rest # {}
      <4>2. s = [proc[p] EXCEPT !.pc = "old", !.todo = rest]
        BY <3>3
      <4>3. /\ s.pc = "old" /\ s.todo = rest /\ s.dir = proc[p].dir
            /\ s.lastver = proc[p].lastver /\ s.nonce = proc[p].nonce
        BY <4>2, <2>0 DEF Process
      <4>4. s \in Process
        BY <3>1, <4>2, <2>0 DEF Process, CommitPc
      <4>5. Sound(s)
        BY <3>1, <3>3, <4>3, <2>2 DEF Sound, RollbackPc, CommitPc
      <4> QED BY <4>3, <4>4, <4>5
    <3> QED BY <3>2, <3>3
  <2> HIDE DEF s
  <2>7. /\ proc' \in [Proc -> Process] /\ Arguments' /\ proc'[p] = s
        /\ \A q \in Proc : q # p => proc'[q] = proc[q]
    BY <2>5, <2>6, <2>i, BecomeFacts
  <2>8. /\ tn \in Tree /\ tn.file = [tree[N].file EXCEPT ![c] = a]
        /\ tn.keyring = tree[N].keyring /\ tc \in Tree
    BY <2>1, <2>3 DEF Tree
  <2>9. tree' = [tree EXCEPT ![N] = tn] /\ cache' = [cache EXCEPT ![n] = tc]
    BY <2>5
  <2> HIDE DEF tn, tc
  <2>10. /\ tree' \in [Version -> Tree \cup {None}]
         /\ tree'[N] = tn /\ tn # None
         /\ \A w \in Version : w # N => tree'[w] = tree[w]
         /\ \A k \in Chunk : File(N, k)' = tn.file[k]
         /\ \A w \in Version : w # N => \A k \in Chunk : File(w, k)' = File(w, k)
    BY <2>8, <2>9, <2>i, FileFacts
  <2>11. cache' \in [Nonce -> Tree \cup {None}]
    BY <2>8, <2>9, <2>i DEF TypeOK
  <2>12. TypeOK'
    BY <2>5, <2>7, <2>10, <2>11, <2>i DEF TypeOK
  <2>13. Moving(p)
    BY <2>0, <2>1, <2>5, <2>6, <2>7, <2>8, <2>10 DEF Moving, BuildPc, FillPc
  <2>14. tree[N].file \in [Chunk -> Tag \cup {None}] /\ a # None
    BY <2>1, TreeFacts, NoneApart
  <2>15. /\ File(N, c)' # None
         /\ \A k \in Chunk : k # c => File(N, k)' = File(N, k)
    BY <2>1, <2>8, <2>10, <2>14 DEF File
  <2>16. \A w \in Version, k \in Chunk : k # c \/ w # N => File(w, k)' = File(w, k)
    BY <2>10, <2>15
  <2> QED BY <2>6, <2>7, <2>12, <2>13, <2>15, <2>16
\* The new chunk is renamed from the upload into the next version.
<1>MoveNewStep.
  ASSUME StoreInv, NEW p \in Proc, MoveNew(p),
         NEW c \in Chunk, c = Min(proc[p].todo),
         NEW L \in Version, NEW N \in Version, L = Lastver(p), N = Nextver(p),
         Upload(p) # None, Upload(p).file[c] # None, HasDir(tree[N], DirOf(c))
  PROVE  TypeOK' /\ Arguments' /\ Owned' /\ Unfinished' /\ Handover' /\ VersionsKept'
  <2> USE <1>MoveNewStep
  <2> USE DEF BuildPc, FillPc
  <2>i. TypeOK /\ Arguments /\ Owned /\ Unfinished /\ Handover /\ VersionsKept
    BY DEF StoreInv
  <2>0. Owner(p) /\ proc[p].pc = "new" /\ Replacing(p, c)
    BY DEF MoveNew, Owner, Replacing
  <2>n. /\ N = L + 1 /\ L < N /\ committed[N] = None
        /\ \A q \in Proc : Owner(q) /\ q # p => Lastver(q) # L /\ Nextver(q) # N
    BY <2>0, OwnerFacts
  <2>1. /\ TypeOK' /\ Arguments' /\ Moving(p)
        /\ \/ /\ proc'[p].pc = "dir" /\ proc'[p].dir = proc[p].dir + 1
              /\ proc'[p].todo = {}
           \/ /\ proc'[p].pc = "old" /\ proc'[p].dir = proc[p].dir
              /\ proc'[p].todo = proc[p].todo \ {c}
        /\ File(N, c)' # None
        /\ \A w \in Version, k \in Chunk : k # c \/ w # N => File(w, k)' = File(w, k)
    BY <1>MoveNewFacts, SMTT(90)
  <2>2. /\ \A q \in Proc : q # p => proc'[q] = proc[q]
        /\ \A q \in Proc : Lastver(q)' = Lastver(q) /\ Nextver(q)' = Nextver(q)
        /\ committed' = committed
        /\ \A w \in Version : tree'[w] = None <=> tree[w] = None
    BY <2>1 DEF Moving, Lastver, Nextver
  <2>3. /\ \A k \in Chunk : ~Replacing(p, k)'
        /\ \A q \in Proc, k \in Chunk : q # p => (Replacing(q, k)' <=> Replacing(q, k))
        /\ \A k \in Chunk : Replacing(p, k) => k = c
    BY <2>1, <2>2 DEF Replacing
  <2>4. /\ ~ToMove(p, c)'
        /\ \A q \in Proc, k \in Chunk : ToMove(q, k)' => ToMove(q, k)
    <3>1. /\ DirOf(c) = proc[p].dir /\ proc[p].dir \in Nat
          /\ \A k \in Chunk : DirOf(k) \in Nat
      BY <2>0, TodoFacts, DirFacts, SMTT(30) DEF Dir
    <3>2. \A k \in Chunk : ToMove(p, k)' => ToMove(p, k) /\ k # c
      BY <3>1, <2>0, <2>1, SMTT(90) DEF ToMove, Replacing
    <3>3. \A q \in Proc, k \in Chunk : q # p /\ ToMove(q, k)' => ToMove(q, k)
      BY <2>2 DEF ToMove, Replacing
    <3> QED BY <3>2, <3>3
  <2>5. Owned' /\ Unfinished'
    <3>1. ASSUME NEW q \in Proc, NEW w \in Version, NEW k \in Chunk,
                 q # p, proc[q].pc = "hdk", w = Nextver(q)
          PROVE  File(w, k)' = None
      <4>1. Building(q) /\ Owner(q)
        BY <3>1 DEF Building, Owner
      <4>2. File(w, k) = None /\ w # N
        BY <4>1, <3>1, <2>n, <2>i DEF Unfinished
      <4> QED BY <4>2, <2>1
    <3> QED BY <3>1, <2>0, <2>1, <1>MovingStep, SMTT(90)
  \* Chunk c of the versions before the next one is kept in one of them.
  <2>6. \A v \in Version : v =< L /\ Anchored(v, c) => \E w \in v .. L : File(w, c) # None
    <3> SUFFICES ASSUME NEW v \in Version, v =< L, Anchored(v, c)
                 PROVE  \E w \in v .. L : File(w, c) # None
      OBVIOUS
    <3>1. v \in 1 .. L
      BY SMTT(30) DEF Version
    <3> QED BY <3>1, <2>0, <2>i DEF Handover, OldKept
  <2>7. \A v \in Nat \ {0}, k \in Chunk : k # c \/ v > N => Having(v, k)' = Having(v, k)
    <3> SUFFICES ASSUME NEW v \in Nat \ {0}, NEW k \in Chunk, k # c \/ v > N
                 PROVE  Having(v, k)' = Having(v, k)
      OBVIOUS
    <3>1. \A w \in v .. MaxVersion : w \in Version /\ (k # c \/ w # N)
      BY Bounds, SMTT(30) DEF Version
    <3> QED BY <3>1, <2>1 DEF Having
  \* A commit that may still move chunk c has it in the version it makes, or after.
  <2>8. \A q \in Proc : ToMove(q, c)' =>
          /\ q # p /\ Owner(q) /\ Lastver(q) \in Version /\ Lastver(q) # L
          /\ Lastver(q) < L => Having(Lastver(q) + 1, c) # {}
    <3> SUFFICES ASSUME NEW q \in Proc, ToMove(q, c)'
                 PROVE  /\ q # p /\ Owner(q) /\ Lastver(q) \in Version /\ Lastver(q) # L
                        /\ Lastver(q) < L => Having(Lastver(q) + 1, c) # {}
      OBVIOUS
    <3>1. q # p /\ Owner(q) /\ proc[q].pc # "hdk" /\ ~Replacing(q, c)
      BY <2>4, <1>MoverFacts
    <3>2. /\ Lastver(q) \in Version /\ Nextver(q) \in Version
          /\ Nextver(q) = Lastver(q) + 1 /\ Lastver(q) # L
      BY <3>1, <2>n, OwnerFacts
    <3>3. ASSUME Lastver(q) < L PROVE Having(Lastver(q) + 1, c) # {}
      <4>1. Nextver(q) =< L
        BY <3>2, <3>3, SMTT(30) DEF Version
      <4>2. Anchored(Nextver(q), c)
        BY <3>1 DEF Anchored
      <4>3. PICK w \in Nextver(q) .. L : File(w, c) # None
        BY <3>2, <4>1, <4>2, <2>6
      <4>4. w \in Having(Nextver(q), c)
        BY <3>2, <4>3, Bounds, SMTT(30) DEF Having, Version
      <4> QED BY <3>2, <4>4
    <3> QED BY <3>1, <3>2, <3>3
  <2>9. OldKept'
    <3> SUFFICES ASSUME NEW q \in Proc, NEW k \in Chunk, NEW l \in Version,
                        Replacing(q, k)', Lastver(q)' = l,
                        NEW v \in 1 .. l, Anchored(v, k)'
                 PROVE  \E w \in v .. l : File(w, k)' # None
      BY DEF OldKept
    <3>1. q # p /\ Replacing(q, k) /\ Lastver(q) = l
      BY <2>2, <2>3
    <3>2. CASE v = N /\ k = c
      BY <3>2, <2>1, SMTT(30)
    <3>3. CASE ~(v = N /\ k = c)
      <4>1. Anchored(v, k)
        <5>1. \A r \in Proc : /\ Owner(r)' <=> Owner(r)
                              /\ proc'[r].pc = "hdk" <=> proc[r].pc = "hdk"
          BY <2>0, <2>1, <2>2 DEF Owner
        <5>2. \A r \in Proc : Replacing(r, k) => Replacing(r, k)' \/ (r = p /\ k = c)
          BY <2>3
        <5> QED BY <3>3, <5>1, <5>2, <2>2 DEF Anchored
      <4>2. PICK w \in v .. l : File(w, k) # None
        BY <3>1, <4>1, <2>i DEF Handover, OldKept
      <4>3. w \in Version
        BY Bounds, SMTT(30) DEF Version
      <4> QED BY <4>2, <4>3, <2>1
    <3> QED BY <3>2, <3>3
  <2>10. Returned'
    <3> SUFFICES ASSUME NEW q \in Proc, NEW k \in Chunk, NEW l \in Version,
                        Replacing(q, k)', Lastver(q)' = l,
                        l + 1 \in Version, File(l + 1, k)' # None
                 PROVE  /\ l + 2 \in Version /\ tree'[l + 2] # None
                        /\ \A r \in Proc : proc'[r].pc = "hdk" => Lastver(r)' # l + 1
      BY DEF Returned
    <3>1. q # p /\ Replacing(q, k) /\ Lastver(q) = l
      BY <2>2, <2>3
    <3>2. l # L
      BY <3>1, <2>n, <1>MoverFacts
    <3>3. l + 1 # N
      BY <3>2, <2>n, SMTT(30) DEF Version
    <3>4. File(l + 1, k) # None
      BY <3>3, <2>1
    <3>5. /\ l + 2 \in Version /\ tree[l + 2] # None
          /\ \A r \in Proc : proc[r].pc = "hdk" => Lastver(r) # l + 1
      BY <3>1, <3>4, <2>i DEF Handover, Returned
    <3> QED BY <3>5, <2>1, <2>2
  <2>11. NotAhead'
    <3> SUFFICES ASSUME NEW q \in Proc, NEW r \in Proc, NEW k \in Chunk, NEW l \in Version,
                        Replacing(q, k)', Lastver(q)' = l, ToMove(r, k)', Lastver(r)' = l + 1
                 PROVE  Having(l + 2, k)' = {}
      BY DEF NotAhead
    <3>1. q # p /\ Replacing(q, k) /\ Lastver(q) = l /\ ToMove(r, k) /\ Lastver(r) = l + 1
      BY <2>2, <2>3, <2>4
    <3>2. Having(l + 2, k) = {}
      BY <3>1, <2>i DEF Handover, NotAhead
    <3>3. l + 2 \in Nat \ {0} /\ l + 1 + 1 = l + 2
      BY SMTT(30) DEF Version
    <3>4. CASE k = c
      <4>1. l + 1 # L /\ ~(l + 1 < L)
        BY <3>1, <3>2, <3>3, <3>4, <2>8
      <4>2. l + 2 > N
        BY <4>1, <2>n, Bounds, SMTT(30) DEF Version
      <4> QED BY <3>2, <3>3, <4>2, <2>7
    <3>5. CASE k # c
      BY <3>2, <3>3, <3>5, <2>7
    <3> QED BY <3>4, <3>5
  <2>12. NoOverwrite'
    <3> SUFFICES ASSUME NEW q \in Proc, NEW k \in Chunk, NEW l \in Version,
                        ToMove(q, k)', Lastver(q)' = l
                 PROVE  File(l, k)' = None \/ Having(l + 1, k)' = {}
      BY DEF NoOverwrite
    <3>1. ToMove(q, k) /\ Lastver(q) = l /\ l + 1 \in Nat \ {0}
      BY <2>2, <2>4, SMTT(30) DEF Version
    <3>2. File(l, k) = None \/ Having(l + 1, k) = {}
      BY <3>1, <2>i DEF Handover, NoOverwrite
    <3>3. CASE k # c
      BY <3>1, <3>2, <3>3, <2>1, <2>7
    <3>4. CASE k = c /\ l = N
      <4>1. Having(L + 2, c) = {}
        BY <3>1, <3>4, <2>0, <2>n, <2>i DEF Handover, NotAhead
      <4>2. L + 2 = l + 1 /\ l + 1 > N
        BY <3>4, <2>n, SMTT(30) DEF Version
      <4> QED BY <3>1, <3>4, <4>1, <4>2, <2>7
    <3>5. CASE k = c /\ l # N
      <4>1. CASE File(l, k) = None
        BY <3>5, <4>1, <2>1
      <4>2. CASE Having(l + 1, k) = {}
        <5>1. l # L /\ ~(l < L)
          BY <3>1, <3>5, <4>2, <2>8
        <5>2. l + 1 > N
          BY <5>1, <2>n, SMTT(30) DEF Version
        <5> QED BY <3>1, <4>2, <5>2, <2>7
      <4> QED BY <3>2, <4>1, <4>2
    <3> QED BY <3>3, <3>4, <3>5
  <2>13. VersionsKept'
    <3> SUFFICES ASSUME NEW v \in Version, committed'[v] # None
                 PROVE  Restored(v)' = committed'[v].disk
      BY DEF VersionsKept
    <3>0. committed'[v] = committed[v] /\ v # N
      BY <2>2, <2>n
    <3>1. /\ Restored(v) = committed[v].disk /\ committed'[v] = committed[v]
          /\ v # N /\ v \in Nat \ {0}
      BY <3>0, <2>i, SMTT(30) DEF VersionsKept, Version
    <3>2. ASSUME NEW k \in Chunk
          PROVE  \/ Having(v, k) = {} /\ Having(v, k)' = {}
                 \/ \E w, x \in Version : /\ First(v, w, k) /\ First(v, x, k)'
                                          /\ File(w, k) = File(x, k)'
      <4>1. CASE k # c \/ v > N
        <5>1. Having(v, k)' = Having(v, k)
          BY <3>1, <4>1, <2>7
        <5>2. CASE Having(v, k) # {}
          <6>1. PICK w \in Version : First(v, w, k)
            BY <5>2, FirstExists
          <6>2. First(v, w, k)'
            BY <5>1, <6>1 DEF First
          <6>3. k # c \/ w # N
            BY <4>1, <6>1, SMTT(30) DEF First, Having, Version
          <6> QED BY <6>1, <6>2, <6>3, <2>1
        <5> QED BY <5>1, <5>2
      <4>2. CASE k = c /\ ~(v > N)
        <5>1. v =< L
          BY <3>1, <4>2, <2>n, SMTT(30) DEF Version
        <5>2. PICK x \in v .. L : File(x, c) # None
          BY <3>1, <5>1, <2>2, <2>6 DEF Anchored
        <5>3. x \in Having(v, c)
          BY <5>2, Bounds, SMTT(30) DEF Having, Version
        <5>4. PICK w \in Version : First(v, w, c)
          BY <5>3, FirstExists
        <5>5. v =< w /\ w =< L /\ File(w, c) # None /\ w =< MaxVersion
          BY <5>2, <5>3, <5>4, SMTT(30) DEF First, Having, Version
        <5>6. \A u \in Version : v =< u /\ u < w => File(u, c) = None
          BY <5>4, Bounds, SMTT(30) DEF First, Having, Version
        <5>7. File(w, c)' = File(w, c)
          BY <5>5, <2>1, <2>n, SMTT(90) DEF Version
        <5>8. \A u \in Version : v =< u /\ u < w => File(u, c)' = None
          BY <5>5, <5>6, <2>1, <2>n, SMTT(20) DEF Version
        <5>9. First(v, w, c)'
          BY <5>5, <5>7, <5>8, Bounds, SMTT(20) DEF First, Having, Version
        <5> QED BY <4>2, <5>4, <5>7, <5>9
      <4> QED BY <4>1, <4>2
    <3>3. Restored(v)' = Restored(v)
      BY <3>2, RestoredTransfer
    <3> QED BY <3>1, <3>3
  <2> QED BY <2>1, <2>5, <2>9, <2>10, <2>11, <2>12, <2>13 DEF Handover
\* rename() of hdk takes all chunks of the last version to the next one.
<1>MoveHdkFacts.
  ASSUME StoreInv, NEW p \in Proc, MoveHdk(p), HasHdk(tree[Lastver(p)]),
         NEW L \in Version, NEW N \in Version, L = Lastver(p), N = Nextver(p)
  PROVE  /\ TypeOK' /\ Arguments' /\ Moving(p)
         /\ proc'[p].pc = "mkhdk"
         /\ \A k \in Chunk : File(L, k)' = None /\ File(N, k)' = File(L, k)
         /\ \A w \in Version, k \in Chunk : w # L /\ w # N => File(w, k)' = File(w, k)
  <2> USE <1>MoveHdkFacts
  <2>i. TypeOK /\ Arguments /\ Owned
    BY DEF StoreInv
  <2>0. Owner(p) /\ proc[p].pc = "hdk"
    BY DEF MoveHdk, Owner, BuildPc
  <2>1. L < N /\ tree[L] \in Tree /\ tree[N] \in Tree
    BY <2>0, OwnerFacts
  <2> DEFINE s == [proc[p] EXCEPT !.pc = "mkhdk"]
             tl == [tree[L] EXCEPT !.dirs = None, !.file = NoFiles]
             tn == [tree[N] EXCEPT !.dirs = tree[L].dirs, !.file = tree[L].file]
  <2>2. /\ proc' \in [Proc -> Process] /\ Arguments'
        /\ proc'[p] = s /\ s.pc = "mkhdk" /\ s.lastver = proc[p].lastver
        /\ \A q \in Proc : q # p => proc'[q] = proc[q]
    <3>1. Goto(p, "mkhdk")
      BY DEF MoveHdk
    <3>2. Become(p, s) /\ s \in Process
      BY <3>1, <2>i, GotoFacts DEF CommitPc
    <3>3. Sound(s) /\ s.pc = "mkhdk" /\ s.lastver = proc[p].lastver
      BY <2>0, <2>i DEF Arguments, Sound, RollbackPc, CommitPc, TypeOK, Process
    <3> HIDE DEF s
    <3> QED BY <3>2, <3>3, <2>i, BecomeFacts
  <2>3. /\ tl \in Tree /\ tn \in Tree
        /\ tl.file = NoFiles /\ tn.file = tree[L].file
        /\ tl.keyring = tree[L].keyring /\ tn.keyring = tree[N].keyring
    BY <2>1, TreeFacts DEF Tree
  <2>4. tree' = [tree EXCEPT ![N] = tn, ![L] = tl]
    <3>1. tree' = [tree EXCEPT
             ![N] = [@ EXCEPT !.dirs = tree[L].dirs, !.file = tree[L].file],
             ![L] = [@ EXCEPT !.dirs = None, !.file = NoFiles]]
      BY DEF MoveHdk
    <3> QED BY <3>1, <2>1, <2>i DEF TypeOK, Version
  <2> HIDE DEF s, tl, tn
  <2>5. /\ tree' \in [Version -> Tree \cup {None}]
        /\ tree'[L] = tl /\ tree'[N] = tn
        /\ \A w \in Version : w # L /\ w # N => tree'[w] = tree[w]
    BY <2>1, <2>3, <2>4, <2>i, SMTT(20) DEF TypeOK, Version
  <2>6. tl # None /\ tn # None /\ tree[L] # None /\ tree[N] # None
    BY <2>1, <2>3, NoneApart
  <2>7. /\ committed' = committed /\ last' = last /\ cache' = cache
        /\ lock' = lock /\ nonces' = nonces
    BY DEF MoveHdk
  <2>8. TypeOK'
    BY <2>2, <2>5, <2>7, <2>i DEF TypeOK
  <2>9. Moving(p)
    BY <2>0, <2>2, <2>3, <2>5, <2>6, <2>7 DEF Moving, BuildPc, FillPc
  <2>10. /\ \A k \in Chunk : File(L, k)' = None /\ File(N, k)' = File(L, k)
         /\ \A w \in Version, k \in Chunk : w # L /\ w # N => File(w, k)' = File(w, k)
    BY <2>3, <2>5, <2>6 DEF File, NoFiles
  <2> QED BY <2>2, <2>8, <2>9, <2>10
\* The whole of hdk is renamed from the newest version into the next one.
<1>MoveHdkStep.
  ASSUME StoreInv, NEW p \in Proc, MoveHdk(p), HasHdk(tree[Lastver(p)])
  PROVE  TypeOK' /\ Arguments' /\ Owned' /\ Unfinished' /\ Handover' /\ VersionsKept'
  <2> USE <1>MoveHdkStep
  <2> USE DEF BuildPc, FillPc
  <2>i. TypeOK /\ Arguments /\ Owned /\ Unfinished /\ Handover /\ VersionsKept
    BY DEF StoreInv
  <2>0. Owner(p) /\ Building(p) /\ proc[p].pc = "hdk"
    BY DEF MoveHdk, Owner, Building
  <2>l. PICK L \in Version : L = Lastver(p)
    BY <2>0, OwnerFacts
  <2>n. PICK N \in Version : N = Nextver(p) /\ N = L + 1
    BY <2>0, <2>l, OwnerFacts
  <2>1. /\ TypeOK' /\ Arguments' /\ Moving(p)
        /\ proc'[p].pc = "mkhdk"
        /\ \A k \in Chunk : File(L, k)' = None /\ File(N, k)' = File(L, k)
        /\ \A w \in Version, k \in Chunk : w # L /\ w # N => File(w, k)' = File(w, k)
    <3>1. L = Lastver(p) /\ N = Nextver(p)
      BY <2>l, <2>n
    <3> QED BY <3>1, <1>MoveHdkFacts
  <2>2. /\ \A q \in Proc : q # p => /\ proc'[q] = proc[q]
                                    /\ Lastver(q)' = Lastver(q) /\ Nextver(q)' = Nextver(q)
        /\ Lastver(p)' = L /\ Nextver(p)' = N
        /\ committed' = committed
        /\ \A w \in Version : tree'[w] = None <=> tree[w] = None
    BY <2>1, <2>l, <2>n DEF Moving, Lastver, Nextver
  \* The next version is the newest and was empty.
  <2>3. /\ \A k \in Chunk : File(N, k) = None
        /\ \A w \in Version : w > N => tree[w] = None /\ \A k \in Chunk : File(w, k) = None
    BY <2>0, <2>n, <2>i DEF Unfinished, File
  <2>4. \A q \in Proc : Owner(q) /\ q # p => /\ Lastver(q) \in Version /\ Lastver(q) < L
                                             /\ Nextver(q) = Lastver(q) + 1
    <3> SUFFICES ASSUME NEW q \in Proc, Owner(q), q # p
                 PROVE  Lastver(q) \in Version /\ Lastver(q) < L /\ Nextver(q) = Lastver(q) + 1
      OBVIOUS
    <3>1. /\ Lastver(q) \in Version /\ Lastver(q) # L /\ Nextver(q) = Lastver(q) + 1
          /\ Nextver(q) \in Version /\ tree[Nextver(q)] # None
      BY <2>0, <2>l, OwnerFacts, NoneApart
    <3>2. ~(Nextver(q) > N)
      BY <3>1, <2>3
    <3> QED BY <3>1, <3>2, <2>n, SMTT(20) DEF Version
  <2>5. Owned' /\ Unfinished'
    <3>1. ASSUME NEW q \in Proc, NEW w \in Version, NEW k \in Chunk,
                 q # p, proc[q].pc = "hdk", w = Nextver(q)
          PROVE  File(w, k)' = None
      <4>1. Building(q) /\ Owner(q)
        BY <3>1 DEF Building, Owner
      <4>2. File(w, k) = None /\ w # N
        BY <4>1, <3>1, <2>4, <2>n, <2>i, SMTT(20) DEF Unfinished, Version
      <4> QED BY <4>2, <2>1
    <3> QED BY <3>1, <2>0, <2>1, <1>MovingStep
  \* A chunk that no version from v on has is not in them afterwards.
  <2>6. \A v \in Version, k \in Chunk : v =< L /\ Having(v, k) = {} => Having(v, k)' = {}
    BY <2>1, <2>3, <2>n, Bounds, SMTT(20) DEF Having, Version
  <2>7. OldKept'
    <3> SUFFICES ASSUME NEW q \in Proc, NEW k \in Chunk, NEW l \in Version,
                        Replacing(q, k)', Lastver(q)' = l,
                        NEW v \in 1 .. l, Anchored(v, k)'
                 PROVE  \E w \in v .. l : File(w, k)' # None
      BY DEF OldKept
    <3>1. q # p /\ Replacing(q, k) /\ Lastver(q) = l
      BY <2>1, <2>2 DEF Replacing
    <3>2. l < L
      BY <3>1, <2>4 DEF Replacing, Owner
    <3>3. v # N
      BY <3>2, <2>n, SMTT(20) DEF Version
    <3>4. Anchored(v, k)
      <4>1. \A r \in Proc : r # p =>
              (Owner(r)' <=> Owner(r)) /\ (Replacing(r, k)' <=> Replacing(r, k))
        BY <2>2 DEF Owner, Replacing
      <4> QED BY <4>1, <3>3, <2>2 DEF Anchored
    <3>5. PICK w \in v .. l : File(w, k) # None
      BY <3>1, <3>4, <2>i DEF Handover, OldKept
    <3>6. w \in Version /\ w < L
      BY <3>2, Bounds, SMTT(20) DEF Version
    <3> QED BY <3>5, <3>6, <2>1, <2>n, SMTT(20) DEF Version
  <2>8. Returned'
    <3> SUFFICES ASSUME NEW q \in Proc, NEW k \in Chunk, NEW l \in Version,
                        Replacing(q, k)', Lastver(q)' = l,
                        l + 1 \in Version, File(l + 1, k)' # None
                 PROVE  /\ l + 2 \in Version /\ tree'[l + 2] # None
                        /\ \A r \in Proc : proc'[r].pc = "hdk" => Lastver(r)' # l + 1
      BY DEF Returned
    <3>1. q # p /\ Replacing(q, k) /\ Lastver(q) = l
      BY <2>1, <2>2 DEF Replacing
    <3>2. l < L
      BY <3>1, <2>4 DEF Replacing, Owner
    <3>3. l + 1 # L /\ l + 1 # N
      BY <3>2, <2>1, <2>n, SMTT(20) DEF Version
    <3>4. File(l + 1, k) # None
      BY <3>3, <2>1
    <3>5. /\ l + 2 \in Version /\ tree[l + 2] # None
          /\ \A r \in Proc : proc[r].pc = "hdk" => Lastver(r) # l + 1
      BY <3>1, <3>4, <2>i DEF Handover, Returned
    <3> QED BY <3>5, <2>1, <2>2
  <2>9. NotAhead'
    <3> SUFFICES ASSUME NEW q \in Proc, NEW r \in Proc, NEW k \in Chunk, NEW l \in Version,
                        Replacing(q, k)', Lastver(q)' = l, ToMove(r, k)', Lastver(r)' = l + 1
                 PROVE  Having(l + 2, k)' = {}
      BY DEF NotAhead
    <3>1. q # p /\ Replacing(q, k) /\ Lastver(q) = l
      BY <2>1, <2>2 DEF Replacing
    <3>2. CASE r # p
      <4>1. ToMove(r, k) /\ Owner(r) /\ Lastver(r) = l + 1
        BY <3>2, <2>2 DEF ToMove, Replacing, Owner
      <4>2. l + 2 \in Version /\ l + 2 =< L
        BY <4>1, <3>2, <2>4, Bounds, SMTT(20) DEF Version
      <4>3. Having(l + 2, k) = {}
        BY <3>1, <4>1, <2>i DEF Handover, NotAhead
      <4> QED BY <4>2, <4>3, <2>6
    <3>3. CASE r = p
      <4>1. L = l + 1 /\ N = l + 2
        BY <3>3, <2>2, <2>n, SMTT(20) DEF Version
      <4>2. File(L, k) = None
        BY <4>1, <3>1, <2>0, <2>l, <2>i DEF Handover, Returned
      <4>3. File(N, k)' = None
        BY <4>2, <2>1
      <4> QED BY <4>1, <4>3, <2>1, <2>3, <2>n, Bounds, SMTT(20) DEF Having, Version
    <3> QED BY <3>2, <3>3
  <2>10. NoOverwrite'
    <3> SUFFICES ASSUME NEW q \in Proc, NEW k \in Chunk, NEW l \in Version,
                        ToMove(q, k)', Lastver(q)' = l
                 PROVE  File(l, k)' = None \/ Having(l + 1, k)' = {}
      BY DEF NoOverwrite
    <3>1. CASE q = p
      BY <3>1, <2>1, <2>2
    <3>2. CASE q # p
      <4>1. ToMove(q, k) /\ Owner(q) /\ Lastver(q) = l
        BY <3>2, <2>2 DEF ToMove, Replacing, Owner
      <4>2. l < L /\ l + 1 \in Version /\ l + 1 =< L
        BY <4>1, <3>2, <2>4, Bounds, SMTT(20) DEF Version
      <4>3. File(l, k) = None \/ Having(l + 1, k) = {}
        BY <4>1, <2>i DEF Handover, NoOverwrite
      <4>4. l # L /\ l # N
        BY <4>2, <2>n, SMTT(20) DEF Version
      <4> QED BY <4>2, <4>3, <4>4, <2>1, <2>6
    <3> QED BY <3>1, <3>2
  <2>11. VersionsKept'
    <3> SUFFICES ASSUME NEW v \in Version, committed'[v] # None
                 PROVE  Restored(v)' = committed'[v].disk
      BY DEF VersionsKept
    <3>1. Restored(v) = committed[v].disk /\ committed'[v] = committed[v]
      BY <2>2, <2>i DEF VersionsKept
    <3>2. v \in Version /\ v =< L
      <4>1. committed[v] # None
        BY <3>1
      <4>2. tree[v] # None
        BY <4>1, <2>i DEF Owned
      <4>3. committed[N] = None
        BY <2>0, <2>n, OwnerFacts
      <4> QED BY <4>1, <4>2, <4>3, <2>3, <2>n, SMTT(30) DEF Version
    <3>3. ASSUME NEW k \in Chunk
          PROVE  \/ Having(v, k) = {} /\ Having(v, k)' = {}
                 \/ \E w, x \in Version : /\ First(v, w, k) /\ First(v, x, k)'
                                          /\ File(w, k) = File(x, k)'
      <4>1. CASE Having(v, k) = {}
        BY <4>1, <3>2, <2>6
      <4>2. CASE Having(v, k) # {}
        <5>1. PICK w \in Version : First(v, w, k)
          BY <4>2, FirstExists
        <5>2. w =< L /\ v =< w /\ File(w, k) # None
          BY <5>1, <2>3, <2>n, SMTT(20) DEF First, Having, Version
        <5>3. \A u \in Version : v =< u /\ u < w => File(u, k) = None
          BY <5>1, Bounds, SMTT(20) DEF First, Having, Version
        <5>4. CASE w < L
          <6>1. First(v, w, k)'
            BY <5>2, <5>3, <5>4, <2>1, <2>n, Bounds, SMTT(30) DEF First, Having, Version
          <6>2. File(w, k)' = File(w, k)
            BY <5>4, <2>1, <2>n, SMTT(20) DEF Version
          <6> QED BY <5>1, <6>1, <6>2
        <5>5. CASE w = L
          <6>1. First(v, N, k)'
            BY <5>2, <5>3, <5>5, <2>1, <2>n, Bounds, SMTT(30) DEF First, Having, Version
          <6> QED BY <5>1, <5>5, <6>1, <2>1
        <5> QED BY <5>2, <5>4, <5>5, SMTT(20) DEF Version
      <4> QED BY <4>1, <4>2
    <3> QED BY <3>1, <3>3, RestoredTransfer
  <2> QED BY <2>1, <2>5, <2>7, <2>8, <2>9, <2>10, <2>11 DEF Handover
<1> SUFFICES ASSUME NEW p \in Proc, StoreInv,
                    MakeNext(p) \/ MoveHdk(p) \/ MoveOld(p) \/ MoveNew(p) \/ LinkLast(p)
             PROVE  StoreInv'
  OBVIOUS
<1>1. CASE Fails(p)
  BY <1>1, FailsStep
<1>2. CASE MakeNext(p) /\ ~Fails(p)
  BY <1>2, <1>MakeNextStep DEF MakeNext, StoreInv
<1>3. CASE MoveHdk(p) /\ ~Fails(p)
  BY <1>3, <1>MoveHdkStep DEF MoveHdk, StoreInv
<1>4. CASE LinkLast(p) /\ ~Fails(p)
  BY <1>4, <1>LinkLastStep DEF LinkLast, StoreInv
<1>5. CASE (MoveOld(p) \/ MoveNew(p)) /\ ~Fails(p)
  <2>0. proc[p].pc \in {"old", "new"} /\ Owner(p)
    BY <1>5 DEF MoveOld, MoveNew, Owner, FillPc
  <2>1. PICK c \in Chunk : c = Min(proc[p].todo)
    BY <2>0, TodoFacts
  <2>2. PICK L \in Version : L = Lastver(p) /\ tree[L] \in Tree
    BY <2>0, OwnerFacts
  <2>3. PICK N \in Version : N = Nextver(p) /\ tree[N] \in Tree /\ tree[N] # None
    BY <2>0, OwnerFacts, NoneApart
  <2>4. CASE MoveOld(p)
    <3>1. File(N, c) # None /\ HasDir(tree[L], DirOf(c))
      BY <2>1, <2>2, <2>3, <2>4, <1>5 DEF MoveOld, File
    <3> QED BY <2>1, <2>2, <2>3, <2>4, <3>1, <1>MoveOldStep DEF StoreInv
  <2>5. CASE MoveNew(p)
    <3>1. Upload(p) # None /\ Upload(p).file[c] # None /\ HasDir(tree[N], DirOf(c))
      BY <2>1, <2>3, <2>5, <1>5 DEF MoveNew
    <3> QED BY <2>1, <2>2, <2>3, <2>5, <3>1, <1>MoveNewStep DEF StoreInv
  <2> QED BY <2>4, <2>5, <1>5
<1> QED BY <1>1, <1>2, <1>3, <1>4, <1>5

\* The uploads keep their type.
LEMMA CacheOK ==
  ASSUME StoreInv, NEW n \in Nonce, NEW t \in Tree \cup {None},
         cache' = [cache EXCEPT ![n] = t], UNCHANGED <<last, lock, nonces, committed>>
  PROVE  RestOK
BY DEF StoreInv, TypeOK, RestOK

\* Every step of a program on the server preserves the invariant of the parcel.
LEMMA ScriptStepInv ==
  \A p \in Proc : StoreInv /\ (ScriptStep(p) \/ Killed(p)) => StoreInv'
\* A step that changes a version directory, but not its chunks.
<1>EditStep.
  ASSUME StoreInv, NEW p \in Proc, NEW s \in Process, Sound(s), Become(p, s),
         RestOK, Continues(p, s),
         NEW v \in Version, tree[v] # None, NEW t \in Tree,
         tree' = [tree EXCEPT ![v] = t], t.file = tree[v].file,
         t.keyring = tree[v].keyring \/ (v = Nextver(p) /\ s.pc \notin BuildPc)
  PROVE  StoreInv'
  <2> USE <1>EditStep
  <2>1. /\ proc' \in [Proc -> Process] /\ Arguments' /\ proc'[p] = s
        /\ \A q \in Proc : q # p => proc'[q] = proc[q]
    BY BecomeFacts DEF StoreInv
  <2>2. /\ tree' \in [Version -> Tree \cup {None}]
        /\ tree'[v] = t /\ t # None
        /\ \A w \in Version : w # v => tree'[w] = tree[w]
        /\ \A k \in Chunk : File(v, k)' = t.file[k]
        /\ \A w \in Version : w # v => \A k \in Chunk : File(w, k)' = File(w, k)
    BY FileFacts DEF StoreInv
  <2>3. TypeOK'
    BY <2>1, <2>2 DEF StoreInv, TypeOK, RestOK
  <2>4. SameFiles
    BY <2>2 DEF SameFiles, File
  <2>5. Quiet(p)
    BY <2>1, <2>2, <2>4 DEF Quiet, Continues, RestOK
  <2> QED BY <2>1, <2>3, <2>5, QuietStep DEF StoreInv
\* A process that only goes on to the next line of its program.
<1>GotoStep.
  ASSUME StoreInv, NEW p \in Proc, RestOK, tree' = tree,
         NEW l \in {"scan", "target", "copy", "unlink", "link"}, Goto(p, l),
         l = "scan" => proc[p].pc = "nonce",
         l = "target" => proc[p].pc = "locked",
         l = "copy" => proc[p].pc = "mkcache",
         l = "unlink" => proc[p].pc = "dir",
         l = "link" => proc[p].pc = "unlink"
  PROVE  StoreInv'
  <2> USE <1>GotoStep
  <2> DEFINE s == [proc[p] EXCEPT !.pc = l]
  <2>1. proc[p] \in Process /\ Sound(proc[p]) /\ TypeOK /\ Arguments
    BY DEF StoreInv, TypeOK, Arguments
  <2>2. Become(p, s) /\ s \in Process
    BY <2>1, GotoFacts DEF RollbackPc, CommitPc
  <2>3. /\ s.pc = l /\ s.lastver = proc[p].lastver /\ s.nonce = proc[p].nonce
        /\ s.target = proc[p].target /\ s.version = proc[p].version
    BY <2>1 DEF Process
  <2> HIDE DEF s
  <2>4. Sound(s)
    BY <2>1, <2>3 DEF Sound, RollbackPc, CommitPc
  <2>5. CASE l \in {"scan", "target", "copy"}
    BY <2>2, <2>3, <2>4, <2>5, StillStep DEF BuildPc, FillPc
  <2>6. CASE l \in {"unlink", "link"}
    <3>1. proc'[p] = s
      BY <2>1, <2>2, <2>4, BecomeFacts
    <3>2. Continues(p, s)
      BY <3>1, <2>3, <2>6 DEF Continues, BuildPc, FillPc, ToMove
    <3> QED BY <2>2, <2>4, <3>2, StillStep
  <2> QED BY <2>5, <2>6
\* The nonce is checked.
<1>CheckNonceStep.
  ASSUME StoreInv, NEW p \in Proc, CheckNonce(p) \/ RollbackNonce(p)
  PROVE  StoreInv'
  BY <1>CheckNonceStep, FailsStep, RestSame, <1>GotoStep DEF CheckNonce, RollbackNonce
\* The newest version is found.
<1>ScanStep.
  ASSUME StoreInv, NEW p \in Proc, Scan(p)
  PROVE  StoreInv'
  <2> USE <1>ScanStep
  <2>1. CASE Fails(p)
    BY <2>1, FailsStep
  <2>2. CASE ~Fails(p)
    <3> DEFINE s == [proc[p] EXCEPT !.pc = "mkdir", !.lastver = LastVersion]
    <3>1. /\ Whole(tree[LastVersion]) /\ Become(p, s) /\ tree' = tree /\ RestOK
          /\ proc[p].pc = "scan"
      BY <2>2, RestSame DEF Scan
    <3>2. LastVersion \in Version /\ tree[LastVersion] # None /\ tree[LastVersion].keyring # None
      BY <3>1, LastVersionFacts DEF StoreInv, Owned, Whole
    <3>3. proc[p] \in Process /\ Sound(proc[p])
      BY DEF StoreInv, TypeOK, Arguments
    <3>4. /\ s \in Process /\ s.pc = "mkdir" /\ s.lastver = LastVersion
          /\ s.nonce = proc[p].nonce
      BY <3>2, <3>3 DEF Process, CommitPc
    <3> HIDE DEF s
    <3>5. Sound(s)
      BY <3>1, <3>3, <3>4 DEF Sound, RollbackPc, CommitPc
    <3> QED BY <3>1, <3>2, <3>4, <3>5, StillStep
  <2> QED BY <2>1, <2>2
\* The older version gets an empty hdk.
<1>MakeHdkStep.
  ASSUME StoreInv, NEW p \in Proc, MakeHdk(p)
  PROVE  StoreInv'
  <2> USE <1>MakeHdkStep
  <2>1. CASE Fails(p)
    BY <2>1, FailsStep
  <2>2. CASE ~Fails(p)
    <3>0. Owner(p) /\ proc[p].pc = "mkhdk" /\ proc[p] \in Process /\ Sound(proc[p])
      BY DEF StoreInv, TypeOK, Arguments, MakeHdk, Owner, BuildPc
    <3>1. PICK L \in Version : L = Lastver(p) /\ tree[L] \in Tree
      BY <3>0, OwnerFacts
    <3> DEFINE s == [proc[p] EXCEPT !.pc = "cfg"]
               t == [tree[L] EXCEPT !.dirs = {}]
    <3>2. tree' = [tree EXCEPT ![L] = t] /\ Goto(p, "cfg") /\ RestOK
      BY <2>2, <3>1, RestSame DEF MakeHdk
    <3>3. t \in Tree /\ t.file = tree[L].file /\ t.keyring = tree[L].keyring
      BY <3>1 DEF Tree
    <3>4. Become(p, s) /\ s \in Process
      BY <3>2, GotoFacts DEF CommitPc, StoreInv
    <3>5. s.pc = "cfg" /\ s.nonce = proc[p].nonce /\ s.lastver = proc[p].lastver
      BY <3>0 DEF Process
    <3> HIDE DEF s, t
    <3>6. Sound(s)
      BY <3>0, <3>5 DEF Sound, RollbackPc, CommitPc
    <3>7. Continues(p, s)
      BY <3>0, <3>5 DEF Continues, BuildPc, FillPc, ToMove
    <3>8. tree[L] # None
      BY <3>1, NoneApart
    <3> QED BY <3>2, <3>3, <3>4, <3>6, <3>7, <3>8, <1>EditStep
  <2> QED BY <2>1, <2>2
\* One rename() of a file other than a chunk from the upload to the next version.
<1>MoveFileStep.
  ASSUME StoreInv, NEW p \in Proc, MoveCfg(p) \/ MoveKeyring(p)
  PROVE  StoreInv'
  <2> USE <1>MoveFileStep
  <2>1. CASE Fails(p)
    BY <2>1, FailsStep
  <2>2. CASE ~Fails(p)
    <3>0. Owner(p) /\ proc[p] \in Process /\ Sound(proc[p])
      BY DEF StoreInv, TypeOK, Arguments, MoveCfg, MoveKeyring, Owner, BuildPc
    <3>1. PICK N \in Version : N = Nextver(p) /\ tree[N] \in Tree
      BY <3>0, OwnerFacts
    <3>2. PICK n \in Nonce : n = proc[p].nonce
      BY <3>0 DEF Sound, CommitPc, MoveCfg, MoveKeyring
    <3>3. Upload(p) # None /\ Upload(p) = cache[n]
      BY <2>2, <3>2 DEF MoveCfg, MoveKeyring, Upload
    <3>4. cache[n] \in Tree /\ cache \in [Nonce -> Tree \cup {None}] /\ tree[N] # None
      BY <3>1, <3>3, NoneApart DEF StoreInv, TypeOK
    <3>5. CASE MoveCfg(p)
      <4> DEFINE s == [proc[p] EXCEPT !.pc = "keyring"]
                 t == [tree[N] EXCEPT !.cfg = TRUE]
                 u == [cache[n] EXCEPT !.cfg = FALSE]
      <4>1. /\ tree' = [tree EXCEPT ![N] = t] /\ cache' = [cache EXCEPT ![n] = u]
            /\ Goto(p, "keyring") /\ UNCHANGED <<last, lock, nonces, committed>>
            /\ proc[p].pc = "cfg"
        BY <2>2, <3>1, <3>2, <3>5 DEF MoveCfg
      <4>2. t \in Tree /\ t.file = tree[N].file /\ t.keyring = tree[N].keyring /\ u \in Tree
        BY <3>1, <3>4 DEF Tree
      <4>3. Become(p, s) /\ s \in Process
        BY <4>1, GotoFacts DEF CommitPc, StoreInv
      <4>4. s.pc = "keyring" /\ s.nonce = proc[p].nonce /\ s.lastver = proc[p].lastver
        BY <3>0 DEF Process
      <4> HIDE DEF s, t, u
      <4>5. Sound(s)
        BY <3>0, <4>1, <4>4 DEF Sound, RollbackPc, CommitPc
      <4>6. Continues(p, s)
        BY <4>1, <4>4 DEF Continues, BuildPc, FillPc, ToMove
      <4>7. RestOK
        BY <4>1, <4>2, <3>4 DEF StoreInv, TypeOK, RestOK
      <4> QED BY <4>1, <4>2, <4>3, <4>5, <4>6, <4>7, <3>4, <1>EditStep
    <3>6. CASE MoveKeyring(p)
      <4> DEFINE s == [proc[p] EXCEPT !.pc = "dir"]
                 t == [tree[N] EXCEPT !.keyring = cache[n].keyring]
                 u == [cache[n] EXCEPT !.keyring = None]
      <4>1. /\ tree' = [tree EXCEPT ![N] = t] /\ cache' = [cache EXCEPT ![n] = u]
            /\ Goto(p, "dir") /\ UNCHANGED <<last, lock, nonces, committed>>
            /\ proc[p].pc = "keyring"
        BY <2>2, <3>1, <3>2, <3>3, <3>6 DEF MoveKeyring
      <4>2. t \in Tree /\ t.file = tree[N].file /\ u \in Tree
        BY <3>1, <3>4 DEF Tree
      <4>3. Become(p, s) /\ s \in Process
        BY <4>1, GotoFacts DEF CommitPc, StoreInv
      <4>4. s.pc = "dir" /\ s.nonce = proc[p].nonce /\ s.lastver = proc[p].lastver
        BY <3>0 DEF Process
      <4> HIDE DEF s, t, u
      <4>5. Sound(s)
        BY <3>0, <4>1, <4>4 DEF Sound, RollbackPc, CommitPc
      <4>6. Continues(p, s)
        BY <4>1, <4>4 DEF Continues, BuildPc, FillPc, ToMove
      <4>7. RestOK
        BY <4>1, <4>2, <3>4 DEF StoreInv, TypeOK, RestOK
      <4>8. s.pc \notin BuildPc
        BY <4>4 DEF BuildPc
      <4> QED BY <4>1, <4>2, <4>3, <4>5, <4>6, <4>7, <4>8, <3>1, <3>4, <1>EditStep
    <3> QED BY <3>5, <3>6
  <2> QED BY <2>1, <2>2
\* The directories are counted up, or one of the last version is made.
<1>EnterDirStep.
  ASSUME StoreInv, NEW p \in Proc, EnterDir(p)
  PROVE  StoreInv'
  <2> USE <1>EnterDirStep
  <2> DEFINE d == proc[p].dir
             files == Listed(p, d)
  <2>0. /\ Owner(p) /\ proc[p].pc = "dir" /\ proc[p] \in Process /\ Sound(proc[p])
        /\ d \in 0 .. NumDirs /\ NumDirs \in Nat
    BY DirFacts DEF StoreInv, TypeOK, Arguments, EnterDir, Owner, FillPc, Process
  <2>1. CASE Fails(p)
    BY <2>1, FailsStep
  <2>2. CASE DirsDone(d)
    BY <2>2, <2>0, RestSame, <1>GotoStep DEF EnterDir
  <2>3. CASE ~DirsDone(d) /\ files = {}
    <3> DEFINE s == [proc[p] EXCEPT !.dir = d + 1]
    <3>1. Become(p, s) /\ tree' = tree /\ RestOK
      BY <2>3, RestSame DEF EnterDir, PassOver
    <3>2. d + 1 \in 0 .. NumDirs
      BY <2>0, <2>3, SMTT(20) DEF DirsDone
    <3>3. /\ s \in Process /\ s.pc = "dir" /\ s.nonce = proc[p].nonce
          /\ s.lastver = proc[p].lastver /\ s.dir = d + 1
      BY <2>0, <3>2 DEF Process
    <3> HIDE DEF s
    <3>4. Sound(s)
      BY <2>0, <3>3 DEF Sound, RollbackPc, CommitPc
    <3>5. proc'[p] = s
      BY <3>1, <3>3, <3>4, BecomeFacts DEF StoreInv
    <3>6. \A k \in Chunk : DirOf(k) \in Nat
      BY DirFacts, SMTT(20) DEF Dir
    <3>7. \A k \in Chunk : ToMove(p, k)' => ToMove(p, k)
      BY <2>0, <3>3, <3>5, <3>6, SMTT(30) DEF ToMove
    <3>8. Continues(p, s)
      BY <2>0, <3>3, <3>7 DEF Continues, BuildPc, FillPc
    <3> QED BY <3>1, <3>3, <3>4, <3>8, StillStep
  <2>4. CASE ~Fails(p) /\ ~DirsDone(d) /\ files # {}
    <3>1. PICK L \in Version : L = Lastver(p) /\ tree[L] \in Tree
      BY <2>0, OwnerFacts
    <3> DEFINE s == [proc[p] EXCEPT !.pc = "old", !.todo = files]
               t == [tree[L] EXCEPT !.dirs = @ \cup {d}]
    <3>2. /\ tree' = [tree EXCEPT ![L] = t] /\ Become(p, s) /\ RestOK
          /\ tree[L].dirs # None
      BY <2>4, <3>1, RestSame DEF EnterDir, HasHdk
    <3>3. d < NumDirs /\ d \in Dir
      BY <2>0, <2>4, SMTT(20) DEF DirsDone, Dir
    <3>4. t \in Tree /\ t.file = tree[L].file /\ t.keyring = tree[L].keyring
      BY <3>1, <3>2, <3>3 DEF Tree
    <3>5. files \in SUBSET Chunk /\ \A k \in files : DirOf(k) = d
      BY DEF Listed, FilesIn
    <3>6. /\ s \in Process /\ s.pc = "old" /\ s.nonce = proc[p].nonce
          /\ s.lastver = proc[p].lastver /\ s.dir = d /\ s.todo = files
      BY <2>0, <3>5 DEF Process, CommitPc
    <3> HIDE DEF s, t
    <3>7. Sound(s)
      BY <2>0, <2>4, <3>3, <3>5, <3>6 DEF Sound, RollbackPc, CommitPc
    <3>8. proc'[p] = s
      BY <3>2, <3>6, <3>7, BecomeFacts DEF StoreInv
    <3>9. \A k \in Chunk : DirOf(k) \in Nat
      BY DirFacts, SMTT(30) DEF Dir
    <3>10. \A k \in Chunk : ToMove(p, k)' => ToMove(p, k)
      BY <2>0, <3>5, <3>6, <3>8, <3>9, SMTT(30) DEF ToMove
    <3>11. Continues(p, s)
      BY <2>0, <3>6, <3>10 DEF Continues, BuildPc, FillPc
    <3>12. tree[L] # None
      BY <3>1, NoneApart
    <3> QED BY <3>2, <3>4, <3>6, <3>7, <3>11, <3>12, <1>EditStep
  <2> QED BY <2>1, <2>2, <2>3, <2>4
\* The link last is removed.
<1>UnlinkLastStep.
  ASSUME StoreInv, NEW p \in Proc, UnlinkLast(p)
  PROVE  StoreInv'
  <2> USE <1>UnlinkLastStep
  <2>1. CASE Fails(p)
    BY <2>1, FailsStep
  <2>2. CASE ~Fails(p)
    <3>1. Goto(p, "link") /\ tree' = tree /\ proc[p].pc = "unlink"
      BY <2>2 DEF UnlinkLast
    <3>2. RestOK
      BY <2>2 DEF UnlinkLast, RestOK, StoreInv, TypeOK
    <3> QED BY <3>1, <3>2, <1>GotoStep
  <2> QED BY <2>1, <2>2
\* The uploads are removed.
<1>RemoveUploadsStep.
  ASSUME StoreInv, NEW p \in Proc, RemoveUploads(p)
  PROVE  StoreInv'
  <2> USE <1>RemoveUploadsStep
  <2>1. RestOK
    BY DEF RemoveUploads, RestOK, StoreInv, TypeOK
  <2> QED BY <2>1, ExitStep DEF RemoveUploads
\* A rollback compares the keyring of its target with the newest one.
<1>RollbackTargetStep.
  ASSUME StoreInv, NEW p \in Proc, RollbackTarget(p)
  PROVE  StoreInv'
  <2> USE <1>RollbackTargetStep
  <2> DEFINE t == proc[p].target
             v == LastVersion
             d == Differing(tree[t].keyring, tree[v].keyring)
             s == [proc[p] EXCEPT !.pc = "mkcache", !.lastver = v, !.version = t,
                                  !.diffs = d]
  <2>1. CASE Fails(p)
    BY <2>1, FailsStep
  <2>2. CASE Exit(p, "ok") /\ UNCHANGED <<tree, last, cache, lock, nonces, committed>>
    BY <2>2, RestSame, ExitStep
  <2>3. CASE /\ t # v /\ tree[t] # None
             /\ Become(p, s) /\ UNCHANGED <<tree, last, cache, lock, nonces, committed>>
    <3>1. proc[p] \in Process /\ Sound(proc[p]) /\ proc[p].pc = "target"
      BY DEF RollbackTarget, StoreInv, TypeOK, Arguments
    <3>2. t \in Version /\ proc[p].nonce \in Nonce
      BY <3>1 DEF Sound, RollbackPc
    <3>3. v \in Version /\ \A w \in Version : w > v => tree[w] = None
      BY LastVersionFacts DEF StoreInv, Owned
    <3>4. t < v
      BY <2>3, <3>2, <3>3, Bounds, SMTT(30) DEF Version
    <3>5. d \in SUBSET Chunk
      BY DEF Differing
    <3>6. "mkcache" \in RollbackPc \cup CommitPc \cup {"idle", "ok", "failed"}
      BY DEF RollbackPc
    <3> HIDE DEF t, v, d
    <3>7. s \in Process
      BY <3>1, <3>2, <3>3, <3>5, <3>6 DEF Process
    <3>8. /\ s.pc = "mkcache" /\ s.lastver = v /\ s.version = t
          /\ s.nonce = proc[p].nonce /\ s.target = proc[p].target
      BY <3>1 DEF Process
    <3> HIDE DEF s
    <3>9. Sound(s)
      BY <3>2, <3>3, <3>4, <3>8 DEF Sound, RollbackPc, CommitPc, t
    <3>10. s.pc \notin {"mkdir"} \cup BuildPc \cup FillPc
      BY <3>8 DEF BuildPc, FillPc
    <3> QED BY <2>3, <3>7, <3>9, <3>10, RestSame, StillStep
  <2> QED BY <2>1, <2>2, <2>3 DEF RollbackTarget
\* A rollback makes an upload directory.
<1>MakeCacheStep.
  ASSUME StoreInv, NEW p \in Proc, MakeCache(p)
  PROVE  StoreInv'
  <2> USE <1>MakeCacheStep
  <2>1. PICK n \in Nonce : n = proc[p].nonce
    BY DEF StoreInv, Arguments, Sound, MakeCache, RollbackPc
  <2>2. [EmptyDir EXCEPT !.dirs = {}] \in Tree
    BY TreeFacts DEF Tree
  <2>3. RestOK
    BY <2>1, <2>2, CacheOK DEF MakeCache
  <2> QED BY <2>3, <1>GotoStep DEF MakeCache
\* A rollback copies chunks of one version into it.
<1>CopyVersionStep.
  ASSUME StoreInv, NEW p \in Proc, CopyVersion(p)
  PROVE  StoreInv'
  <2> USE <1>CopyVersionStep
  <2> DEFINE after == proc[p].version + 1
             s == [proc[p] EXCEPT !.version = after,
                     !.pc = IF after = Lastver(p) THEN "copyfiles" ELSE "copy"]
  <2>1. CASE Fails(p)
    BY <2>1, FailsStep
  <2>2. CASE ~Fails(p)
    <3>1. proc[p] \in Process /\ Sound(proc[p]) /\ proc[p].pc = "copy"
      BY DEF CopyVersion, StoreInv, TypeOK, Arguments
    <3>2. /\ proc[p].version \in Version /\ proc[p].lastver \in Version
          /\ proc[p].version < proc[p].lastver
          /\ proc[p].nonce \in Nonce /\ proc[p].target \in Version
      BY <3>1 DEF Sound, RollbackPc
    <3>4. /\ HasHdk(tree[proc[p].version]) /\ (Found(p) # {} => HasHdk(Upload(p)))
          /\ Become(p, s) /\ tree' = tree
          /\ UNCHANGED <<last, lock, nonces, committed>>
      BY <2>2 DEF CopyVersion
    <3>5. RestOK
      <4>1. CASE Found(p) = {}
        <5>1. cache' = cache
          BY <2>2, <4>1 DEF CopyVersion
        <5> QED BY <3>4, <5>1, RestSame
      <4>2. CASE Found(p) # {}
        <5>1. cache' = [cache EXCEPT ![proc[p].nonce] = Copied(p)]
          BY <2>2, <4>2 DEF CopyVersion
        <5>2. Upload(p) \in Tree
          BY <3>2, <3>4, <4>2 DEF StoreInv, TypeOK, HasHdk, Upload
        <5>3. tree[proc[p].version] \in Tree
          BY <3>2, <3>4 DEF StoreInv, TypeOK, HasHdk
        <5>4. [k \in Chunk |-> IF k \in Found(p) /\ MustCopy(p, k)
                               THEN tree[proc[p].version].file[k]
                               ELSE Upload(p).file[k]] \in [Chunk -> Tag \cup {None}]
          <6>1. /\ Upload(p).file \in [Chunk -> Tag \cup {None}]
                /\ tree[proc[p].version].file \in [Chunk -> Tag \cup {None}]
            BY <5>2, <5>3, TreeFacts
          <6> QED BY <6>1
        <5>5. Upload(p).dirs \cup {DirOf(k) : k \in Found(p)} \in SUBSET Dir
          <6>1. Upload(p).dirs \in SUBSET Dir
            BY <3>4, <4>2, <5>2, TreeFacts DEF HasHdk
          <6> QED BY <6>1, DirFacts DEF Found
        <5>6. Copied(p) \in Tree
          <6>1. /\ Upload(p).cfg \in BOOLEAN
                /\ Upload(p).keyring \in Keyring \cup {None}
            BY <5>2 DEF Tree
          <6> QED BY <5>4, <5>5, <6>1 DEF Copied, Tree
        <5> QED BY <3>2, <3>4, <5>1, <5>6, CacheOK
      <4> QED BY <4>1, <4>2
    <3>6. after \in Version /\ (after # proc[p].lastver => after < proc[p].lastver)
      BY <3>2, Bounds, SMTT(20) DEF Version
    <3>7. /\ s \in Process
          /\ s.pc = IF after = proc[p].lastver THEN "copyfiles" ELSE "copy"
          /\ s.version = after /\ s.lastver = proc[p].lastver
          /\ s.nonce = proc[p].nonce /\ s.target = proc[p].target
      <4> HIDE DEF after
      <4> QED BY <3>1, <3>6 DEF Process, RollbackPc, Lastver
    <3> HIDE DEF s, after
    <3>8. Sound(s)
      BY <3>2, <3>6, <3>7 DEF Sound, RollbackPc, CommitPc
    <3>9. s.pc \notin {"mkdir"} \cup BuildPc \cup FillPc
      BY <3>7 DEF BuildPc, FillPc
    <3> QED BY <3>4, <3>5, <3>7, <3>8, <3>9, StillStep
  <2> QED BY <2>1, <2>2
\* A rollback copies configuration and keyring, and starts the commit.
<1>CopyFilesStep.
  ASSUME StoreInv, NEW p \in Proc, CopyFiles(p)
  PROVE  StoreInv'
  <2> USE <1>CopyFilesStep
  <2>1. CASE Fails(p)
    BY <2>1, FailsStep
  <2>2. CASE ~Fails(p)
    <3>1. proc[p] \in Process /\ Sound(proc[p]) /\ proc[p].pc = "copyfiles"
      BY DEF CopyFiles, StoreInv, TypeOK, Arguments
    <3>2. proc[p].nonce \in Nonce /\ proc[p].target \in Version
      BY <3>1 DEF Sound, RollbackPc
    <3>3. PICK n \in Nonce : n = proc[p].nonce
      BY <3>2
    <3>4. PICK v \in Version : v = proc[p].target
      BY <3>2
    <3> DEFINE t == [cache[n] EXCEPT !.cfg = TRUE, !.keyring = tree[v].keyring]
    <3>5. /\ cache[n] # None /\ tree[v] # None
          /\ cache' = [cache EXCEPT ![n].cfg = TRUE, ![n].keyring = tree[v].keyring]
          /\ Start(p, "nonce", n, v) /\ tree' = tree
          /\ UNCHANGED <<last, lock, nonces, committed>>
      BY <2>2, <3>3, <3>4 DEF CopyFiles, Upload, Start
    <3>6. cache[n] \in Tree /\ cache \in [Nonce -> Tree \cup {None}]
      BY <3>5 DEF StoreInv, TypeOK
    <3>7. cache' = [cache EXCEPT ![n] = t]
      BY <3>5, <3>6
    <3>8. t \in Tree \cup {None}
      <4>1. tree[v] \in Tree
        BY <3>5 DEF StoreInv, TypeOK
      <4> QED BY <3>6, <4>1, TreeFacts DEF Tree
    <3> HIDE DEF t
    <3>9. RestOK
      BY <3>5, <3>7, <3>8, CacheOK
    <3> QED BY <3>5, <3>9, StartStep
  <2> QED BY <2>1, <2>2
<1> SUFFICES ASSUME NEW p \in Proc, StoreInv, ScriptStep(p) \/ Killed(p)
             PROVE  StoreInv'
  OBVIOUS
<1>1. CASE Killed(p)
  BY <1>1, FailsStep DEF Killed
<1>2. CASE Commit(p)
  BY <1>2, <1>CheckNonceStep, <1>ScanStep, ChunkSteps, <1>MakeHdkStep, <1>MoveFileStep,
     <1>EnterDirStep, <1>UnlinkLastStep, <1>RemoveUploadsStep DEF Commit
<1>3. CASE Rollback(p)
  BY <1>3, <1>CheckNonceStep, <1>RollbackTargetStep, <1>MakeCacheStep, <1>CopyVersionStep,
     <1>CopyFilesStep DEF Rollback
<1> QED BY <1>1, <1>2, <1>3 DEF ScriptStep

\* A step of a client that changes an upload or the lock, and no version.
LEMMA StoreSame ==
  ASSUME StoreInv, RestOK, UNCHANGED <<tree, proc>>
  PROVE  StoreInv'
<1>1. TypeOK'
  BY DEF StoreInv, TypeOK, RestOK
<1>2. committed' = committed
  BY DEF RestOK
<1>3. Arguments' /\ Owned' /\ Unfinished'
  <2>1. Arguments'
    BY DEF StoreInv, Arguments
  <2>2. Owned'
    BY <1>2 DEF StoreInv, Owned, Owner, Scanned, Nextver, Lastver
  <2>3. Unfinished'
    <3>1. /\ \A p \in Proc : /\ Building(p)' = Building(p) /\ Scanned(p)' = Scanned(p)
                             /\ Nextver(p)' = Nextver(p) /\ Lastver(p)' = Lastver(p)
          /\ \A v \in Version, k \in Chunk : File(v, k)' = File(v, k)
      BY DEF Building, Scanned, Nextver, Lastver, File
    <3> QED BY <3>1, SMTT(30) DEF StoreInv, Unfinished
  <2> QED BY <2>1, <2>2, <2>3
<1>4. VersionsKept'
  <2>1. \A v \in Version : Restored(v)' = Restored(v)
    BY DEF Restored, Having, File
  <2> QED BY <1>2, <2>1 DEF StoreInv, VersionsKept
<1>5. OldKept' /\ Returned'
  BY <1>2, SMTT(30) DEF StoreInv, Handover, OldKept, Returned, Anchored, Replacing, Owner,
     Nextver, Lastver, File
<1>6. NotAhead' /\ NoOverwrite'
  <2>1. \A v \in Nat, k \in Chunk : File(v, k)' = File(v, k)
    BY DEF File
  <2>2. \A v \in Nat, k \in Chunk : Having(v, k)' = Having(v, k)
    BY <2>1, Bounds DEF Having, File
  <2>3. \A p \in Proc, k \in Chunk : /\ ToMove(p, k)' = ToMove(p, k)
                                     /\ Replacing(p, k)' = Replacing(p, k)
                                     /\ Lastver(p)' = Lastver(p)
    BY DEF ToMove, Replacing, Lastver
  <2>4. \A l \in Version : l \in Nat /\ l + 1 \in Nat /\ l + 2 \in Nat
    BY SMTT(20) DEF Version
  <2> QED BY <2>1, <2>2, <2>3, <2>4, SMTT(30) DEF StoreInv, Handover, NotAhead, NoOverwrite
<1> QED BY <1>1, <1>3, <1>4, <1>5, <1>6 DEF StoreInv, Handover

\* A program on the server records a version only where there is none.
LEMMA OnceStep ==
  ASSUME StoreInv, NEW p \in Proc, ScriptStep(p) \/ Killed(p), NEW v \in Version,
         committed[v] # None
  PROVE  committed'[v] = committed[v]
<1>1. CASE LinkLast(p) /\ last = None
  <2>1. Owner(p)
    BY <1>1 DEF LinkLast, Owner, FillPc
  <2>2. PICK n \in Version : n = Nextver(p)
    BY <2>1 DEF StoreInv, Owned
  <2>3. committed[n] = None
    BY <2>1, <2>2 DEF StoreInv, Owned
  <2>4. committed' = [committed EXCEPT ![n] =
                        [by |-> proc[p].nonce, disk |-> Restored(Nextver(p))]]
    BY <1>1, <2>2 DEF LinkLast
  <2> QED BY <2>3, <2>4 DEF StoreInv, TypeOK
<1>2. CASE ~(LinkLast(p) /\ last = None)
  <2>1. Fails(p) => committed' = committed
    BY DEF Fails
  <2>2. Killed(p) => committed' = committed
    BY <2>1 DEF Killed
  <2>3. Rollback(p) => committed' = committed
    BY <2>1 DEF Rollback, RollbackNonce, RollbackTarget, MakeCache, CopyVersion, CopyFiles
  <2>4. LinkLast(p) => committed' = committed
    BY <1>2, <2>1 DEF LinkLast
  <2>5. Commit(p) => committed' = committed
    BY <2>1, <2>4 DEF Commit, CheckNonce, Scan, MakeNext, MoveHdk, MakeHdk, MoveCfg,
       MoveKeyring, EnterDir, MoveOld, MoveNew, UnlinkLast, RemoveUploads
  <2> QED BY <2>2, <2>3, <2>5 DEF ScriptStep
<1> QED BY <1>1, <1>2

-----------------------------------------------------------------------------
(* A program that is not disturbed: one that runs alone, and never fails   *)

\* Version v is whole, and is what was committed.
Stored(v) ==
  /\ tree[v] # None /\ tree[v].cfg /\ tree[v].keyring \in Keyring
  /\ committed[v] # None /\ committed[v].disk = tree[v].keyring

\* Version v has the chunks that version w changed.
Delta(v, w) ==
  /\ tree[v].dirs # None
  /\ \A k \in Chunk : tree[v].file[k] =
       IF tree[v].keyring[k] # tree[w].keyring[k] THEN tree[v].keyring[k] ELSE None

\* All versions up to n are there, each with what its successor changed.
Chain(n) ==
  /\ \A v \in Version : v =< n => Stored(v)
  /\ \A v \in Version : v < n => Delta(v, v + 1)

\* Version n is the newest one, with all its chunks.
Newest(n) == \A v \in Version : v > n => tree[v] = None
Full(n) == tree[n].dirs = Dir /\ \A k \in Chunk : tree[n].file[k] = tree[n].keyring[k]

\* The parcel between two commits.
Settled(n) == n \in Version /\ last = n /\ Chain(n) /\ Newest(n) /\ Full(n)

\* An upload that makes a successor of version n.
Brings(u, n) ==
  /\ u # None /\ u.cfg /\ u.keyring \in Keyring /\ u.dirs # None
  /\ \A k \in Chunk : u.file[k] =
       IF u.keyring[k] # tree[n].keyring[k] THEN u.keyring[k] ELSE None
  /\ \A k \in Chunk : u.file[k] # None => DirOf(k) \in u.dirs

\* The keyring that a commit is about to store, or has stored.
Coming(p) ==
  IF proc[p].pc \in FillPc \cup {"rm"} THEN tree[Nextver(p)].keyring ELSE Upload(p).keyring

\* A rollback has compared the target with the newest version ...
Compared(p) ==
  /\ Settled(Lastver(p))
  /\ proc[p].target \in Version /\ proc[p].target < Lastver(p)
  /\ proc[p].diffs = Differing(tree[proc[p].target].keyring, tree[Lastver(p)].keyring)

\* ... and has copied from the versions before proc[p].version.
CopiedSoFar(p, k) ==
  LET f == Upload(p).file[k]
      r == tree[proc[p].target].keyring
  IN  /\ k \notin proc[p].diffs => f = None
      /\ f # None => f = r[k] /\ DirOf(k) \in Upload(p).dirs
      /\ k \in proc[p].diffs /\ f = None => tree[proc[p].version].keyring[k] = r[k]

\* The chunks are being copied to the upload directory.
Copying(p) ==
  /\ Upload(p) # None /\ Upload(p).dirs # None
  /\ proc[p].version \in Version
  /\ proc[p].pc = "copy" => proc[p].version < Lastver(p)
  /\ proc[p].pc = "copyfiles" => proc[p].version = Lastver(p)
  /\ \A k \in Chunk : CopiedSoFar(p, k)

\* The next version has been made.
Making(p) ==
  /\ Lastver(p) \in Version /\ Nextver(p) \in Version
  /\ Chain(Lastver(p)) /\ Newest(Nextver(p)) /\ tree[Nextver(p)] # None
  /\ last = IF proc[p].pc = "link" THEN None ELSE Lastver(p)

\* Chunk k is where the commit leaves it.
Done(p, k) ==
  LET old == tree[Lastver(p)]
  IN  /\ old.file[k] = IF old.keyring[k] # Coming(p)[k] THEN old.keyring[k] ELSE None
      /\ tree[Nextver(p)].file[k] = Coming(p)[k]

\* Chunk k is still in the upload; while it is replaced, its predecessor has moved back.
Waits(p, k) ==
  LET old == tree[Lastver(p)]
  IN  /\ Upload(p).file[k] = Coming(p)[k] /\ Coming(p)[k] # old.keyring[k]
      /\ DirOf(k) \in Upload(p).dirs
      /\ ~Replacing(p, k) => old.file[k] = None /\ tree[Nextver(p)].file[k] = old.keyring[k]
      /\ Replacing(p, k) => old.file[k] = old.keyring[k] /\ tree[Nextver(p)].file[k] = None

\* The turn of chunk k is still to come.
Ahead(p, k) ==
  IF proc[p].pc \in {"old", "new"} THEN DirOf(k) > proc[p].dir \/ k \in proc[p].todo
                                   ELSE DirOf(k) >= proc[p].dir

\* The chunks are being moved.
Shifting(p) ==
  /\ Upload(p) # None /\ Upload(p).dirs # None /\ tree[Nextver(p)].dirs = Dir
  /\ Coming(p) \in Keyring
  /\ \A k \in Chunk : Upload(p).file[k] = None => Done(p, k)
  /\ \A k \in Chunk : Upload(p).file[k] # None => Waits(p, k) /\ Ahead(p, k)

\* The files that are not chunks.
Filing(p) ==
  /\ proc[p].pc \in {"mkhdk", "cfg"} => Upload(p).cfg
  /\ proc[p].pc = "mkhdk" => tree[Lastver(p)].dirs = None
  /\ proc[p].pc \in {"cfg", "keyring"} => tree[Lastver(p)].dirs = {}
  /\ proc[p].pc \in {"mkhdk", "cfg", "keyring"} => proc[p].dir = 0
  /\ proc[p].pc \in FillPc \cup {"keyring"} => tree[Nextver(p)].cfg
  /\ proc[p].pc \in FillPc =>
       /\ tree[Lastver(p)].dirs # None
       /\ \A d \in tree[Lastver(p)].dirs :
            d < proc[p].dir \/ (d = proc[p].dir /\ proc[p].pc # "dir")
  /\ proc[p].pc \in {"old", "new"} =>
       /\ proc[p].dir \in tree[Lastver(p)].dirs
       /\ \A k \in proc[p].todo : Upload(p).file[k] # None
  /\ proc[p].pc \in {"unlink", "link"} => \A k \in Chunk : Upload(p).file[k] = None

\* What has been done when the program is at its place.
At(p) ==
  /\ proc[p].pc \in {"locked", "target", "nonce", "scan"} => Settled(last)
  /\ proc[p].pc \in {"nonce", "scan"} => Brings(Upload(p), last) /\ proc[p].dir = 0
  /\ proc[p].pc \in {"mkcache", "copy", "copyfiles"} => Compared(p)
  /\ proc[p].pc = "mkcache" => proc[p].version = proc[p].target
  /\ proc[p].pc \in {"copy", "copyfiles"} => Copying(p)
  /\ proc[p].pc = "mkdir" => Settled(Lastver(p))
  /\ proc[p].pc \in {"mkdir", "hdk"} => Brings(Upload(p), Lastver(p)) /\ proc[p].dir = 0
  /\ proc[p].pc = "hdk" => Making(p) /\ Full(Lastver(p)) /\ tree[Nextver(p)] = EmptyDir
  /\ proc[p].pc \in {"mkhdk", "cfg", "keyring"} \cup FillPc => Making(p) /\ Filing(p) /\ Shifting(p)
  /\ proc[p].pc = "rm" => Settled(Nextver(p))

\* A commit that a rollback has started stores the target.
Aimed(p) ==
  proc[p].pc \in CommitPc /\ proc[p].target # None =>
    /\ proc[p].target \in Version /\ committed[proc[p].target] # None
    /\ Coming(p) = committed[proc[p].target].disk

-----------------------------------------------------------------------------
(* Versions that are settled                                               *)

\* Versions are numbers.
LEMMA VersionFacts ==
  /\ Version \subseteq Nat
  /\ \A n \in Version : n + 1 \in Nat /\ n + 1 > n
  /\ \A n \in Version : n < MaxVersion => n + 1 \in Version
  /\ \A v, n \in Version : v < n => v + 1 \in Version /\ v + 1 =< n /\ v # n
  /\ \A v, n \in Version : v =< n <=> v < n \/ v = n
  /\ \A v, n \in Version : ~(v > n) => v =< n
  /\ \A n \in Version : n =< n /\ ~(n < n)
BY Bounds, SMTT(20) DEF Version

\* The newest version of a settled parcel is the one that last refers to.
LEMMA SettledLast ==
  ASSUME StoreInv, NEW n \in Version, Settled(n)
  PROVE  LastVersion = n
<1>1. /\ LastVersion \in Version /\ tree[LastVersion] # None
      /\ \A w \in Version : w > LastVersion => tree[w] = None
  BY LastVersionFacts DEF StoreInv, Owned
<1>2. tree[n] # None
  BY VersionFacts DEF Settled, Chain, Stored
<1>3. ~(LastVersion > n) /\ ~(n > LastVersion)
  BY <1>1, <1>2 DEF Settled, Newest
<1> QED BY <1>1, <1>3, VersionFacts, SMTT(20)

\* The chain up to n does not depend on the chunks of n.
LEMMA ChainSame ==
  ASSUME NEW n \in Version, Chain(n),
         \A v \in Version : v =< n => committed'[v] = committed[v],
         \A v \in Version : v < n => tree'[v] = tree[v],
         tree'[n] # None, tree'[n].cfg = tree[n].cfg, tree'[n].keyring = tree[n].keyring
  PROVE  Chain(n)'
<1>1. ASSUME NEW v \in Version, v =< n PROVE Stored(v)'
  BY <1>1, VersionFacts DEF Chain, Stored
<1>2. ASSUME NEW v \in Version, v < n PROVE Delta(v, v + 1)'
  <2>1. PICK w \in Version : w = v + 1 /\ w =< n
    BY <1>2, VersionFacts
  <2>2. Delta(v, w)
    BY <1>2, <2>1 DEF Chain
  <2>3. tree'[w].keyring = tree[w].keyring
    BY <2>1, VersionFacts
  <2>4. tree'[v] = tree[v]
    BY <1>2
  <2>5. Delta(v, w)'
    BY <2>2, <2>3, <2>4 DEF Delta
  <2> QED BY <2>1, <2>5
<1> QED BY <1>1, <1>2 DEF Chain

\* Steps that leave the versions alone.
LEMMA SettledSame ==
  ASSUME UNCHANGED <<tree, last, committed>>, NEW n
  PROVE  /\ Settled(n)' <=> Settled(n)
         /\ Chain(n)' <=> Chain(n)
BY DEF Settled, Chain, Stored, Delta, Newest, Full

\* A settled version can be put together as its keyring says.
LEMMA SettledRestored ==
  ASSUME StoreInv, NEW n \in Version, Settled(n)
  PROVE  Restored(n) = tree[n].keyring
BY VersionFacts DEF Settled, Chain, Stored, StoreInv, VersionsKept

-----------------------------------------------------------------------------
(* The steps of a program that is not disturbed                            *)

\* What a step of program p has to lead to: the next place, with all that belongs
\* to it, or an end with a settled parcel; and a commit ends well.
Advances(p) ==
  /\ Running(p)' => At(p)' /\ proc'[p].nonce = proc[p].nonce
  /\ ~Running(p)' => Settled(last)'
  /\ proc[p].pc \in CommitPc /\ Running(p)' =>
       /\ proc'[p].pc \in CommitPc /\ proc'[p].target = proc[p].target
       /\ Coming(p)' = Coming(p)
  /\ proc[p].pc \in CommitPc /\ ~Running(p)' =>
       proc'[p].pc = "ok" /\ tree'[last'].keyring = Coming(p)
  /\ proc'[p].pc # "idle"

\* A program that goes on keeps its variables.
LEMMA GoesOn ==
  ASSUME TypeOK, NEW p \in Proc, NEW l, Goto(p, l)
  PROVE  /\ proc'[p].pc = l
         /\ proc'[p].nonce = proc[p].nonce /\ proc'[p].target = proc[p].target
         /\ proc'[p].lastver = proc[p].lastver /\ proc'[p].version = proc[p].version
         /\ proc'[p].diffs = proc[p].diffs /\ proc'[p].dir = proc[p].dir
         /\ proc'[p].todo = proc[p].todo
<1>1. proc \in [Proc -> Process] /\ proc' = [proc EXCEPT ![p] = [proc[p] EXCEPT !.pc = l]]
  BY DEF TypeOK, Goto
<1>2. proc'[p] = [proc[p] EXCEPT !.pc = l] /\ proc[p] \in Process
  BY <1>1
<1> QED BY <1>2 DEF Process

\* The new state of a program.
LEMMA Becomes ==
  ASSUME TypeOK, NEW p \in Proc, NEW s, Become(p, s)
  PROVE  proc'[p] = s /\ proc[p] \in Process
BY DEF TypeOK, Become

\* A program that has ended.
LEMMA Ended ==
  ASSUME TypeOK, NEW p \in Proc, NEW l, Exit(p, l)
  PROVE  proc'[p].pc = l
<1>1. proc'[p] = [Idle EXCEPT !.pc = l]
  BY Becomes DEF Exit
<1> QED BY <1>1, SMTT(20) DEF Idle

\* srv_commit.pm and srv_rollback.pm find the nonce in the LOCK file.
LEMMA NonceAdvances ==
  ASSUME StoreInv, NEW p \in Proc, At(p), proc[p].nonce = lock,
         CheckNonce(p) \/ RollbackNonce(p)
  PROVE  Advances(p)
<1> USE DEF RollbackPc, CommitPc, FillPc, BuildPc
<1>1. UNCHANGED <<tree, last, cache, lock, nonces, committed>>
  BY DEF CheckNonce, RollbackNonce, NonceMatches
<1>2. CASE CheckNonce(p)
  <2>1. proc[p].pc = "nonce" /\ Goto(p, "scan")
    BY <1>2 DEF CheckNonce, NonceMatches
  <2>2. /\ proc'[p].pc = "scan" /\ proc'[p].nonce = proc[p].nonce
        /\ proc'[p].target = proc[p].target /\ proc'[p].dir = proc[p].dir
    BY <2>1, GoesOn DEF StoreInv
  <2>3. Settled(last) /\ Brings(Upload(p), last) /\ proc[p].dir = 0
    BY <2>1 DEF At
  <2>4. Settled(last)' /\ Brings(Upload(p), last)'
    BY <1>1, <2>2, <2>3, SettledSame DEF Brings, Upload
  <2>5. At(p)'
    BY <2>2, <2>3, <2>4 DEF At
  <2>6. Coming(p)' = Coming(p)
    BY <1>1, <2>1, <2>2 DEF Coming, Upload
  <2> QED BY <2>1, <2>2, <2>5, <2>6 DEF Advances, Running
<1>3. CASE RollbackNonce(p)
  <2>1. proc[p].pc = "locked" /\ Goto(p, "target")
    BY <1>3 DEF RollbackNonce, NonceMatches
  <2>2. proc'[p].pc = "target" /\ proc'[p].nonce = proc[p].nonce
    BY <2>1, GoesOn DEF StoreInv
  <2>3. Settled(last)
    BY <2>1 DEF At
  <2>4. Settled(last)'
    BY <1>1, <2>3, SettledSame
  <2>5. At(p)'
    BY <2>2, <2>4 DEF At
  <2> QED BY <2>1, <2>2, <2>5 DEF Advances, Running
<1> QED BY <1>2, <1>3

\* A keyring has a tag for every chunk.
LEMMA NoneIsNoTag ==
  \A r \in Keyring, k \in Chunk : r[k] # None
BY NoneApart DEF Keyring

\* The upload of a program that runs is a directory under its nonce.
LEMMA UploadFacts ==
  ASSUME StoreInv, NEW p \in Proc, Running(p)
  PROVE  /\ proc[p].nonce \in Nonce /\ Upload(p) = cache[proc[p].nonce]
         /\ cache \in [Nonce -> Tree \cup {None}]
         /\ Upload(p) # None => Upload(p) \in Tree
<1>1. proc[p].nonce \in Nonce
  BY DEF StoreInv, Arguments, Sound, Running
<1> QED BY <1>1 DEF StoreInv, TypeOK, Upload

\* srv_rollback.pm has all chunks that differ, adds the keyring of the target, and
\* starts a commit: the upload makes a successor that is the target.
LEMMA CopyFilesAdvances ==
  ASSUME StoreInv, NEW p \in Proc, At(p), CopyFiles(p)
  PROVE  Advances(p) /\ Aimed(p)'
<1> USE DEF RollbackPc, CommitPc, FillPc, BuildPc
<1>1. proc[p].pc = "copyfiles"
  BY DEF CopyFiles
<1>2. Compared(p) /\ Copying(p)
  BY <1>1 DEF At
<1>3. PICK n \in Version, t \in Version : /\ n = Lastver(p) /\ t = proc[p].target /\ t < n
                                          /\ n = proc[p].version /\ n = last
  BY <1>1, <1>2 DEF Compared, Copying, Settled
<1>4. Settled(n) /\ Stored(t) /\ Stored(n)
  BY <1>2, <1>3, VersionFacts DEF Compared, Settled, Chain
<1>5. /\ proc[p].nonce \in Nonce /\ Upload(p) = cache[proc[p].nonce]
      /\ cache \in [Nonce -> Tree \cup {None}]
      /\ Upload(p) \in Tree /\ Upload(p) # None /\ Upload(p).dirs # None
  BY <1>1, <1>2, UploadFacts DEF Copying, Running
<1>6. tree[t].keyring \in Keyring /\ tree[t].keyring # None /\ tree[t].cfg /\ tree[t] # None
  BY <1>4, NoneApart DEF Stored
<1> DEFINE u == [Upload(p) EXCEPT !.cfg = TRUE, !.keyring = tree[t].keyring]
<1>7. /\ cache' = [cache EXCEPT ![proc[p].nonce].cfg = TRUE,
                               ![proc[p].nonce].keyring = tree[t].keyring]
      /\ Start(p, "nonce", proc[p].nonce, t)
      /\ UNCHANGED <<tree, last, committed>>
  BY <1>3, <1>5, <1>6 DEF CopyFiles, Start
<1>8. cache' = [cache EXCEPT ![proc[p].nonce] = u]
  BY <1>5, <1>7
<1>9. /\ u.cfg /\ u.keyring = tree[t].keyring
      /\ u.dirs = Upload(p).dirs /\ u.file = Upload(p).file /\ u \in Tree
  BY <1>5, <1>6 DEF Tree
<1> HIDE DEF u
<1>10. /\ proc'[p].pc = "nonce" /\ proc'[p].nonce = proc[p].nonce
       /\ proc'[p].target = t /\ proc'[p].dir = 0
  <2>1. proc'[p] = [Idle EXCEPT !.pc = "nonce", !.nonce = proc[p].nonce, !.target = t]
    BY <1>7, Becomes DEF Start, StoreInv
  <2> QED BY <2>1, SMTT(20) DEF Idle
<1>11. Upload(p)' = u
  BY <1>5, <1>8, <1>10 DEF Upload
<1>12. ASSUME NEW k \in Chunk
       PROVE  /\ u.file[k] = IF u.keyring[k] # tree[n].keyring[k] THEN u.keyring[k] ELSE None
              /\ u.file[k] # None => DirOf(k) \in u.dirs
  <2>1. CopiedSoFar(p, k)
    BY <1>2 DEF Copying
  <2>2. k \in proc[p].diffs <=> tree[t].keyring[k] # tree[n].keyring[k]
    BY <1>2, <1>3 DEF Compared, Differing
  <2>3. tree[t].keyring[k] # None
    BY <1>6, NoneIsNoTag
  <2> DEFINE f == Upload(p).file[k]
             r == tree[t].keyring[k]
             in == k \in proc[p].diffs
  <2>4. /\ ~in => f = None
        /\ f # None => f = r /\ DirOf(k) \in Upload(p).dirs
        /\ in /\ f = None => tree[n].keyring[k] = r
    BY <1>3, <2>1 DEF CopiedSoFar
  <2>5. in <=> r # tree[n].keyring[k]
    BY <2>2
  <2>6. u.file[k] = f /\ u.keyring[k] = r
    BY <1>9
  <2> HIDE DEF f, r, in
  <2> QED BY <1>9, <2>4, <2>5, <2>6
<1>13. Settled(last)' /\ Brings(Upload(p), last)'
  <2>1. Settled(last)'
    BY <1>3, <1>4, <1>7, SettledSame
  <2>2. u # None /\ u.keyring \in Keyring /\ u.dirs # None
    BY <1>5, <1>6, <1>9, NoneApart
  <2>3. tree'[last'].keyring = tree[n].keyring
    BY <1>3, <1>7
  <2>4. Brings(Upload(p), last)'
    BY <1>9, <1>11, <1>12, <2>2, <2>3 DEF Brings
  <2> QED BY <2>1, <2>4
<1>14. At(p)'
  BY <1>10, <1>13 DEF At
<1>15. Aimed(p)'
  <2>1. Coming(p)' = tree[t].keyring
    BY <1>9, <1>10, <1>11 DEF Coming
  <2> QED BY <1>4, <1>7, <1>10, <2>1 DEF Aimed, Stored
<1> QED BY <1>1, <1>10, <1>14, <1>15 DEF Advances, Running

\* A step of srv_rollback.pm that is not disturbed leads on.
LEMMA RollbackAdvances ==
  \A p \in Proc :
    StoreInv /\ At(p) /\ proc[p].nonce = lock /\ Rollback(p) => Advances(p)
\* srv_rollback.pm compares the keyrings, or has nothing to do, or cannot.
<1>TargetAdvances.
  ASSUME StoreInv, NEW p \in Proc, At(p), RollbackTarget(p)
  PROVE  Advances(p)
  <2> USE <1>TargetAdvances
  <2> USE DEF RollbackPc, CommitPc, FillPc, BuildPc
  <2>1. proc[p].pc = "target" /\ UNCHANGED <<tree, last, cache, committed>>
    BY DEF RollbackTarget, Fails
  <2>2. Settled(last) /\ Settled(last)'
    BY <2>1, SettledSame DEF At
  <2>3. last \in Version /\ LastVersion = last
    BY <2>2, SettledLast DEF Settled
  <2>4. PICK t \in Version : t = proc[p].target
    BY <2>1 DEF StoreInv, Arguments, Sound
  <2>5. CASE \E l \in {"ok", "failed"} : Exit(p, l)
    <3>1. proc'[p].pc \in {"ok", "failed"}
      BY <2>5, Ended DEF StoreInv
    <3> QED BY <2>1, <2>2, <3>1 DEF Advances, Running
  <2>6. CASE ~\E l \in {"ok", "failed"} : Exit(p, l)
    <3>1. /\ t # last /\ tree[t] # None
          /\ Become(p, [proc[p] EXCEPT !.pc = "mkcache", !.lastver = last, !.version = t,
               !.diffs = Differing(tree[t].keyring, tree[last].keyring)])
      BY <2>3, <2>4, <2>6 DEF RollbackTarget, Fails
    <3>2. t < last
      <4>1. ~(t > last)
        BY <2>2, <3>1 DEF Settled, Newest
      <4> QED BY <2>3, <3>1, <4>1, VersionFacts
    <3>3. /\ proc'[p].pc = "mkcache" /\ proc'[p].nonce = proc[p].nonce
          /\ proc'[p].lastver = last /\ proc'[p].version = t /\ proc'[p].target = t
          /\ proc'[p].diffs = Differing(tree[t].keyring, tree[last].keyring)
      <4> DEFINE d == Differing(tree[t].keyring, tree[last].keyring)
      <4>1. /\ proc'[p] = [proc[p] EXCEPT !.pc = "mkcache", !.lastver = last, !.version = t,
                                          !.diffs = d]
            /\ proc[p] \in Process
        BY <3>1, Becomes DEF StoreInv
      <4> HIDE DEF d
      <4>2. /\ proc'[p].pc = "mkcache" /\ proc'[p].nonce = proc[p].nonce
            /\ proc'[p].lastver = last /\ proc'[p].version = t
            /\ proc'[p].target = proc[p].target /\ proc'[p].diffs = d
        BY <4>1 DEF Process
      <4> QED BY <2>4, <4>2 DEF d
    <3>4. Compared(p)'
      BY <2>1, <2>2, <2>3, <2>4, <3>2, <3>3 DEF Compared, Lastver, Differing
    <3>5. At(p)'
      BY <3>3, <3>4 DEF At
    <3> QED BY <2>1, <3>3, <3>5 DEF Advances, Running
  <2> QED BY <2>5, <2>6
\* srv_rollback.pm starts with an empty upload.
<1>MakeCacheAdvances.
  ASSUME StoreInv, NEW p \in Proc, At(p), MakeCache(p)
  PROVE  Advances(p)
  <2> USE <1>MakeCacheAdvances
  <2> USE DEF RollbackPc, CommitPc, FillPc, BuildPc
  <2>1. /\ proc[p].pc = "mkcache" /\ Goto(p, "copy")
        /\ cache' = [cache EXCEPT ![proc[p].nonce] = [EmptyDir EXCEPT !.dirs = {}]]
        /\ UNCHANGED <<tree, last, committed>>
    BY DEF MakeCache
  <2>2. Compared(p) /\ proc[p].version = proc[p].target
    BY <2>1 DEF At
  <2>3. /\ proc'[p].pc = "copy" /\ proc'[p].nonce = proc[p].nonce
        /\ proc'[p].target = proc[p].target /\ proc'[p].lastver = proc[p].lastver
        /\ proc'[p].version = proc[p].version /\ proc'[p].diffs = proc[p].diffs
    BY <2>1, GoesOn DEF StoreInv
  <2>4. Compared(p)'
    BY <2>1, <2>2, <2>3, SettledSame DEF Compared, Lastver, Differing
  <2>5. Upload(p)' = [EmptyDir EXCEPT !.dirs = {}]
    <3>1. proc[p].nonce \in Nonce
      BY <2>1 DEF StoreInv, Arguments, Sound
    <3> QED BY <2>1, <2>3, <3>1 DEF Upload, StoreInv, TypeOK
  <2>6. /\ [EmptyDir EXCEPT !.dirs = {}] # None
        /\ [EmptyDir EXCEPT !.dirs = {}].dirs = {} /\ {} # None
        /\ \A k \in Chunk : [EmptyDir EXCEPT !.dirs = {}].file[k] = None
    <3>1. [EmptyDir EXCEPT !.dirs = {}] \in Tree
      BY TreeFacts DEF Tree
    <3>2. {} # None
      BY NoneApart
    <3> QED BY <3>1, <3>2, NoneApart DEF EmptyDir, NoFiles
  <2>7. Copying(p)'
    <3>1. ASSUME NEW k \in Chunk PROVE CopiedSoFar(p, k)'
      BY <2>1, <2>2, <2>3, <2>5, <2>6 DEF CopiedSoFar
    <3> QED BY <2>2, <2>3, <2>5, <2>6, <3>1 DEF Copying, Compared, Lastver
  <2>8. At(p)'
    BY <2>3, <2>4, <2>7 DEF At
  <2> QED BY <2>1, <2>3, <2>8 DEF Advances, Running
\* An upload with the chunks of one more version is a tree.
<1>CopiedTree.
  ASSUME NEW p \in Proc, Upload(p) \in Tree, Upload(p).dirs # None,
         tree[proc[p].version] \in Tree
  PROVE  Copied(p) \in Tree /\ Copied(p).dirs \in SUBSET Dir
  <2> USE <1>CopiedTree
  <2>1. /\ Upload(p).file \in [Chunk -> Tag \cup {None}] /\ Upload(p).dirs \in SUBSET Dir
        /\ tree[proc[p].version].file \in [Chunk -> Tag \cup {None}]
        /\ Upload(p).cfg \in BOOLEAN /\ Upload(p).keyring \in Keyring \cup {None}
    BY TreeFacts DEF Tree
  <2>2. [k \in Chunk |-> IF k \in Found(p) /\ MustCopy(p, k)
                         THEN tree[proc[p].version].file[k]
                         ELSE Upload(p).file[k]] \in [Chunk -> Tag \cup {None}]
    BY <2>1
  <2>3. Upload(p).dirs \cup {DirOf(k) : k \in Found(p)} \in SUBSET Dir
    BY <2>1, DirFacts DEF Found
  <2> QED BY <2>1, <2>2, <2>3 DEF Copied, Tree
\* One version of the main loop of srv_rollback.pm: a chunk that is found there is
\* that of the target, because the versions in between do not have it, and one that
\* is not found has not changed up to the next version.
<1>CopyVersionAdvances.
  ASSUME StoreInv, NEW p \in Proc, At(p), CopyVersion(p)
  PROVE  Advances(p)
  <2> USE <1>CopyVersionAdvances
  <2> USE DEF RollbackPc, CommitPc, FillPc, BuildPc
  <2>1. proc[p].pc = "copy"
    BY DEF CopyVersion
  <2>2. Compared(p) /\ Copying(p)
    BY <2>1 DEF At
  <2>3. PICK v \in Version, n \in Version : v = proc[p].version /\ n = Lastver(p) /\ v < n
    BY <2>1, <2>2 DEF Compared, Copying, Settled
  <2>4. PICK w \in Version : w = v + 1 /\ w =< n
    BY <2>3, VersionFacts
  <2>5. /\ Stored(v) /\ Delta(v, w) /\ tree[v] \in Tree
        /\ Upload(p) \in Tree /\ Upload(p).dirs # None
        /\ proc[p].nonce \in Nonce /\ Upload(p) = cache[proc[p].nonce]
    <3>1. Stored(v) /\ Delta(v, w)
      BY <2>2, <2>3, <2>4, VersionFacts DEF Compared, Settled, Chain
    <3>2. proc[p].nonce \in Nonce
      BY <2>1 DEF StoreInv, Arguments, Sound
    <3> QED BY <2>2, <3>1, <3>2 DEF Copying, Stored, StoreInv, TypeOK, Upload
  <2>6. /\ cache' = IF Found(p) = {} THEN cache
                    ELSE [cache EXCEPT ![proc[p].nonce] = Copied(p)]
        /\ Become(p, [proc[p] EXCEPT !.version = w,
                        !.pc = IF w = n THEN "copyfiles" ELSE "copy"])
        /\ UNCHANGED <<tree, last, committed>>
    BY <2>2, <2>3, <2>4, <2>5 DEF CopyVersion, HasHdk, Delta, Stored, Copying
  <2>7. /\ proc'[p].pc = (IF w = n THEN "copyfiles" ELSE "copy")
        /\ proc'[p].version = w /\ proc'[p].nonce = proc[p].nonce
        /\ proc'[p].target = proc[p].target /\ proc'[p].lastver = proc[p].lastver
        /\ proc'[p].diffs = proc[p].diffs
    <3> DEFINE l == IF w = n THEN "copyfiles" ELSE "copy"
    <3>1. /\ proc'[p] = [proc[p] EXCEPT !.version = w, !.pc = l]
          /\ proc[p] \in Process
      BY <2>6, Becomes DEF StoreInv
    <3> HIDE DEF l
    <3>2. /\ proc'[p].pc = l
          /\ proc'[p].version = w /\ proc'[p].nonce = proc[p].nonce
          /\ proc'[p].target = proc[p].target /\ proc'[p].lastver = proc[p].lastver
          /\ proc'[p].diffs = proc[p].diffs
      BY <3>1 DEF Process
    <3> QED BY <3>2 DEF l
  <2>8. Compared(p)'
    BY <2>2, <2>6, <2>7, SettledSame DEF Compared, Lastver, Differing
  <2>9. /\ Upload(p)' # None /\ Upload(p)'.dirs # None
        /\ \A d \in Upload(p).dirs : d \in Upload(p)'.dirs
        /\ \A k \in Chunk : /\ k \in Found(p) => DirOf(k) \in Upload(p)'.dirs
                            /\ Upload(p)'.file[k] = IF k \in Found(p) /\ MustCopy(p, k)
                                                    THEN tree[v].file[k] ELSE Upload(p).file[k]
    <3>1. CASE Found(p) = {}
      <4>1. Upload(p)' = Upload(p)
        BY <2>6, <2>7, <3>1 DEF Upload
      <4> QED BY <2>2, <3>1, <4>1 DEF Copying
    <3>2. CASE Found(p) # {}
      <4>1. Upload(p)' = Copied(p)
        BY <2>5, <2>6, <2>7, <3>2 DEF Upload, StoreInv, TypeOK
      <4>2. Copied(p) \in Tree
        BY <2>3, <2>5, <1>CopiedTree
      <4>3. /\ Copied(p).dirs = Upload(p).dirs \cup {DirOf(k) : k \in Found(p)}
            /\ \A k \in Chunk : Copied(p).file[k] = IF k \in Found(p) /\ MustCopy(p, k)
                                  THEN tree[v].file[k] ELSE Upload(p).file[k]
        <5> DEFINE D == Upload(p).dirs \cup {DirOf(k) : k \in Found(p)}
                   F == [k \in Chunk |-> IF k \in Found(p) /\ MustCopy(p, k)
                           THEN tree[proc[p].version].file[k] ELSE Upload(p).file[k]]
        <5>1. Copied(p) = [cfg |-> Upload(p).cfg, keyring |-> Upload(p).keyring,
                           dirs |-> D, file |-> F]
          BY DEF Copied
        <5>2. \A k \in Chunk : F[k] = IF k \in Found(p) /\ MustCopy(p, k)
                                  THEN tree[v].file[k] ELSE Upload(p).file[k]
          BY <2>3
        <5> HIDE DEF D, F
        <5>3. Copied(p).dirs = D /\ Copied(p).file = F
          BY <5>1, SMTT(20)
        <5>4. Copied(p).dirs = Upload(p).dirs \cup {DirOf(k) : k \in Found(p)}
          BY <5>3 DEF D
        <5> QED BY <5>2, <5>3, <5>4
      <4>4. Copied(p) # None /\ Copied(p).dirs # None
        BY <2>3, <2>5, <1>CopiedTree, NoneApart
      <4> QED BY <4>1, <4>3, <4>4
    <3> QED BY <3>1, <3>2
  <2>10. ASSUME NEW k \in Chunk PROVE CopiedSoFar(p, k)'
    <3>1. CopiedSoFar(p, k)
      BY <2>2 DEF Copying
    <3>2. tree[v].file[k] = IF tree[v].keyring[k] # tree[w].keyring[k]
                            THEN tree[v].keyring[k] ELSE None
      BY <2>5 DEF Delta
    <3>3. k \in Found(p) <=> tree[v].file[k] # None
      BY <2>3 DEF Found
    <3>4. MustCopy(p, k) <=> Upload(p).file[k] = None /\ k \in proc[p].diffs
      BY DEF MustCopy
    <3> DEFINE f == Upload(p).file[k]
               g == Upload(p)'.file[k]
               r == tree[proc[p].target].keyring[k]
               in == k \in proc[p].diffs
    <3>5. /\ ~in => f = None
          /\ f # None => f = r /\ DirOf(k) \in Upload(p).dirs
          /\ in /\ f = None => tree[v].keyring[k] = r
      BY <2>3, <3>1 DEF CopiedSoFar
    <3>6. g = IF tree[v].file[k] # None /\ f = None /\ in THEN tree[v].file[k] ELSE f
      BY <2>9, <3>3, <3>4
    <3>10. /\ tree[v].file[k] # None => DirOf(k) \in Upload(p)'.dirs
           /\ DirOf(k) \in Upload(p).dirs => DirOf(k) \in Upload(p)'.dirs
      BY <2>9, <3>3
    <3> HIDE DEF f, g, r, in
    <3>7. /\ ~in => g = None
          /\ g # None => g = r /\ DirOf(k) \in Upload(p)'.dirs
          /\ in /\ g = None => tree[w].keyring[k] = r
      <4>1. CASE tree[v].file[k] # None /\ f = None /\ in
        BY <3>2, <3>5, <3>6, <3>10, <4>1
      <4>2. CASE tree[v].file[k] = None /\ f = None
        <5>1. tree[v].keyring[k] # None
          BY <2>5, NoneIsNoTag DEF Stored
        <5>2. tree[v].keyring[k] = tree[w].keyring[k]
          BY <3>2, <4>2, <5>1
        <5> QED BY <3>5, <3>6, <4>2, <5>2
      <4>3. CASE f # None \/ ~in
        BY <3>5, <3>6, <3>10, <4>3
      <4> QED BY <4>1, <4>2, <4>3
    <3>8. /\ g = Upload(p)'.file[k] /\ r = tree'[proc'[p].target].keyring[k]
          /\ in <=> k \in proc'[p].diffs
          /\ tree[w].keyring[k] = tree'[proc'[p].version].keyring[k]
      BY <2>6, <2>7 DEF g, r, in
    <3> DEFINE F == Upload(p)'.file[k]
               R == tree'[proc'[p].target].keyring[k]
    <3>9. /\ k \notin proc'[p].diffs => F = None
          /\ F # None => F = R /\ DirOf(k) \in Upload(p)'.dirs
          /\ k \in proc'[p].diffs /\ F = None => tree'[proc'[p].version].keyring[k] = R
      BY <3>7, <3>8
    <3> QED BY <3>9 DEF CopiedSoFar
  <2>11. Copying(p)'
    <3>1. w = n \/ w < n
      BY <2>4, VersionFacts
    <3>2. /\ Lastver(p)' = n
          /\ proc'[p].pc = "copy" => w < n
          /\ proc'[p].pc = "copyfiles" => w = n
      BY <2>3, <2>7, <3>1 DEF Lastver
    <3> QED BY <2>7, <2>9, <2>10, <3>2 DEF Copying
  <2>12. At(p)'
    BY <2>7, <2>8, <2>11 DEF At
  <2> QED BY <2>1, <2>7, <2>12 DEF Advances, Running
<1> SUFFICES ASSUME NEW p \in Proc, StoreInv, At(p), proc[p].nonce = lock, Rollback(p)
             PROVE  Advances(p)
  OBVIOUS
<1> QED BY NonceAdvances, <1>TargetAdvances, <1>MakeCacheAdvances, <1>CopyVersionAdvances,
           CopyFilesAdvances DEF Rollback

\* The files of the last and the next version are about to be moved: a step that
\* changes nothing else keeps the versions before them.
LEMMA MakingSame ==
  ASSUME NEW p \in Proc, Making(p), proc[p].pc # "link", proc'[p].pc # "link",
         proc'[p].lastver = proc[p].lastver, last' = last, committed' = committed,
         NEW L \in Version, NEW N \in Version, L = Lastver(p), N = Nextver(p),
         \A v \in Version : v # L /\ v # N => tree'[v] = tree[v],
         tree'[L] # None, tree'[N] # None,
         tree'[L].cfg = tree[L].cfg, tree'[L].keyring = tree[L].keyring
  PROVE  Making(p)'
<1>1. N = L + 1
  BY DEF Nextver, Lastver
<1>2. \A v \in Version : /\ v > N => v # L /\ v # N
                         /\ v < L => v # L /\ v # N
  BY <1>1, VersionFacts, SMTT(20)
<1>3. Chain(L) /\ Newest(N) /\ last = L
  BY DEF Making
<1>4. Chain(L)'
  BY <1>2, <1>3, ChainSame
<1>5. Newest(N)'
  BY <1>2, <1>3 DEF Newest
<1>6. Lastver(p)' = L /\ Nextver(p)' = N
  BY DEF Lastver, Nextver
<1> QED BY <1>3, <1>4, <1>5, <1>6 DEF Making

\* A step that moves no chunk.
LEMMA ShiftingSame ==
  ASSUME NEW p \in Proc, Shifting(p), proc[p].pc # "new", proc'[p].pc # "new",
         proc'[p].lastver = proc[p].lastver, Coming(p)' = Coming(p),
         Upload(p)' # None, Upload(p)'.dirs = Upload(p).dirs,
         Upload(p)'.file = Upload(p).file,
         NEW L \in Version, NEW N \in Version, L = Lastver(p), N = Nextver(p),
         tree'[L].file = tree[L].file, tree'[L].keyring = tree[L].keyring,
         tree'[N].file = tree[N].file, tree'[N].dirs = tree[N].dirs,
         \A k \in Chunk : Upload(p).file[k] # None /\ Ahead(p, k) => Ahead(p, k)'
  PROVE  Shifting(p)'
<1>1. Lastver(p)' = L /\ Nextver(p)' = N
  BY DEF Lastver, Nextver
<1>2. ASSUME NEW k \in Chunk, Upload(p)'.file[k] = None PROVE Done(p, k)'
  <2>1. Done(p, k)
    BY <1>2 DEF Shifting
  <2> QED BY <1>1, <2>1 DEF Done
<1>3. ASSUME NEW k \in Chunk, Upload(p)'.file[k] # None PROVE Waits(p, k)' /\ Ahead(p, k)'
  <2>1. Waits(p, k) /\ Ahead(p, k) /\ Ahead(p, k)'
    BY <1>3 DEF Shifting
  <2>2. ~Replacing(p, k) /\ ~Replacing(p, k)'
    BY DEF Replacing
  <2>3. Waits(p, k)'
    BY <1>1, <2>1, <2>2 DEF Waits
  <2> QED BY <2>1, <2>3
<1> QED BY <1>1, <1>2, <1>3 DEF Shifting

\* A step of srv_commit.pm that is not disturbed leads on, until the new version
\* has all but its chunks.
LEMMA BuildAdvances ==
  \A p \in Proc :
    /\ StoreInv /\ At(p)
    /\ \/ Scan(p) \/ MakeNext(p) \/ MoveHdk(p) \/ MakeHdk(p)
       \/ MoveCfg(p) \/ MoveKeyring(p)
    => Advances(p)
\* srv_commit.pm finds the newest version and all that it needs.
<1>ScanAdvances.
  ASSUME StoreInv, NEW p \in Proc, At(p), Scan(p)
  PROVE  Advances(p)
  <2> USE <1>ScanAdvances
  <2> USE DEF RollbackPc, CommitPc, FillPc, BuildPc
  <2>1. proc[p].pc = "scan"
    BY DEF Scan
  <2>2. Settled(last) /\ Brings(Upload(p), last) /\ proc[p].dir = 0
    BY <2>1 DEF At
  <2>3. last \in Version /\ LastVersion = last
    BY <2>2, SettledLast DEF Settled
  <2>4. Whole(Upload(p)) /\ Whole(tree[LastVersion])
    <3>1. Stored(last) /\ Full(last)
      BY <2>2, <2>3, VersionFacts DEF Settled, Chain
    <3>2. None \notin Keyring /\ Dir # None
      BY NoneApart
    <3> QED BY <2>2, <2>3, <3>1, <3>2 DEF Whole, HasHdk, Brings, Stored, Full
  <2>5. /\ Become(p, [proc[p] EXCEPT !.pc = "mkdir", !.lastver = LastVersion])
        /\ UNCHANGED <<tree, last, cache, lock, nonces, committed>>
    BY <2>4 DEF Scan
  <2>6. /\ proc'[p].pc = "mkdir" /\ proc'[p].lastver = last
        /\ proc'[p].nonce = proc[p].nonce /\ proc'[p].target = proc[p].target
        /\ proc'[p].dir = proc[p].dir
    <3>1. /\ proc'[p] = [proc[p] EXCEPT !.pc = "mkdir", !.lastver = last]
          /\ proc[p] \in Process
      BY <2>3, <2>5, Becomes DEF StoreInv
    <3> QED BY <3>1 DEF Process
  <2>7. Settled(last)' /\ Brings(Upload(p), last)'
    BY <2>2, <2>5, <2>6, SettledSame DEF Brings, Upload
  <2>8. At(p)'
    BY <2>2, <2>5, <2>6, <2>7 DEF At, Lastver
  <2>9. Coming(p)' = Coming(p)
    BY <2>1, <2>5, <2>6 DEF Coming, Upload
  <2> QED BY <2>1, <2>6, <2>8, <2>9 DEF Advances, Running
\* srv_commit.pm makes the directory of the next version.
<1>MakeNextAdvances.
  ASSUME StoreInv, NEW p \in Proc, At(p), MakeNext(p)
  PROVE  Advances(p)
  <2> USE <1>MakeNextAdvances
  <2> USE DEF RollbackPc, CommitPc, FillPc, BuildPc
  <2>1. proc[p].pc = "mkdir" /\ Lastver(p) < MaxVersion
    BY DEF MakeNext
  <2>2. Settled(Lastver(p)) /\ Brings(Upload(p), Lastver(p)) /\ proc[p].dir = 0
    BY <2>1 DEF At
  <2>3. PICK L \in Version, N \in Version : L = Lastver(p) /\ N = Nextver(p) /\ N = L + 1
    BY <2>1, <2>2, VersionFacts DEF Settled, Nextver, Lastver
  <2>4. \A v \in Version : /\ v > N => v > L
                           /\ v =< L => v # N
                           /\ v < L => v # N
    BY <2>3, VersionFacts, SMTT(20)
  <2>5. N > L /\ N # L
    BY <2>3, VersionFacts, SMTT(20)
  <2>6. tree[N] = None
    BY <2>2, <2>3, <2>5 DEF Settled, Newest
  <2>7. /\ tree' = [tree EXCEPT ![N] = EmptyDir] /\ Goto(p, "hdk")
        /\ UNCHANGED <<last, cache, committed>>
    BY <2>3, <2>6 DEF MakeNext
  <2>8. /\ tree'[N] = EmptyDir /\ EmptyDir # None
        /\ \A v \in Version : v # N => tree'[v] = tree[v]
    BY <2>7, FileFacts, TreeFacts DEF StoreInv
  <2>9. /\ proc'[p].pc = "hdk" /\ proc'[p].nonce = proc[p].nonce
        /\ proc'[p].target = proc[p].target /\ proc'[p].lastver = proc[p].lastver
        /\ proc'[p].dir = proc[p].dir
    BY <2>7, GoesOn DEF StoreInv
  <2>10. Lastver(p)' = L /\ Nextver(p)' = N /\ Upload(p)' = Upload(p)
    BY <2>3, <2>7, <2>9 DEF Lastver, Nextver, Upload
  <2>11. Chain(L)'
    <3>1. Chain(L) /\ tree[L] # None
      BY <2>2, <2>3, VersionFacts DEF Settled, Chain, Stored
    <3> QED BY <2>4, <2>5, <2>7, <2>8, <3>1, ChainSame
  <2>12. Newest(N)' /\ Full(L)' /\ Brings(Upload(p), Lastver(p))'
    <3>1. Newest(N)'
      BY <2>2, <2>3, <2>4, <2>8, VersionFacts DEF Settled, Newest
    <3>2. Full(L)'
      BY <2>2, <2>3, <2>5, <2>8 DEF Settled, Full
    <3>3. Brings(Upload(p), Lastver(p))'
      BY <2>2, <2>3, <2>5, <2>8, <2>10 DEF Brings
    <3> QED BY <3>1, <3>2, <3>3
  <2>13. Making(p)'
    BY <2>2, <2>3, <2>7, <2>8, <2>9, <2>10, <2>11, <2>12 DEF Making, Settled
  <2>14. At(p)'
    BY <2>2, <2>8, <2>9, <2>10, <2>12, <2>13 DEF At
  <2>15. Coming(p)' = Coming(p)
    BY <2>1, <2>9, <2>10 DEF Coming
  <2> QED BY <2>1, <2>9, <2>14, <2>15 DEF Advances, Running
\* All chunks are taken on to the next version at once.
<1>MoveHdkAdvances.
  ASSUME StoreInv, NEW p \in Proc, At(p), MoveHdk(p)
  PROVE  Advances(p)
  <2> USE <1>MoveHdkAdvances
  <2> USE DEF RollbackPc, CommitPc, FillPc, BuildPc
  <2>1. proc[p].pc = "hdk"
    BY DEF MoveHdk
  <2>2. /\ Making(p) /\ Full(Lastver(p)) /\ tree[Nextver(p)] = EmptyDir
        /\ Brings(Upload(p), Lastver(p)) /\ proc[p].dir = 0
    BY <2>1 DEF At
  <2>3. PICK L \in Version, N \in Version : L = Lastver(p) /\ N = Nextver(p)
    BY <2>2 DEF Making
  <2>4. /\ tree[L] \in Tree /\ tree[N] \in Tree /\ L # N
        /\ tree[L].dirs = Dir /\ Dir # None /\ tree[L] # None
        /\ tree[L].keyring \in Keyring
    <3>1. Owner(p)
      BY <2>1 DEF Owner
    <3>2. L < N /\ tree[L] \in Tree /\ tree[N] \in Tree
      BY <2>3, <3>1, OwnerFacts
    <3>3. tree[L].dirs = Dir /\ Dir # None /\ tree[L] # None
      BY <2>2, <2>3, <3>2, NoneApart DEF Full
    <3>4. tree[L].keyring \in Keyring
      BY <2>2, <2>3, VersionFacts DEF Making, Chain, Stored
    <3> QED BY <3>2, <3>3, <3>4, VersionFacts
  <2> DEFINE tl == [tree[L] EXCEPT !.dirs = None, !.file = NoFiles]
             tn == [tree[N] EXCEPT !.dirs = tree[L].dirs, !.file = tree[L].file]
  <2>5. /\ tree' = [tree EXCEPT ![N] = tn, ![L] = tl] /\ Goto(p, "mkhdk")
        /\ UNCHANGED <<last, cache, committed>>
    <3>1. /\ tree' = [tree EXCEPT
               ![N] = [@ EXCEPT !.dirs = tree[L].dirs, !.file = tree[L].file],
               ![L] = [@ EXCEPT !.dirs = None, !.file = NoFiles]]
          /\ Goto(p, "mkhdk") /\ UNCHANGED <<last, cache, committed>>
      BY <2>3, <2>4 DEF MoveHdk, HasHdk
    <3> QED BY <3>1, <2>4 DEF TypeOK, StoreInv
  <2>6. /\ tl \in Tree /\ tn \in Tree
        /\ tl.file = NoFiles /\ tn.file = tree[L].file /\ tl.dirs = None /\ tn.dirs = tree[L].dirs
        /\ tl.keyring = tree[L].keyring /\ tl.cfg = tree[L].cfg
    BY <2>4, TreeFacts DEF Tree
  <2> HIDE DEF tl, tn
  <2>7. /\ tree'[L] = tl /\ tree'[N] = tn /\ tl # None /\ tn # None
        /\ \A v \in Version : v # L /\ v # N => tree'[v] = tree[v]
    BY <2>4, <2>5, <2>6, NoneApart DEF StoreInv, TypeOK
  <2>8. /\ proc'[p].pc = "mkhdk" /\ proc'[p].nonce = proc[p].nonce
        /\ proc'[p].target = proc[p].target /\ proc'[p].lastver = proc[p].lastver
        /\ proc'[p].dir = proc[p].dir
    BY <2>5, GoesOn DEF StoreInv
  <2>9. /\ Lastver(p)' = L /\ Nextver(p)' = N /\ Upload(p)' = Upload(p)
        /\ Coming(p) = Upload(p).keyring /\ Coming(p)' = Upload(p).keyring
    BY <2>1, <2>3, <2>5, <2>8 DEF Lastver, Nextver, Upload, Coming
  <2>10. Making(p)'
    <3>1. proc[p].pc # "link" /\ proc'[p].pc # "link"
      BY <2>1, <2>8
    <3>2. /\ tree'[L] # None /\ tree'[N] # None
          /\ tree'[L].cfg = tree[L].cfg /\ tree'[L].keyring = tree[L].keyring
      BY <2>6, <2>7
    <3> QED BY <2>2, <2>3, <2>5, <2>7, <2>8, <3>1, <3>2, MakingSame
  <2>11. Filing(p)'
    BY <2>2, <2>6, <2>7, <2>8, <2>9 DEF Filing, Brings
  <2>12. Shifting(p)'
    <3>1. ASSUME NEW k \in Chunk
          PROVE  /\ tree'[L].file[k] = None /\ tree'[N].file[k] = tree[L].keyring[k]
                 /\ tree'[L].keyring[k] = tree[L].keyring[k]
                 /\ Upload(p).keyring[k] # None
                 /\ Upload(p).file[k] = IF Upload(p).keyring[k] # tree[L].keyring[k]
                                        THEN Upload(p).keyring[k] ELSE None
                 /\ Upload(p).file[k] # None => DirOf(k) \in Upload(p).dirs
      <4>1. NoFiles[k] = None
        BY DEF NoFiles
      <4>2. tree[L].file[k] = tree[L].keyring[k]
        BY <2>2, <2>3 DEF Full
      <4>3. Upload(p).keyring[k] # None
        BY <2>2, NoneIsNoTag DEF Brings
      <4> QED BY <2>2, <2>3, <2>6, <2>7, <4>1, <4>2, <4>3 DEF Brings
    <3>2. ASSUME NEW k \in Chunk, Upload(p).file[k] = None PROVE Done(p, k)'
      <4>1. Upload(p).keyring[k] = tree[L].keyring[k]
        BY <3>1, <3>2
      <4> QED BY <2>9, <3>1, <4>1 DEF Done
    <3>3. ASSUME NEW k \in Chunk, Upload(p).file[k] # None PROVE Waits(p, k)' /\ Ahead(p, k)'
      <4>1. /\ Upload(p).keyring[k] # tree[L].keyring[k]
            /\ Upload(p).file[k] = Upload(p).keyring[k]
        BY <3>1, <3>3
      <4>2. ~Replacing(p, k)'
        BY <2>8 DEF Replacing
      <4>3. Waits(p, k)'
        BY <2>9, <3>1, <3>3, <4>1, <4>2 DEF Waits
      <4>4. DirOf(k) >= 0
        BY DirFacts, SMTT(20) DEF Dir
      <4>5. Ahead(p, k)'
        BY <2>2, <2>8, <4>4 DEF Ahead
      <4> QED BY <4>3, <4>5
    <3> QED BY <2>2, <2>4, <2>6, <2>7, <2>9, <3>2, <3>3 DEF Shifting, Brings
  <2>13. At(p)'
    BY <2>8, <2>10, <2>11, <2>12 DEF At
  <2> QED BY <2>1, <2>8, <2>9, <2>13 DEF Advances, Running
\* The last version gets an empty hdk.
<1>MakeHdkAdvances.
  ASSUME StoreInv, NEW p \in Proc, At(p), MakeHdk(p)
  PROVE  Advances(p)
  <2> USE <1>MakeHdkAdvances
  <2> USE DEF RollbackPc, CommitPc, FillPc, BuildPc
  <2>1. proc[p].pc = "mkhdk"
    BY DEF MakeHdk
  <2>2. Making(p) /\ Filing(p) /\ Shifting(p)
    BY <2>1 DEF At
  <2>3. PICK L \in Version, N \in Version : L = Lastver(p) /\ N = Nextver(p)
    BY <2>2 DEF Making
  <2>4. tree[L] \in Tree /\ tree[N] # None /\ L # N /\ tree[L].dirs = None
    <3>1. Owner(p)
      BY <2>1 DEF Owner
    <3>2. L < N /\ tree[L] \in Tree
      BY <2>3, <3>1, OwnerFacts
    <3> QED BY <2>1, <2>2, <2>3, <3>2, VersionFacts DEF Making, Filing
  <2> DEFINE t == [tree[L] EXCEPT !.dirs = {}]
  <2>5. /\ tree' = [tree EXCEPT ![L] = t] /\ Goto(p, "cfg")
        /\ UNCHANGED <<last, cache, committed>>
    BY <2>3, <2>4 DEF MakeHdk, HasHdk
  <2>6. /\ t \in Tree /\ t.file = tree[L].file /\ t.keyring = tree[L].keyring
        /\ t.cfg = tree[L].cfg /\ t.dirs = {}
    BY <2>4 DEF Tree
  <2> HIDE DEF t
  <2>7. /\ tree'[L] = t /\ t # None
        /\ \A v \in Version : v # L => tree'[v] = tree[v]
    BY <2>5, <2>6, FileFacts DEF StoreInv
  <2>8. /\ proc'[p].pc = "cfg" /\ proc'[p].nonce = proc[p].nonce
        /\ proc'[p].target = proc[p].target /\ proc'[p].lastver = proc[p].lastver
        /\ proc'[p].dir = proc[p].dir
    BY <2>5, GoesOn DEF StoreInv
  <2>9. /\ Lastver(p)' = L /\ Nextver(p)' = N /\ Upload(p)' = Upload(p)
        /\ Coming(p)' = Coming(p)
    BY <2>1, <2>3, <2>5, <2>8 DEF Lastver, Nextver, Upload, Coming
  <2>10. /\ tree'[L] # None /\ tree'[N] = tree[N] /\ tree'[N] # None
         /\ tree'[L].cfg = tree[L].cfg /\ tree'[L].keyring = tree[L].keyring
         /\ tree'[L].file = tree[L].file /\ tree'[L].dirs = {}
         /\ \A v \in Version : v # L /\ v # N => tree'[v] = tree[v]
    BY <2>4, <2>6, <2>7
  <2>11. Making(p)'
    <3>1. proc[p].pc # "link" /\ proc'[p].pc # "link"
      BY <2>1, <2>8
    <3> QED BY <2>2, <2>3, <2>5, <2>8, <2>10, <3>1, MakingSame
  <2>12. Filing(p)'
    BY <2>1, <2>2, <2>8, <2>9, <2>10 DEF Filing
  <2>13. Shifting(p)'
    <3>1. proc[p].pc # "new" /\ proc'[p].pc # "new"
      BY <2>1, <2>8
    <3>2. \A k \in Chunk : Upload(p).file[k] # None /\ Ahead(p, k) => Ahead(p, k)'
      BY <2>1, <2>8 DEF Ahead
    <3>3. Upload(p)' # None /\ Upload(p)'.dirs = Upload(p).dirs /\ Upload(p)'.file = Upload(p).file
      BY <2>2, <2>9 DEF Shifting
    <3>4. tree'[N].file = tree[N].file /\ tree'[N].dirs = tree[N].dirs
      BY <2>10
    <3> QED BY <2>2, <2>3, <2>8, <2>9, <2>10, <3>1, <3>2, <3>3, <3>4, ShiftingSame
  <2>14. At(p)'
    BY <2>8, <2>11, <2>12, <2>13 DEF At
  <2> QED BY <2>1, <2>8, <2>9, <2>14 DEF Advances, Running
\* The files of the upload that are not chunks are taken to the next version.
<1>MoveCfgAdvances.
  ASSUME StoreInv, NEW p \in Proc, At(p), MoveCfg(p)
  PROVE  Advances(p)
  <2> USE <1>MoveCfgAdvances
  <2> USE DEF RollbackPc, CommitPc, FillPc, BuildPc
  <2>1. proc[p].pc = "cfg"
    BY DEF MoveCfg
  <2>2. Making(p) /\ Filing(p) /\ Shifting(p)
    BY <2>1 DEF At
  <2>3. PICK L \in Version, N \in Version : L = Lastver(p) /\ N = Nextver(p)
    BY <2>2 DEF Making
  <2>4. tree[N] \in Tree /\ tree[L] # None /\ L # N
    <3>1. Owner(p)
      BY <2>1 DEF Owner
    <3>2. L < N /\ tree[L] \in Tree /\ tree[N] \in Tree
      BY <2>3, <3>1, OwnerFacts
    <3> QED BY <3>2, VersionFacts, NoneApart
  <2>5. /\ proc[p].nonce \in Nonce /\ Upload(p) = cache[proc[p].nonce]
        /\ cache \in [Nonce -> Tree \cup {None}]
        /\ Upload(p) \in Tree /\ Upload(p) # None /\ Upload(p).cfg
    BY <2>1, <2>2, UploadFacts DEF Shifting, Filing, Running
  <2> DEFINE t == [tree[N] EXCEPT !.cfg = TRUE]
             u == [Upload(p) EXCEPT !.cfg = FALSE]
  <2>6. /\ tree' = [tree EXCEPT ![N] = t] /\ cache' = [cache EXCEPT ![proc[p].nonce] = u]
        /\ Goto(p, "keyring") /\ UNCHANGED <<last, committed>>
    BY <2>3, <2>5 DEF MoveCfg
  <2>7. /\ t \in Tree /\ t.file = tree[N].file /\ t.dirs = tree[N].dirs /\ t.cfg
        /\ t.keyring = tree[N].keyring
        /\ u \in Tree /\ u.file = Upload(p).file /\ u.dirs = Upload(p).dirs
        /\ u.keyring = Upload(p).keyring
    BY <2>4, <2>5 DEF Tree
  <2> HIDE DEF t, u
  <2>8. /\ tree'[N] = t /\ t # None
        /\ \A v \in Version : v # N => tree'[v] = tree[v]
    BY <2>6, <2>7, FileFacts DEF StoreInv
  <2>9. /\ proc'[p].pc = "keyring" /\ proc'[p].nonce = proc[p].nonce
        /\ proc'[p].target = proc[p].target /\ proc'[p].lastver = proc[p].lastver
        /\ proc'[p].dir = proc[p].dir
    BY <2>6, GoesOn DEF StoreInv
  <2>10. Upload(p)' = u /\ u # None
    BY <2>5, <2>6, <2>7, <2>9, NoneApart DEF Upload
  <2>11. /\ Lastver(p)' = L /\ Nextver(p)' = N /\ Coming(p)' = Coming(p)
    BY <2>1, <2>3, <2>7, <2>9, <2>10 DEF Lastver, Nextver, Coming
  <2>12. /\ tree'[L] = tree[L] /\ tree'[L] # None /\ tree'[N] # None /\ tree'[N].cfg
         /\ tree'[N].file = tree[N].file /\ tree'[N].dirs = tree[N].dirs
         /\ \A v \in Version : v # L /\ v # N => tree'[v] = tree[v]
    BY <2>4, <2>7, <2>8
  <2>13. Making(p)'
    <3>1. proc[p].pc # "link" /\ proc'[p].pc # "link"
      BY <2>1, <2>9
    <3>2. tree'[L].cfg = tree[L].cfg /\ tree'[L].keyring = tree[L].keyring
      BY <2>12
    <3> QED BY <2>2, <2>3, <2>6, <2>9, <2>12, <3>1, <3>2, MakingSame
  <2>14. Filing(p)'
    BY <2>1, <2>2, <2>3, <2>9, <2>11, <2>12 DEF Filing
  <2>15. Shifting(p)'
    <3>1. proc[p].pc # "new" /\ proc'[p].pc # "new"
      BY <2>1, <2>9
    <3>2. \A k \in Chunk : Upload(p).file[k] # None /\ Ahead(p, k) => Ahead(p, k)'
      BY <2>1, <2>9 DEF Ahead
    <3>3. Upload(p)' # None /\ Upload(p)'.dirs = Upload(p).dirs /\ Upload(p)'.file = Upload(p).file
      BY <2>7, <2>10
    <3>4. tree'[L].file = tree[L].file /\ tree'[L].keyring = tree[L].keyring
      BY <2>12
    <3> QED BY <2>2, <2>3, <2>9, <2>11, <2>12, <3>1, <3>2, <3>3, <3>4, ShiftingSame
  <2>16. At(p)'
    BY <2>9, <2>13, <2>14, <2>15 DEF At
  <2> QED BY <2>1, <2>9, <2>11, <2>16 DEF Advances, Running
\* Moving the keyring: the keyring that comes is now that of the next version.
<1>MoveKeyringAdvances.
  ASSUME StoreInv, NEW p \in Proc, At(p), MoveKeyring(p)
  PROVE  Advances(p)
  <2> USE <1>MoveKeyringAdvances
  <2> USE DEF RollbackPc, CommitPc, FillPc, BuildPc
  <2>1. proc[p].pc = "keyring"
    BY DEF MoveKeyring
  <2>2. Making(p) /\ Filing(p) /\ Shifting(p)
    BY <2>1 DEF At
  <2>3. PICK L \in Version, N \in Version : L = Lastver(p) /\ N = Nextver(p)
    BY <2>2 DEF Making
  <2>4. tree[N] \in Tree /\ tree[L] # None /\ L # N
    <3>1. Owner(p)
      BY <2>1 DEF Owner
    <3>2. L < N /\ tree[L] \in Tree /\ tree[N] \in Tree
      BY <2>3, <3>1, OwnerFacts
    <3> QED BY <3>2, VersionFacts, NoneApart
  <2>5. /\ proc[p].nonce \in Nonce /\ Upload(p) = cache[proc[p].nonce]
        /\ cache \in [Nonce -> Tree \cup {None}]
        /\ Upload(p) \in Tree /\ Upload(p) # None
        /\ Coming(p) = Upload(p).keyring /\ Upload(p).keyring \in Keyring
        /\ Upload(p).keyring # None
    <3>1. Coming(p) = Upload(p).keyring
      BY <2>1 DEF Coming
    <3> QED BY <2>1, <2>2, <3>1, UploadFacts, NoneApart DEF Shifting, Running
  <2> DEFINE t == [tree[N] EXCEPT !.keyring = Upload(p).keyring]
             u == [Upload(p) EXCEPT !.keyring = None]
  <2>6. /\ tree' = [tree EXCEPT ![N] = t] /\ cache' = [cache EXCEPT ![proc[p].nonce] = u]
        /\ Goto(p, "dir") /\ UNCHANGED <<last, committed>>
    BY <2>3, <2>5 DEF MoveKeyring
  <2>7. /\ t \in Tree /\ t.file = tree[N].file /\ t.dirs = tree[N].dirs /\ t.cfg = tree[N].cfg
        /\ t.keyring = Upload(p).keyring
        /\ u \in Tree /\ u.file = Upload(p).file /\ u.dirs = Upload(p).dirs
    BY <2>4, <2>5 DEF Tree
  <2> HIDE DEF t, u
  <2>8. /\ tree'[N] = t /\ t # None
        /\ \A v \in Version : v # N => tree'[v] = tree[v]
    BY <2>6, <2>7, FileFacts DEF StoreInv
  <2>9. /\ proc'[p].pc = "dir" /\ proc'[p].nonce = proc[p].nonce
        /\ proc'[p].target = proc[p].target /\ proc'[p].lastver = proc[p].lastver
        /\ proc'[p].dir = proc[p].dir
    BY <2>6, GoesOn DEF StoreInv
  <2>10. Upload(p)' = u /\ u # None
    BY <2>5, <2>6, <2>7, <2>9, NoneApart DEF Upload
  <2>11. Lastver(p)' = L /\ Nextver(p)' = N /\ Coming(p)' = Coming(p)
    <3>1. Lastver(p)' = L /\ Nextver(p)' = N
      BY <2>3, <2>9 DEF Lastver, Nextver
    <3>2. Coming(p)' = tree'[N].keyring
      BY <2>9, <3>1 DEF Coming
    <3> QED BY <2>5, <2>7, <2>8, <3>1, <3>2
  <2>12. /\ tree'[L] = tree[L] /\ tree'[L] # None /\ tree'[N] # None /\ tree'[N].cfg = tree[N].cfg
         /\ tree'[N].file = tree[N].file /\ tree'[N].dirs = tree[N].dirs
         /\ \A v \in Version : v # L /\ v # N => tree'[v] = tree[v]
    BY <2>4, <2>7, <2>8
  <2>13. Making(p)'
    <3>1. proc[p].pc # "link" /\ proc'[p].pc # "link"
      BY <2>1, <2>9
    <3>2. tree'[L].cfg = tree[L].cfg /\ tree'[L].keyring = tree[L].keyring
      BY <2>12
    <3> QED BY <2>2, <2>3, <2>6, <2>9, <2>12, <3>1, <3>2, MakingSame
  <2>14. Filing(p)'
    <3>1. tree[L].dirs = {} /\ tree[N].cfg
      BY <2>1, <2>2, <2>3 DEF Filing
    <3>2. {} # None
      BY NoneApart
    <3> QED BY <2>9, <2>11, <2>12, <3>1, <3>2 DEF Filing
  <2>15. Shifting(p)'
    <3>1. proc[p].pc # "new" /\ proc'[p].pc # "new"
      BY <2>1, <2>9
    <3>2. \A k \in Chunk : Upload(p).file[k] # None /\ Ahead(p, k) => Ahead(p, k)'
      BY <2>1, <2>9 DEF Ahead
    <3>3. Upload(p)' # None /\ Upload(p)'.dirs = Upload(p).dirs /\ Upload(p)'.file = Upload(p).file
      BY <2>7, <2>10
    <3>4. tree'[L].file = tree[L].file /\ tree'[L].keyring = tree[L].keyring
      BY <2>12
    <3> QED BY <2>2, <2>3, <2>9, <2>11, <2>12, <3>1, <3>2, <3>3, <3>4, ShiftingSame
  <2>16. At(p)'
    BY <2>9, <2>13, <2>14, <2>15 DEF At
  <2> QED BY <2>1, <2>9, <2>11, <2>16 DEF Advances, Running
<1> SUFFICES ASSUME NEW p \in Proc, StoreInv, At(p),
                    \/ Scan(p) \/ MakeNext(p) \/ MoveHdk(p) \/ MakeHdk(p)
                    \/ MoveCfg(p) \/ MoveKeyring(p)
             PROVE  Advances(p)
  OBVIOUS
<1> QED BY <1>ScanAdvances, <1>MakeNextAdvances, <1>MoveHdkAdvances, <1>MakeHdkAdvances,
           <1>MoveCfgAdvances, <1>MoveKeyringAdvances

=============================================================================
