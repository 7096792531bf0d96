-------------------------- MODULE PowerLossProofs ---------------------------
(***************************************************************************)
(* What the flags of the local cache promise, for any number of chunks,    *)
(* contents, crashes, losses of power and failed reads.                    *)
(***************************************************************************)
EXTENDS PowerLoss, FiniteSetTheorems, TLAPS

\* The files that may be on the disk, the current flags among them.
DiskOK ==
  /\ disk.keys \subseteq [Chunk -> Value]
  /\ disk.index \subseteq SUBSET Chunk
  /\ disk.flags \subseteq SUBSET {"dirty", "damaged"}
  /\ flags \in disk.flags
  /\ unnoted \in BOOLEAN

\* A cache is used once it has been created, and is empty until then.
Created ==
  /\ pc = "file" => made = 1
  /\ pc = "header" => made = 2
  /\ pc = "index" => made = 3
  /\ pc \notin {"off", "file", "header", "index"} => made = 4
  /\ made # 4 => index = {} /\ keys = prev /\ wrote = prev
  /\ pc # "serve" => upd = None
  /\ pc = "damaging" => "damaged" \in flags

\* Unless a validation has died before its flag, only a cache that is, or is
\* about to be, marked as damaged has lost what the sessions committed.
Kept ==
  /\ ~lapse => keys = wrote \/ "damaged" \in flags \/ pc = "damage"
  /\ sent # None => pc = "off"

\* All is as the keyring says, except in the chunk that is being updated.
GoodButFor(u) ==
  /\ \A c \in index : image[c] = keys[c] \/ (u # None /\ u.chunk = c)
  /\ \A c \in Chunk \ index : keys[c] = prev[c]

\* A cache that may be found without a flag after a loss of power is good, and
\* is neither being changed nor known to be damaged.
Marked ==
  ~unnoted /\ unread = 0 =>
    /\ {} \in disk.flags => /\ Good
                            /\ pc \notin {"serve", "damage"}
                            /\ "damaged" \notin flags
    /\ pc = "marking" => Good /\ flags = {"dirty"} /\ ~leave_dirty
    /\ pc = "unmark" /\ "damaged" \notin flags => Good
    /\ pc = "serve" /\ "damaged" \notin flags /\ ~leave_dirty => GoodButFor(upd)

IInv == TypeOK /\ DiskOK /\ Created /\ Kept /\ UploadCurrent /\ Marked

-----------------------------------------------------------------------------

\* The stages that end with a synchronization.
LEMMA AfterFacts ==
  /\ DOMAIN After = {"marking", "damaging", "unmarking", "judging"}
  /\ After["marking"] = "serve" /\ After["damaging"] = "unmark"
  /\ After["unmarking"] = "off" /\ After["judging"] = "off"
  BY ZenonT(30) DEF After

\* An update is of one chunk.
LEMMA UpdateFacts ==
  /\ None \notin Update
  /\ \A u \in Update : u.chunk \in Chunk /\ u.data \in Value
  BY CacheAssumption, ZenonT(30) DEF Update, Chunk

\* The number of chunks that could not be read.
LEMMA ReadFailures ==
  ASSUME NEW failed \in SUBSET Chunk
  PROVE  Cardinality(failed) \in Nat /\ (Cardinality(failed) = 0 <=> failed = {})
<1>1. NumChunks - 1 \in Int BY CacheAssumption
<1>2. IsFiniteSet(Chunk) BY <1>1, FS_Interval DEF Chunk
<1>3. IsFiniteSet(failed) BY <1>2, FS_Subset, ZenonT(30)
<1> QED BY <1>3, FS_CardinalityType, FS_EmptySet, ZenonT(30)

\* Every step of a Parcelkeeper keeps the variables in their types.
LEMMA TypeOKStep ==
  ASSUME TypeOK, Next
  PROVE  TypeOK'
<1> USE CacheAssumption, AfterFacts, UpdateFacts DEF prev
<1>1. ASSUME NEW m \in {"run", "validate", "upload"}, Start(m) PROVE TypeOK'
  BY <1>1 DEF Start, TypeOK
<1>2. CASE CreateFile
  BY <1>2 DEF CreateFile, history, TypeOK
<1>3. CASE CreateHeader
  BY <1>3 DEF CreateHeader, history, TypeOK
<1>4. CASE CreateIndex
  BY <1>4 DEF CreateIndex, history, TypeOK
<1>5. CASE FuseInit
  BY <1>5, ZenonT(30) DEF FuseInit, SetFlags, history, TypeOK
<1>6. CASE Synchronize
  BY <1>6, ZenonT(30) DEF Synchronize, After, persistent, history, TypeOK
<1>7. ASSUME NEW c \in Chunk, NEW v \in Value, UpdateBegins(c, v) PROVE TypeOK'
  BY <1>7, ZenonT(30) DEF UpdateBegins, Update, history, TypeOK
<1>8. CASE UpdateWrites
  BY <1>8, ZenonT(30) DEF UpdateWrites, Update, process, history, TypeOK
<1>9. CASE UpdateCommits
  BY <1>9, ZenonT(30) DEF UpdateCommits, Update, TypeOK
<1>10. CASE ChunkError
  BY <1>10 DEF ChunkError, persistent, TypeOK
<1>11. CASE FuseShutdown
  BY <1>11, ZenonT(30) DEF FuseShutdown, SetFlags, history, TypeOK
<1>12. ASSUME NEW full \in BOOLEAN, NEW splice \in BOOLEAN, Validate(full, splice) PROVE TypeOK'
  <2>1. PICK failed \in SUBSET index : unread + Cardinality(failed) <= MaxUnread
                                    /\ unread' = unread + Cardinality(failed)
    BY <1>12, ZenonT(30) DEF Validate
  <2>2. unread' \in 0 .. MaxUnread BY <2>1, ReadFailures DEF TypeOK
  <2>3. keys' \in [Chunk -> Value] BY <1>12, ZenonT(30) DEF Validate, TypeOK
  <2>4. index' \subseteq Chunk BY <1>12, ZenonT(30) DEF Validate, TypeOK
  <2>5. pc' \in {"damage", "unmark", "off"} BY <1>12, ZenonT(30) DEF Validate
  <2>6. UNCHANGED <<made, image, flags, mode, upd, leave_dirty, wrote, sent, lapse, faults>>
    BY <1>12, ZenonT(30) DEF Validate
  <2> QED BY <2>2, <2>3, <2>4, <2>5, <2>6, ZenonT(30) DEF TypeOK
<1>13. CASE MarkDamaged
  BY <1>13, ZenonT(30) DEF MarkDamaged, SetFlags, history, TypeOK
<1>14. CASE Unmark
  BY <1>14, ZenonT(30) DEF Unmark, SetFlags, history, TypeOK
<1>15. CASE Upload
  BY <1>15, ZenonT(30) DEF Upload, MayUpload, SetFlags, TypeOK
<1>16. CASE Discard
  <2>1. /\ image' \in [Chunk -> Value \cup {Junk}] /\ keys' \in [Chunk -> Value]
        /\ wrote' \in [Chunk -> Value] /\ sent' = None /\ made' \in 0 .. 4
        /\ flags' = {} /\ index' = {} /\ lapse' = FALSE
    BY <1>16 DEF Discard
  <2>2. UNCHANGED <<pc, mode, upd, leave_dirty, faults, unread>>
    BY <1>16, ZenonT(30) DEF Discard, process
  <2> QED BY <2>1, <2>2, ZenonT(30) DEF TypeOK
<1>17. CASE Crash
  <2>1. lapse' \in BOOLEAN BY <1>17, ZenonT(30) DEF Crash, TypeOK
  <2>2. faults' \in 0 .. MaxFault /\ pc' = "off" /\ upd' = None /\ leave_dirty' = FALSE
    BY <1>17 DEF Crash, TypeOK
  <2>3. UNCHANGED <<made, image, flags, index, keys, mode, wrote, sent, unread>>
    BY <1>17, ZenonT(30) DEF Crash, persistent
  <2> QED BY <2>1, <2>2, <2>3, ZenonT(30) DEF TypeOK
<1> QED BY <1>1, <1>2, <1>3, <1>4, <1>5, <1>6, <1>7, <1>8, <1>9,
           <1>10, <1>11, <1>12, <1>13, <1>14, <1>15, <1>16, <1>17, ZenonT(30) DEF Next

\* The cache is created in order, and updated only afterwards.
LEMMA CreatedStep ==
  ASSUME TypeOK, Created, Next
  PROVE  Created'
<1> USE AfterFacts DEF prev
<1>1. ASSUME NEW m \in {"run", "validate", "upload"}, Start(m) PROVE Created'
  BY <1>1 DEF Start, Created
<1>2. CASE CreateFile
  BY <1>2 DEF CreateFile, history, Created
<1>3. CASE CreateHeader
  BY <1>3 DEF CreateHeader, history, Created
<1>4. CASE CreateIndex
  BY <1>4, ZenonT(30) DEF CreateIndex, history, Created
<1>5. CASE FuseInit
  BY <1>5, ZenonT(30) DEF FuseInit, SetFlags, history, Created
<1>6. CASE Synchronize
  BY <1>6, ZenonT(30) DEF Synchronize, After, persistent, history, Created
<1>7. ASSUME NEW c \in Chunk, NEW v \in Value, UpdateBegins(c, v) PROVE Created'
  BY <1>7, ZenonT(30) DEF UpdateBegins, Update, history, Created
<1>8. CASE UpdateWrites
  BY <1>8, ZenonT(30) DEF UpdateWrites, Update, process, history, Created
<1>9. CASE UpdateCommits
  BY <1>9, ZenonT(30) DEF UpdateCommits, Update, Created
<1>10. CASE ChunkError
  BY <1>10, ZenonT(30) DEF ChunkError, persistent, Created
<1>11. CASE FuseShutdown
  BY <1>11, ZenonT(30) DEF FuseShutdown, SetFlags, history, Created
<1>12. ASSUME NEW full \in BOOLEAN, NEW splice \in BOOLEAN, Validate(full, splice) PROVE Created'
  BY <1>12, ZenonT(30) DEF Validate, Created
<1>13. CASE MarkDamaged
  BY <1>13, ZenonT(30) DEF MarkDamaged, SetFlags, history, Created
<1>14. CASE Unmark
  BY <1>14, ZenonT(30) DEF Unmark, SetFlags, history, Created
<1>15. CASE Upload
  BY <1>15, ZenonT(30) DEF Upload, MayUpload, SetFlags, Created
<1>16. CASE Discard
  BY <1>16, ZenonT(30) DEF Discard, process, Created
<1>17. CASE Crash
  BY <1>17, ZenonT(30) DEF Crash, persistent, Created
<1> QED BY <1>1, <1>2, <1>3, <1>4, <1>5, <1>6, <1>7, <1>8, <1>9,
           <1>10, <1>11, <1>12, <1>13, <1>14, <1>15, <1>16, <1>17, ZenonT(30) DEF Next

\* Reverted chunks are marked, or their loss was noted.
LEMMA KeptStep ==
  ASSUME TypeOK, Created, Kept, Next
  PROVE  Kept'
<1> USE AfterFacts DEF prev
<1>1. ASSUME NEW m \in {"run", "validate", "upload"}, Start(m) PROVE Kept'
  BY <1>1, ZenonT(30) DEF Start, TypeOK, Created, Kept
<1>2. CASE CreateFile
  BY <1>2, ZenonT(30) DEF CreateFile, history, TypeOK, Created, Kept
<1>3. CASE CreateHeader
  BY <1>3 DEF CreateHeader, history, TypeOK, Created, Kept
<1>4. CASE CreateIndex
  BY <1>4, ZenonT(30) DEF CreateIndex, history, TypeOK, Created, Kept
<1>5. CASE FuseInit
  BY <1>5, ZenonT(30) DEF FuseInit, SetFlags, history, TypeOK, Created, Kept
<1>6. CASE Synchronize
  BY <1>6, ZenonT(30) DEF Synchronize, After, persistent, history, TypeOK, Created, Kept
<1>7. ASSUME NEW c \in Chunk, NEW v \in Value, UpdateBegins(c, v) PROVE Kept'
  BY <1>7, ZenonT(30) DEF UpdateBegins, Update, history, TypeOK, Created, Kept
<1>8. CASE UpdateWrites
  BY <1>8, ZenonT(30) DEF UpdateWrites, Update, process, history, TypeOK, Created, Kept
<1>9. CASE UpdateCommits
  BY <1>9, ZenonT(30) DEF UpdateCommits, Update, TypeOK, Created, Kept
<1>10. CASE ChunkError
  BY <1>10, ZenonT(30) DEF ChunkError, persistent, TypeOK, Created, Kept
<1>11. CASE FuseShutdown
  BY <1>11, ZenonT(30) DEF FuseShutdown, SetFlags, history, TypeOK, Created, Kept
<1>12. ASSUME NEW full \in BOOLEAN, NEW splice \in BOOLEAN, Validate(full, splice) PROVE Kept'
  BY <1>12 DEF Validate, TypeOK, Created, Kept
<1>13. CASE MarkDamaged
  BY <1>13, ZenonT(30) DEF MarkDamaged, SetFlags, history, TypeOK, Created, Kept
<1>14. CASE Unmark
  BY <1>14, ZenonT(30) DEF Unmark, SetFlags, history, TypeOK, Created, Kept
<1>15. CASE Upload
  BY <1>15, ZenonT(30) DEF Upload, MayUpload, SetFlags, TypeOK, Created, Kept
<1>16. CASE Discard
  BY <1>16, ZenonT(30) DEF Discard, process, TypeOK, Created, Kept
<1>17. CASE Crash
  BY <1>17, ZenonT(30) DEF Crash, persistent, TypeOK, Created, Kept
<1> QED BY <1>1, <1>2, <1>3, <1>4, <1>5, <1>6, <1>7, <1>8, <1>9,
           <1>10, <1>11, <1>12, <1>13, <1>14, <1>15, <1>16, <1>17, ZenonT(30) DEF Next

\* copy_for_upload() reads the keyring of a cache without a flag.
LEMMA UploadStep ==
  ASSUME TypeOK, Created, Kept, UploadCurrent, Next
  PROVE  UploadCurrent'
<1> USE AfterFacts DEF prev
<1>1. ASSUME NEW m \in {"run", "validate", "upload"}, Start(m) PROVE UploadCurrent'
  BY <1>1, ZenonT(30) DEF Start, TypeOK, Kept, UploadCurrent
<1>2. CASE CreateFile
  BY <1>2, ZenonT(30) DEF CreateFile, history, TypeOK, Kept, UploadCurrent
<1>3. CASE CreateHeader
  BY <1>3, ZenonT(30) DEF CreateHeader, history, TypeOK, Kept, UploadCurrent
<1>4. CASE CreateIndex
  BY <1>4, ZenonT(30) DEF CreateIndex, history, TypeOK, Kept, UploadCurrent
<1>5. CASE FuseInit
  BY <1>5, ZenonT(30) DEF FuseInit, SetFlags, history, TypeOK, Kept, UploadCurrent
<1>6. CASE Synchronize
  BY <1>6, ZenonT(30) DEF Synchronize, After, persistent, history, TypeOK, Kept, UploadCurrent
<1>7. ASSUME NEW c \in Chunk, NEW v \in Value, UpdateBegins(c, v) PROVE UploadCurrent'
  BY <1>7, ZenonT(30) DEF UpdateBegins, Update, history, TypeOK, Kept, UploadCurrent
<1>8. CASE UpdateWrites
  BY <1>8, ZenonT(30) DEF UpdateWrites, Update, process, history, TypeOK, Kept, UploadCurrent
<1>9. CASE UpdateCommits
  BY <1>9, ZenonT(30) DEF UpdateCommits, Update, TypeOK, Kept, UploadCurrent
<1>10. CASE ChunkError
  BY <1>10, ZenonT(30) DEF ChunkError, persistent, TypeOK, Kept, UploadCurrent
<1>11. CASE FuseShutdown
  BY <1>11, ZenonT(30) DEF FuseShutdown, SetFlags, history, TypeOK, Kept, UploadCurrent
<1>12. ASSUME NEW full \in BOOLEAN, NEW splice \in BOOLEAN, Validate(full, splice) PROVE UploadCurrent'
  BY <1>12, ZenonT(30) DEF Validate, TypeOK, Kept, UploadCurrent
<1>13. CASE MarkDamaged
  BY <1>13, ZenonT(30) DEF MarkDamaged, SetFlags, history, TypeOK, Kept, UploadCurrent
<1>14. CASE Unmark
  BY <1>14, ZenonT(30) DEF Unmark, SetFlags, history, TypeOK, Kept, UploadCurrent
<1>15. CASE Upload
  BY <1>15, ZenonT(30) DEF Upload, MayUpload, SetFlags, TypeOK, Kept, UploadCurrent
<1>16. CASE Discard
  BY <1>16, ZenonT(30) DEF Discard, process, TypeOK, Kept, UploadCurrent
<1>17. CASE Crash
  BY <1>17, ZenonT(30) DEF Crash, persistent, TypeOK, Kept, UploadCurrent
<1> QED BY <1>1, <1>2, <1>3, <1>4, <1>5, <1>6, <1>7, <1>8, <1>9,
           <1>10, <1>11, <1>12, <1>13, <1>14, <1>15, <1>16, <1>17, ZenonT(30) DEF Next

\* No flag is cleared, on the disk or in the file, of a cache that is not good.
LEMMA MarkedStep ==
  ASSUME TypeOK, DiskOK, Created, Marked, Next, unnoted' = unnoted, 
         disk'.flags \subseteq disk.flags \cup {flags'}, 
         Synchronize => disk'.flags = {flags'}
  PROVE  Marked'
<1> USE AfterFacts, UpdateFacts DEF prev
<1>1. ASSUME NEW m \in {"run", "validate", "upload"}, Start(m) PROVE Marked'
  BY <1>1, ZenonT(30) DEF Start, TypeOK, DiskOK, Created, Marked, Good, GoodButFor
<1>2. CASE CreateFile
  BY <1>2 DEF CreateFile, history, TypeOK, DiskOK, Created, Marked, Good, GoodButFor
<1>3. CASE CreateHeader
  BY <1>3 DEF CreateHeader, history, TypeOK, DiskOK, Created, Marked, Good, GoodButFor
<1>4. CASE CreateIndex
  BY <1>4 DEF CreateIndex, history, TypeOK, DiskOK, Created, Marked, Good, GoodButFor
<1>5. CASE FuseInit
  <2>1. CASE pc' = "off" /\ flags' = flags
    BY <1>5, <2>1, ZenonT(30) DEF FuseInit, history, DiskOK, Marked, Good
  <2>2. CASE "damaged" \in flags /\ pc' = "serve" /\ flags' = flags
    BY <1>5, <2>2, ZenonT(30) DEF FuseInit, history, DiskOK, Marked, Good
  <2>3. CASE flags = {} /\ flags' = {"dirty"} /\ pc' = "marking"
    BY <1>5, <2>3, ZenonT(30) DEF FuseInit, history, DiskOK, Marked, Good
  <2> QED BY <1>5, <2>1, <2>2, <2>3, ZenonT(30) DEF FuseInit, SetFlags
<1>6. CASE Synchronize
  <2>1. /\ UNCHANGED <<image, flags, index, keys, upd, leave_dirty, unread>>
        /\ disk'.flags = {flags}
    BY <1>6, ZenonT(30) DEF Synchronize, persistent, history
  <2>2. Good' <=> Good BY <2>1, ZenonT(30) DEF Good
  <2>3. GoodButFor(upd)' <=> GoodButFor(upd) BY <2>1, ZenonT(30) DEF GoodButFor
  <2>4. Good => GoodButFor(upd) BY ZenonT(30) DEF Good, GoodButFor
  <2>5. CASE pc = "marking" /\ pc' = "serve"
    BY <2>1, <2>2, <2>3, <2>4, <2>5, ZenonT(30) DEF Marked
  <2>6. CASE pc = "damaging" /\ pc' = "unmark"
    BY <2>1, <2>2, <2>6, ZenonT(30) DEF Marked, DiskOK, Created
  <2>7. CASE pc' = "off"
    BY <2>1, <2>2, <2>7, ZenonT(30) DEF Marked, DiskOK
  <2> QED BY <1>6, <2>5, <2>6, <2>7, ZenonT(30) DEF Synchronize
<1>7. ASSUME NEW c \in Chunk, NEW v \in Value, UpdateBegins(c, v) PROVE Marked'
  BY <1>7 DEF UpdateBegins, Update, history, TypeOK, DiskOK, Created, Marked, Good, GoodButFor
<1>8. CASE UpdateWrites
  BY <1>8 DEF UpdateWrites, Update, process, history, TypeOK, DiskOK, Created, Marked, Good, GoodButFor
<1>9. CASE UpdateCommits
  BY <1>9 DEF UpdateCommits, Update, TypeOK, DiskOK, Created, Marked, Good, GoodButFor
<1>10. CASE ChunkError
  BY <1>10, ZenonT(30) DEF ChunkError, persistent, TypeOK, DiskOK, Created, Marked, Good, GoodButFor
<1>11. CASE FuseShutdown
  BY <1>11 DEF FuseShutdown, SetFlags, history, TypeOK, DiskOK, Created, Marked, Good, GoodButFor
<1>12. ASSUME NEW full \in BOOLEAN, NEW splice \in BOOLEAN, Validate(full, splice) PROVE Marked'
  <2> SUFFICES ASSUME ~unnoted, unread' = 0 PROVE Marked'
    BY ZenonT(30) DEF Marked
  <2>1. PICK failed \in SUBSET index :
          LET damage == Absent \cup (IF full THEN Mismatched \ failed ELSE {})
              err == \E c \in failed : \A d \in index : d <= c
          IN /\ unread' = unread + Cardinality(failed)
             /\ IF splice
                THEN /\ keys' = [c \in Chunk |-> IF c \in damage THEN prev[c] ELSE keys[c]]
                     /\ index' = index \ damage
                ELSE UNCHANGED <<keys, index>>
             /\ pc' = IF damage # {} THEN "damage"
                      ELSE IF ~err /\ full /\ "dirty" \in flags THEN "unmark"
                      ELSE "off"
    BY <1>12, ZenonT(30) DEF Validate
  <2>2. failed \in SUBSET Chunk BY ZenonT(30) DEF TypeOK
  <2>3. unread = 0 /\ failed = {} BY <2>1, <2>2, ReadFailures DEF TypeOK
  <2>4. UNCHANGED <<image, flags>> BY <1>12, ZenonT(30) DEF Validate
  <2>5. {} \in disk'.flags => {} \in disk.flags BY <2>4, ZenonT(30) DEF DiskOK
  <2>6. pc' \in {"damage", "unmark", "off"} BY <2>1, ZenonT(30)
  <2>7. CASE Good
    <3>1. Absent = {} /\ Mismatched = {} BY <2>7, ZenonT(30) DEF Good, Absent, Mismatched
    <3>2. UNCHANGED <<keys, index>> BY <2>1, <3>1 DEF TypeOK
    <3>3. Good' BY <2>4, <2>7, <3>2, ZenonT(30) DEF Good
    <3>4. pc' # "damage" BY <2>1, <3>1, ZenonT(30)
    <3> QED BY <2>3, <2>4, <2>5, <2>6, <3>3, <3>4, ZenonT(30) DEF Marked
  <2>8. CASE ~Good
    <3>1. {} \notin disk'.flags BY <2>3, <2>5, <2>8, ZenonT(30) DEF Marked
    <3>2. Absent # {} \/ Mismatched # {} BY <2>8, ZenonT(30) DEF Good, Absent, Mismatched
    <3>3. pc' # "unmark" BY <2>1, <2>3, <3>2, ZenonT(30)
    <3> QED BY <2>6, <3>1, <3>3, ZenonT(30) DEF Marked
  <2> QED BY <2>7, <2>8, ZenonT(30)
<1>13. CASE MarkDamaged
  BY <1>13, ZenonT(30) DEF MarkDamaged, SetFlags, history, TypeOK, DiskOK, Created, Marked, Good, GoodButFor
<1>14. CASE Unmark
  BY <1>14 DEF Unmark, SetFlags, history, TypeOK, DiskOK, Created, Marked, Good, GoodButFor
<1>15. CASE Upload
  BY <1>15, ZenonT(30) DEF Upload, MayUpload, SetFlags, TypeOK, DiskOK, Created, Marked, Good, GoodButFor
<1>16. CASE Discard
  BY <1>16, ZenonT(30) DEF Discard, process, TypeOK, DiskOK, Created, Marked, Good, GoodButFor
<1>17. CASE Crash
  BY <1>17 DEF Crash, persistent, TypeOK, DiskOK, Created, Marked, Good, GoodButFor
<1> QED BY <1>1, <1>2, <1>3, <1>4, <1>5, <1>6, <1>7, <1>8, <1>9,
           <1>10, <1>11, <1>12, <1>13, <1>14, <1>15, <1>16, <1>17, ZenonT(30) DEF Next

\* At first there is no cache.
LEMMA InitIInv == PowerInit => IInv
<1> SUFFICES ASSUME PowerInit PROVE IInv OBVIOUS
<1> USE CacheAssumption DEF PowerInit, Init, prev
<1>1. TypeOK
  <2>1. prev \in [Chunk -> Value] OBVIOUS
  <2>2. image \in [Chunk -> Value \cup {Junk}] OBVIOUS
  <2>3. faults \in 0 .. MaxFault /\ unread \in 0 .. MaxUnread /\ made \in 0 .. 4 OBVIOUS
  <2>4. /\ flags = {} /\ index = {} /\ keys = prev /\ pc = "off" /\ mode = "run"
        /\ upd = None /\ leave_dirty = FALSE /\ wrote = prev /\ sent = None /\ lapse = FALSE
    OBVIOUS
  <2> HIDE CacheAssumption DEF PowerInit, Init, prev
  <2> QED BY <2>1, <2>2, <2>3, <2>4, ZenonT(30) DEF TypeOK
<1>2. DiskOK BY ZenonT(30) DEF DiskOK
<1>3. Created /\ Kept /\ UploadCurrent BY ZenonT(30) DEF Created, Kept, UploadCurrent
<1>4. Marked BY ZenonT(30) DEF Marked, Good
<1> QED BY <1>1, <1>2, <1>3, <1>4, ZenonT(30) DEF IInv

\* What a step leaves on the disk.
LEMMA WrittenDisk ==
  ASSUME TypeOK', DiskOK, NEW syncs \in BOOLEAN, Written(syncs), UNCHANGED unnoted
  PROVE  /\ DiskOK'
         /\ disk'.flags \subseteq disk.flags \cup {flags'}
         /\ syncs => disk'.flags = {flags'}
<1>1. /\ disk'.keys = disk.keys \cup {keys'}
      /\ disk'.index = disk.index \cup {index'}
      /\ disk'.flags = (IF syncs THEN {} ELSE disk.flags) \cup {flags'}
  BY ZenonT(30) DEF Written
<1>2. keys' \in [Chunk -> Value] /\ index' \subseteq Chunk /\ flags' \subseteq {"dirty", "damaged"}
  BY ZenonT(30) DEF TypeOK
<1> QED BY <1>1, <1>2 DEF DiskOK

\* A step of a Parcelkeeper.
LEMMA CacheStepKeeps == IInv /\ CacheStep => IInv'
<1> SUFFICES ASSUME IInv, CacheStep PROVE IInv' OBVIOUS
<1> DEFINE syncs == pc \in DOMAIN After /\ pc' = After[pc] /\ faults' = faults
<1>1. Next /\ Written(syncs) /\ UNCHANGED unnoted BY ZenonT(30) DEF CacheStep
<1>2. TypeOK /\ DiskOK /\ Created /\ Kept /\ UploadCurrent /\ Marked BY ZenonT(30) DEF IInv
<1>3. TypeOK' BY <1>1, <1>2, TypeOKStep, ZenonT(30)
<1>4. Synchronize => syncs BY ZenonT(30) DEF Synchronize, history
<1>5. syncs \in BOOLEAN OBVIOUS
<1> HIDE DEF syncs
<1>6. /\ DiskOK' /\ disk'.flags \subseteq disk.flags \cup {flags'}
      /\ Synchronize => disk'.flags = {flags'}
  BY <1>1, <1>2, <1>3, <1>4, <1>5, WrittenDisk, ZenonT(30)
<1>7. Created' /\ Kept' /\ UploadCurrent'
  BY <1>1, <1>2, CreatedStep, KeptStep, UploadStep, ZenonT(30)
<1>8. Marked' BY <1>1, <1>2, <1>6, MarkedStep, ZenonT(30)
<1> QED BY <1>3, <1>6, <1>7, <1>8, ZenonT(30) DEF IInv

\* do_fsync() on the image of a session.
LEMMA DoFsyncKeeps == IInv /\ DoFsync => IInv'
<1> SUFFICES ASSUME IInv, DoFsync PROVE IInv' OBVIOUS
<1>1. TypeOK' BY ZenonT(30) DEF IInv, DoFsync, TypeOK, vars, persistent, process, history
<1>2. DiskOK' /\ disk'.flags \subseteq disk.flags \cup {flags'}
  BY <1>1, WrittenDisk, ZenonT(30) DEF IInv, DoFsync
<1>3. Created' /\ Kept' /\ UploadCurrent'
  BY ZenonT(30) DEF IInv, DoFsync, Created, Kept, UploadCurrent, vars, persistent, process, history
<1>4. UNCHANGED <<image, flags, index, keys, pc, upd, leave_dirty, unread, unnoted>>
  BY ZenonT(30) DEF DoFsync, vars, persistent, process, history
<1>5. Marked'
  BY <1>2, <1>4, ZenonT(30) DEF IInv, DiskOK, Marked, Good, GoodButFor
<1> QED BY <1>1, <1>2, <1>3, <1>5, ZenonT(30) DEF IInv

\* The loss of power.
LEMMA LosePowerKeeps == IInv /\ LosePower => IInv'
<1> SUFFICES ASSUME IInv, LosePower PROVE IInv' OBVIOUS
<1>1. /\ keys' \in [Chunk -> Value] /\ index' \subseteq Chunk
      /\ flags' \subseteq {"dirty", "damaged"}
  BY ZenonT(30) DEF IInv, DiskOK, LosePower
<1>2. TypeOK'
  <2>1. image' \in [Chunk -> Value \cup {Junk}] /\ faults' \in 0 .. MaxFault
    BY CacheAssumption DEF IInv, TypeOK, LosePower
  <2>2. /\ pc' = "off" /\ upd' = None /\ leave_dirty' = FALSE
        /\ wrote' = keys' /\ sent' = None /\ lapse' = FALSE
        /\ UNCHANGED <<made, mode, unread>>
    BY ZenonT(30) DEF LosePower
  <2> QED BY <1>1, <2>1, <2>2, ZenonT(30) DEF IInv, TypeOK
<1>3. /\ disk'.keys = {keys'} /\ disk'.index = {index'} /\ disk'.flags = {flags'}
      /\ unnoted' = (unnoted \/ flags' = {})
  BY ZenonT(30) DEF LosePower
<1>4. unnoted' \in BOOLEAN BY <1>3, ZenonT(30) DEF IInv, DiskOK
<1>5. DiskOK' BY <1>1, <1>3, <1>4, ZenonT(30) DEF DiskOK
<1>6. Created' /\ Kept' /\ UploadCurrent'
  BY ZenonT(30) DEF IInv, LosePower, Created, Kept, UploadCurrent
<1>7. Marked' BY <1>3, ZenonT(30) DEF LosePower, Marked
<1> QED BY <1>2, <1>5, <1>6, <1>7, ZenonT(30) DEF IInv

\* The inductive invariant of the local cache and its disk.
THEOREM Invariance == PowerSpec => []IInv
<1>1. IInv /\ [PowerNext]_<<vars, disk, unnoted>> => IInv'
  <2>1. ASSUME IInv, UNCHANGED <<vars, disk, unnoted>> PROVE IInv'
    <3>1. TypeOK' /\ Created' /\ Kept' /\ UploadCurrent'
      BY <2>1 DEF IInv, TypeOK, Created, Kept, UploadCurrent, vars, persistent, process, history
    <3>2. DiskOK' BY <2>1, ZenonT(30) DEF IInv, DiskOK, vars, persistent
    <3>3. Marked' BY <2>1, ZenonT(30) DEF IInv, Marked, Good, GoodButFor, vars, persistent, process, history
    <3> QED BY <3>1, <3>2, <3>3, ZenonT(30) DEF IInv
  <2> QED BY <2>1, CacheStepKeeps, DoFsyncKeeps, LosePowerKeeps, ZenonT(30) DEF PowerNext
<1> QED BY InitIInv, <1>1, PTL DEF PowerSpec

\* copy_for_upload() carries what the sessions committed, whatever crashes, failed
\* updates and losses of power came before.
THEOREM UploadIsCurrent == PowerSpec => []UploadCurrent
<1>1. IInv => UploadCurrent BY ZenonT(30) DEF IInv
<1> QED BY Invariance, <1>1, PTL

\* fuse_init(): a session's flag is on the disk before the session changes the
\* image.
THEOREM SessionIsMarked == PowerSpec => []SessionMarked
<1>1. IInv => SessionMarked BY ZenonT(30) DEF IInv, Marked, SessionMarked
<1> QED BY Invariance, <1>1, PTL

\* validate_cache(): a cache that is found with a flag loses it only if it is good.
THEOREM ValidationIsSound == PowerSpec => []ValidatedAfterLoss
<1>1. IInv => ValidatedAfterLoss
  BY ZenonT(30) DEF IInv, DiskOK, Marked, ValidatedAfterLoss, CleanIsGood
<1> QED BY Invariance, <1>1, PTL

\* cache_get(): a session on a cache not known to be damaged reads back what was
\* written, or what the keyring left of it.
THEOREM SessionsReadBack == PowerSpec => []ReadsBackAfterLoss
<1>1. IInv => ReadsBackAfterLoss
  <2> SUFFICES ASSUME IInv, ~unnoted, pc = "serve", "damaged" \notin flags, upd = None,
                      ~leave_dirty, ~lapse, unread = 0
               PROVE  Good /\ keys = wrote
    BY ZenonT(30) DEF ReadsBackAfterLoss, SessionReadsBack
  <2>1. GoodButFor(None) BY ZenonT(30) DEF IInv, Marked
  <2>2. Good BY <2>1, ZenonT(30) DEF GoodButFor, Good
  <2> QED BY <2>2, ZenonT(30) DEF IInv, Kept
<1> QED BY Invariance, <1>1, PTL

=============================================================================
