------------------------------ MODULE IoCursor ------------------------------
(***************************************************************************)
(* How image_read() and image_write() (parcelkeeper/fuse_image.c) cut a    *)
(* request into pieces of chunks: io_start() and io_chunk().  The fields   *)
(* of struct io_cursor are unsigned and wrap at 2^Width; start (off_t) and *)
(* count (size_t) are wide enough for every value used here.               *)
(***************************************************************************)
EXTENDS Naturals

CONSTANTS
  Width,              \* bits of an unsigned
  chunksize, parcel_chunks,  \* parcel->chunksize and parcel->chunks
  MaxStart, MaxCount  \* bounds on the requests

ASSUME CursorAssumption ==
  /\ Width \in Nat \ {0} /\ MaxStart \in Nat /\ MaxCount \in Nat
  /\ chunksize \in 1 .. 2 ^ Width - 1
  /\ parcel_chunks \in 0 .. 2 ^ Width - 1

Unsigned(n) == n % 2 ^ Width

Smaller(m, n) == IF m <= n THEN m ELSE n

\* io_start(): the fields of the cursor, and what io_chunk() returned.
IoStart ==
  [chunk |-> 0, offset |-> 0, length |-> 0, buf_offset |-> 0, eof |-> FALSE, more |-> TRUE]

ChunkAt(pos) == Unsigned(pos \div chunksize)

\* The product of two unsigned numbers wraps, and so does the assignment.
OffsetAt(pos) == Unsigned(pos + 2 ^ Width - Unsigned(ChunkAt(pos) * chunksize))

PastDisk(pos) == ChunkAt(pos) >= parcel_chunks

\* io_chunk(): the cursor on the next piece of the request, if there is one.
IoChunk(start, count, cur) ==
  LET done == Unsigned(cur.buf_offset + cur.length)
      pos  == start + done
      next == [cur EXCEPT !.buf_offset = done, !.chunk = ChunkAt(pos)]
  IN  IF done >= count THEN [cur EXCEPT !.buf_offset = done, !.more = FALSE]
      ELSE IF PastDisk(pos) THEN [next EXCEPT !.eof = TRUE, !.more = FALSE]
      ELSE [next EXCEPT
              !.offset = OffsetAt(pos),
              !.length = Smaller(Unsigned(chunksize + 2 ^ Width - OffsetAt(pos)),
                                 count - done)]

\* The cursors that the loop of image_read() or image_write() sees: the one after
\* n calls of io_chunk(), as long as these return TRUE.
Cursors(start, count) ==
  LET cursor[n \in 0 .. MaxCount + 1] ==
        IF n = 0 THEN IoStart
        ELSE LET cur == cursor[n - 1]
             IN  IF cur.more THEN IoChunk(start, count, cur) ELSE cur
  IN  [n \in 0 .. MaxCount + 1 |-> cursor[n]]

-----------------------------------------------------------------------------
(* What the cutting has to do, which TLC evaluates for all requests in the *)
(* bounds.                                                                 *)

ImageSize == parcel_chunks * chunksize

\* The pieces are where the request says, in spite of the wrapped product, follow
\* each other without a gap, and none leaves its chunk or the request.  The last
\* cursor has passed all bytes of the request that are on the disk, and knows if
\* there were others.
CutRight(start, count) ==
  LET cursors == Cursors(start, count)
      last    == cursors[MaxCount + 1]
  IN  /\ \A n \in 1 .. MaxCount :
           LET cur == cursors[n]
           IN  cur.more =>
                 /\ cur.chunk < parcel_chunks
                 /\ cur.chunk * chunksize + cur.offset = start + cur.buf_offset
                 /\ cur.length > 0 /\ cur.offset + cur.length <= chunksize
                 /\ cur.buf_offset + cur.length = cursors[n + 1].buf_offset
      /\ ~last.more
      /\ last.buf_offset =
           IF start >= ImageSize THEN 0 ELSE Smaller(count, ImageSize - start)
      /\ last.eof = (count > last.buf_offset)

\* io_start() and io_chunk() cut no request wrong: image_read() and image_write()
\* copy each byte of it that is on the disk to or from its own place, and stop.
\* (The chunk number of start + count has to fit an unsigned: io_chunk() truncates
\* it before it looks for the end of the disk.)
ASSUME RequestsCutRight ==
  \A start \in 0 .. MaxStart, count \in 0 .. MaxCount : CutRight(start, count)
=============================================================================
