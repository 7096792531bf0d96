------------------------------- MODULE SqlTxn -------------------------------
(***************************************************************************)
(* Transactions through the SQLite wrapper, sqlite/wrapper.c, and the      *)
(* loops of its callers that start a transaction again when a database was *)
(* busy.  Each connection has several databases attached and runs a job, a *)
(* sequence of transactions.  A transaction may call another connection of *)
(* the same thread before it ends, as copy_for_upload(), hoard() and       *)
(* check_hoard_data() do for the chunks they find.                         *)
(*                                                                         *)
(* The pthread mutex of a connection is held from begin() to the end of    *)
(* the transaction, so a connection is one sequential actor.               *)
(***************************************************************************)
EXTENDS Naturals, Sequences

CONSTANTS
  Conn, Db, None,
  Attached,  \* Attached[c]: the database files of a connection, its own first
  Caller,    \* Caller[c]: the connection whose transactions call c, or None
  Job,       \* Job[c]: the transactions of c, [type, ops] each
  MaxTries   \* how often the busy handler waits (10 in the code)

\* What a transaction does: the locks that BEGIN takes, statements on database
\* files, statements on temporary tables only, and calls.
Op == [kind : {"reserve", "exclude", "read", "write"}, on : Db]
        \cup [kind : {"temp", "create"}, on : {None}]
        \cup [kind : {"call"}, on : Conn]
Txn == [type : {"deferred", "immediate", "vacuum"}, ops : Seq(Op)]

ASSUME TxnAssumption ==
  /\ None \notin Conn
  /\ Attached \in [Conn -> Seq(Db)] /\ \A c \in Conn : Len(Attached[c]) > 0
  /\ Caller \in [Conn -> Conn \cup {None}]
  /\ Job \in [Conn -> Seq(Txn)]
  /\ \A c \in Conn : Len(Job[c]) > 0
  /\ MaxTries \in Nat

-----------------------------------------------------------------------------
(* Jobs of Parcelkeeper *)

Read(d) == [kind |-> "read", on |-> d]
Write(d) == [kind |-> "write", on |-> d]
Call(c) == [kind |-> "call", on |-> c]

\* A statement on temporary tables, and one that creates or drops one.
Temp == [kind |-> "temp", on |-> None]
Create == [kind |-> "create", on |-> None]

\* hoard_sync_refs() on the connection of the keyring.
SyncRefs(keyring, hoard) ==
  <<[type |-> "immediate", ops |-> <<Read(keyring), Create, Write(hoard), Create>>]>>

Vacuum_Only(d) == <<[type |-> "vacuum", ops |-> << >>]>>

\* vacuum(): VACUUM, and a transaction that has the schemas read in again.
Vacuum(d) ==
  <<[type |-> "vacuum", ops |-> << >>], [type |-> "deferred", ops |-> <<Read(d)>>]>>

\* copy_for_upload(): a chunk is stored in the hoard cache, on its connection,
\* within the transaction that enumerates the modified chunks.
CopyForUpload(keyring, hoard, other) ==
  SyncRefs(keyring, hoard) \o Vacuum(keyring) \o
    <<[type |-> "deferred", ops |-> <<Read(keyring), Create, Call(other)>>]>>

\* hoard(): the missing chunks are listed in a temporary table, which later
\* transactions enumerate and drop.  They are fetched within the enumeration.
HoardParcel(keyring, hoard, other) ==
  <<[type |-> "deferred", ops |-> <<Create, Read(keyring), Read(hoard)>>],
    [type |-> "deferred", ops |-> <<Temp, Call(other)>>],
    [type |-> "deferred", ops |-> <<Create>>]>>

\* check_hoard() repairs the index and lists the chunks; check_hoard_data() reads
\* them, and has a damaged one invalidated within the enumeration.
CheckHoard(hoard, other) ==
  <<[type |-> "deferred", ops |-> <<Read(hoard), Write(hoard), Create>>],
    [type |-> "deferred", ops |-> <<Temp, Call(other), Create>>]>>

\* hoard_put_chunk(): looks the tag up, then allocates a slot.
PutChunk(hoard) == <<[type |-> "deferred", ops |-> <<Read(hoard), Write(hoard)>>]>>

\* hoard_invalidate_chunk(): makes sure that the row is the one that was read.
InvalidateChunk(hoard) ==
  <<[type |-> "deferred", ops |-> <<Read(hoard), Write(hoard)>>]>>

\* cache_get(), hoard_get_chunk() and need_fetch(), which only read.
GetChunk(d) == <<[type |-> "deferred", ops |-> <<Read(d)>>]>>

Databases(c) == {Attached[c][i] : i \in 1 .. Len(Attached[c])}

\* copy_for_upload(), hoard() and check_hoard_data() use a second connection
\* within a transaction, and that one has only the hoard cache's index attached.
ASSUME CallAssumption ==
  \A c \in Conn : Caller[c] # None =>
    \E keyring, hoard \in Db :
      /\ keyring # hoard
      /\ Databases(c) = {hoard}
      /\ \/ Job[Caller[c]] = CopyForUpload(keyring, hoard, c)
         \/ Job[Caller[c]] = HoardParcel(keyring, hoard, c)
         \/ Job[Caller[c]] = CheckHoard(hoard, c)

-----------------------------------------------------------------------------
VARIABLES
  lock,    \* lock[c][d]: SQLite's lock of a connection on a database file
  schema,  \* whether a connection has the schemas of its databases in memory
  txn, at, \* the transaction of the job and the operation of the transaction
  pc, tries

vars == <<lock, schema, txn, at, pc, tries>>

Level == {"none", "shared", "reserved", "pending", "exclusive"}
Released == [d \in Db |-> "none"]

Init ==
  /\ lock = [c \in Conn |-> Released]
  /\ schema = [c \in Conn |-> FALSE]
  /\ txn = [c \in Conn |-> 1]
  /\ at = [c \in Conn |-> 1]
  /\ pc = [c \in Conn |-> "idle"]
  /\ tries = [c \in Conn |-> 0]

-----------------------------------------------------------------------------
(* SQLite's file locks *)

OthersAt(c, d, levels) == \E o \in Conn \ {c} : lock[o][d] \in levels

MayShare(c, d) ==
  lock[c][d] # "none" \/ ~OthersAt(c, d, {"pending", "exclusive"})

MayReserve(c, d) ==
  /\ MayShare(c, d)
  /\ \/ lock[c][d] \in {"reserved", "pending", "exclusive"}
     \/ ~OthersAt(c, d, {"reserved", "pending", "exclusive"})

Raised(old, new) ==
  IF old = "none" \/ (old = "shared" /\ new = "reserved") THEN new ELSE old

-----------------------------------------------------------------------------
(* The operations of a transaction *)

Transaction(c) == Job[c][txn[c]]

OnAll(c, kind) ==
  [k \in 1 .. Len(Attached[c]) |-> [kind |-> kind, on |-> Attached[c][k]]]

\* BEGIN IMMEDIATE reserves every attached database.  VACUUM attaches one of its
\* own, for which it needs the schemas, and is BEGIN EXCLUSIVE after that.
Operations(c, i) ==
  CASE Job[c][i].type = "immediate" -> OnAll(c, "reserve") \o Job[c][i].ops
    [] Job[c][i].type = "vacuum" -> <<Temp>> \o OnAll(c, "exclude")
    [] OTHER -> Job[c][i].ops

\* Plan[c][i]: the operations of the i-th transaction of c.
Plan == [c \in Conn |-> [i \in 1 .. Len(Job[c]) |-> Operations(c, i)]]

Ops(c) == Plan[c][txn[c]]
Current(c) == Ops(c)[at[c]]
InStep(c, kinds) ==
  pc[c] = "step" /\ at[c] <= Len(Ops(c)) /\ Current(c).kind \in kinds
Calls(c, d) == InStep(c, {"call"}) /\ Current(c).on = d

\* begin(): takes the mutex of the connection.
Begin(c) ==
  /\ pc[c] = "idle"
  /\ Caller[c] # None => Calls(Caller[c], c)
  /\ pc' = [pc EXCEPT ![c] = "step"]
  /\ at' = [at EXCEPT ![c] = 1]
  /\ tries' = [tries EXCEPT ![c] = 0]
  /\ UNCHANGED <<lock, schema, txn>>

\* A statement is prepared.  BEGIN needs no schemas.
Statement == {"read", "write", "temp", "create"}
Loading(c) == InStep(c, Statement) /\ ~schema[c]
NextToLoad(c, d) ==
  \E i \in 1 .. Len(Attached[c]) :
    /\ d = Attached[c][i] /\ lock[c][d] = "none"
    /\ \A j \in 1 .. i - 1 : lock[c][Attached[c][j]] # "none"

\* The first statement of a connection without schemas reads those of all of its
\* databases, one after the other, and the transaction keeps the shared locks.
LoadSchema(c) ==
  /\ Loading(c)
  /\ \E d \in Databases(c) :
       /\ NextToLoad(c, d) /\ MayShare(c, d)
       /\ lock' = [lock EXCEPT ![c][d] = "shared"]
  /\ tries' = [tries EXCEPT ![c] = 0]
  /\ UNCHANGED <<schema, txn, at, pc>>

SchemasLoaded(c) ==
  /\ Loading(c)
  /\ \A d \in Databases(c) : lock[c][d] # "none"
  /\ schema' = [schema EXCEPT ![c] = TRUE]
  /\ UNCHANGED <<lock, txn, at, pc, tries>>

\* BEGIN IMMEDIATE goes on to the next database, with what is left of its tries.
GoesOn(c) ==
  /\ Current(c).kind = "reserve"
  /\ at[c] < Len(Ops(c)) /\ Ops(c)[at[c] + 1].kind = "reserve"

\* A statement gets the lock it needs.
Query(c) ==
  /\ InStep(c, Statement \cup {"reserve"}) /\ ~Loading(c)
  /\ LET d == Current(c).on
         level == IF Current(c).kind = "read" THEN "shared" ELSE "reserved"
     IN \/ Current(c).kind \in {"temp", "create"} /\ UNCHANGED lock
        \/ /\ Current(c).kind \in {"read", "write", "reserve"}
           /\ IF level = "shared" THEN MayShare(c, d) ELSE MayReserve(c, d)
           /\ lock' = [lock EXCEPT ![c][d] = Raised(@, level)]
  /\ at' = [at EXCEPT ![c] = @ + 1]
  /\ tries' = [tries EXCEPT ![c] = IF GoesOn(c) THEN @ ELSE 0]
  /\ UNCHANGED <<schema, txn, pc>>

\* BEGIN EXCLUSIVE reserves a database before it locks it.
Reserve(c) ==
  /\ InStep(c, {"exclude"})
  /\ LET d == Current(c).on
     IN /\ lock[c][d] \in {"none", "shared"} /\ MayReserve(c, d)
        /\ lock' = [lock EXCEPT ![c][d] = "reserved"]
  /\ UNCHANGED <<schema, txn, at, pc, tries>>

Blocked(c) ==
  LET kind == Current(c).kind
      d == Current(c).on
  IN IF Loading(c)
     THEN \E e \in Databases(c) : NextToLoad(c, e) /\ ~MayShare(c, e)
     ELSE \/ kind = "read" /\ ~MayShare(c, d)
          \/ kind \in {"write", "reserve"} /\ ~MayReserve(c, d)
          \/ /\ kind = "exclude" /\ lock[c][d] \in {"none", "shared"}
             /\ ~MayReserve(c, d)
          \/ kind = "exclude" /\ lock[c][d] = "pending" /\ OthersAt(c, d, {"shared"})

\* SQLite calls busy_handler() for a database on which the transaction has no
\* lock yet, and for the last step to the exclusive lock.
HandlerCalled(c) == ~Loading(c) => lock[c][Current(c).on] \in {"none", "pending"}

CanBlock == {"read", "write", "temp", "create", "reserve", "exclude"}

\* busy_handler() sleeps and has SQLite try again.
BusyWait(c) ==
  /\ InStep(c, CanBlock) /\ Blocked(c)
  /\ HandlerCalled(c) /\ tries[c] < MaxTries
  /\ tries' = [tries EXCEPT ![c] = @ + 1]
  /\ UNCHANGED <<lock, schema, txn, at, pc>>

\* VACUUM flushes the schemas of its connection in any case, and so does the
\* rollback of a transaction that has created or dropped a table.
Flushes(c) ==
  \/ Transaction(c).type = "vacuum"
  \/ \E k \in 1 .. at[c] - 1 : Ops(c)[k].kind = "create"

GivesUp_NoRollback(c) ==
  /\ InStep(c, CanBlock) /\ Blocked(c)
  /\ HandlerCalled(c) => tries[c] = MaxTries
  /\ tries' = [tries EXCEPT ![c] = 0]
  /\ UNCHANGED <<lock, schema, txn, at, pc>>

\* The statement returns SQLITE_BUSY.  The caller rolls the transaction back, gives
\* up the mutex, sleeps in query_backoff() and begins again; vacuum() repeats
\* VACUUM in the same way, and begin() simply repeats BEGIN IMMEDIATE.
GivesUp(c) ==
  /\ InStep(c, CanBlock) /\ Blocked(c)
  /\ HandlerCalled(c) => tries[c] = MaxTries
  /\ lock' = [lock EXCEPT ![c] = Released]
  /\ schema' = [schema EXCEPT ![c] = @ /\ ~Flushes(c)]
  /\ pc' = [pc EXCEPT ![c] = "idle"]
  /\ UNCHANGED <<txn, at, tries>>

-----------------------------------------------------------------------------
(* The exclusive lock and the end of a transaction *)

\* The files a transaction changes.
Written(c) == {d \in Db : \E k \in 1 .. Len(Ops(c)) : Ops(c)[k] = Write(d)}

\* COMMIT locks the files that were changed, BEGIN EXCLUSIVE one after the other.
Upgrades(c, d) ==
  /\ pc[c] = "step" /\ lock[c][d] \in {"reserved", "pending"}
  /\ \/ at[c] > Len(Ops(c)) /\ d \in Written(c)
     \/ InStep(c, {"exclude"}) /\ Current(c).on = d

\* While there are readers the lock stays pending, so that no new reader begins.
\* COMMIT returns SQLITE_BUSY again and again then, and commit() repeats it.
ToPending(c) ==
  /\ \E d \in Db :
       /\ Upgrades(c, d) /\ lock[c][d] = "reserved"
       /\ OthersAt(c, d, {"shared"})
       /\ lock' = [lock EXCEPT ![c][d] = "pending"]
  /\ UNCHANGED <<schema, txn, at, pc, tries>>

ToExclusive(c) ==
  /\ \E d \in Db :
       /\ Upgrades(c, d)
       /\ ~OthersAt(c, d, {"shared"})
       /\ lock' = [lock EXCEPT ![c][d] = "exclusive"]
  /\ at' = IF InStep(c, {"exclude"}) THEN [at EXCEPT ![c] = @ + 1] ELSE at
  /\ UNCHANGED <<schema, txn, pc, tries>>

\* A transaction may end once everything it changed is locked.  A connection that
\* was called returns to its caller after the last one.
EndTransaction(c) ==
  /\ pc[c] = "step" /\ at[c] > Len(Ops(c))
  /\ \A d \in Written(c) : lock[c][d] = "exclusive"
  /\ lock' = [lock EXCEPT ![c] = Released]
  /\ schema' = [schema EXCEPT ![c] = @ /\ Transaction(c).type # "vacuum"]
  /\ LET last == txn[c] = Len(Job[c])
     IN /\ txn' = [txn EXCEPT ![c] = IF last THEN 1 ELSE @ + 1]
        /\ pc' = [pc EXCEPT
                    ![c] = IF last /\ Caller[c] = None THEN "done" ELSE "idle"]
        /\ at' = IF last /\ Caller[c] # None
                 THEN [at EXCEPT ![Caller[c]] = @ + 1]
                 ELSE at
  /\ UNCHANGED tries

Step(c) ==
  \/ Begin(c) \/ LoadSchema(c) \/ SchemasLoaded(c) \/ Query(c) \/ Reserve(c)
  \/ BusyWait(c) \/ GivesUp(c) \/ ToPending(c) \/ ToExclusive(c) \/ EndTransaction(c)

AllDone == \A c \in Conn : Caller[c] = None => pc[c] = "done"

Next == (\E c \in Conn : Step(c)) \/ (AllDone /\ UNCHANGED vars)

Spec == Init /\ [][Next]_vars

\* Every connection belongs to a thread that goes on running.  VACUUM and a
\* transaction that reads before it writes can give way to each other again and
\* again, but both sleep for a random time before they retry, so that a write
\* does not meet another lock every time.
Writes(c) == Query(c) /\ Current(c).kind = "write"

FairSpec ==
  Spec /\ \A c \in Conn : WF_vars(Step(c)) /\ SF_vars(Writes(c))

-----------------------------------------------------------------------------
(* Properties *)

TypeOK ==
  /\ lock \in [Conn -> [Db -> Level]]
  /\ schema \in [Conn -> BOOLEAN]
  /\ txn \in [Conn -> Nat] /\ at \in [Conn -> Nat \ {0}]
  /\ \A c \in Conn : txn[c] \in 1 .. Len(Job[c])
  /\ pc \in [Conn -> {"idle", "step", "done"}]
  /\ tries \in [Conn -> 0 .. MaxTries]

\* vacuum(): "otherwise, the next transaction on the connection would
\* unexpectedly take a lock on all attached databases".  A transaction that
\* calls another connection of its thread holds no lock on a database that one
\* may want to write, or the thread would wait for itself.
CallerOutOfTheWay ==
  \A c \in Conn : Caller[c] # None /\ pc[c] = "step" =>
    \A d \in Databases(c) : lock[Caller[c]][d] = "none"

\* Every transaction ends: whatever the other connections hold, the loops of
\* begin(), commit() and the callers come to an end once each has had its turn.
JobsEnd == <>AllDone
=============================================================================
