---------------------------- MODULE SqlTxnProofs ----------------------------
(***************************************************************************)
(* A transaction that calls another connection of its thread is out of     *)
(* that one's way, for every set of connections whose callers run          *)
(* copy_for_upload(), hoard() or check_hoard(), and whatever the other     *)
(* jobs are.                                                               *)
(***************************************************************************)
EXTENDS SqlTxn, SequenceTheorems, TLAPS

\* A step that names no prover is one for the SMT solver.
USE SMTT(30)

\* Transaction i of c runs a statement and leaves the schemas in memory.
Loads(c, i) ==
  /\ Job[c][i].type # "vacuum"
  /\ \E k \in 1 .. Len(Operations(c, i)) : Operations(c, i)[k].kind \in Statement

\* Transaction i of c cannot be rolled back in a way that flushes the schemas: it
\* is no VACUUM, and waits for no file after it has created or dropped a table.
Keeps(c, i) ==
  /\ Job[c][i].type # "vacuum"
  /\ \A k, l \in 1 .. Len(Operations(c, i)) :
       k < l /\ Operations(c, i)[k].kind = "create"
         => Operations(c, i)[l].kind \in {"temp", "create", "call"}

\* Transaction i of c locks d itself.
Touches(c, i, d) ==
  \E k \in 1 .. Len(Operations(c, i)) :
    /\ Operations(c, i)[k].kind \in {"read", "write", "reserve", "exclude"}
    /\ Operations(c, i)[k].on = d

\* A transaction follows one that loads the schemas, and keeps them.
Prepared(c) == txn[c] > 1 /\ Loads(c, txn[c] - 1) /\ Keeps(c, txn[c])

\* A called connection works while its caller waits for it.
Nested ==
  \A c \in Conn : Caller[c] # None /\ pc[c] = "step" => Calls(Caller[c], c)

\* Once a transaction has run a statement its connection has the schemas ...
SchemaLoaded ==
  \A c \in Conn : pc[c] = "step" =>
    \A k \in 1 .. Len(Ops(c)) : k < at[c] /\ Ops(c)[k].kind \in Statement => schema[c]

\* ... and a prepared transaction finds them, however often it is repeated.
SchemaKept == \A c \in Conn : Prepared(c) => schema[c]

\* So it locks the databases that it queries and no other.
OwnLocksOnly ==
  \A c \in Conn : Prepared(c) =>
    \A d \in Db : lock[c][d] # "none" => Touches(c, txn[c], d)

IInv == TypeOK /\ Nested /\ SchemaLoaded /\ SchemaKept /\ OwnLocksOnly

-----------------------------------------------------------------------------
(* What a transaction consists of *)

\* The operations of a transaction are locks, statements and calls.
LEMMA OperationsAreOps ==
  ASSUME NEW c \in Conn, NEW i \in 1 .. Len(Job[c])
  PROVE  Operations(c, i) \in Seq(Op)
<1>1. /\ Job[c] \in Seq(Txn)
      /\ Attached[c] \in Seq(Db) /\ Len(Attached[c]) > 0
  BY TxnAssumption
<1>2. Job[c][i].ops \in Seq(Op)
  <2>1. Job[c][i] \in Txn
    BY <1>1
  <2> QED
    BY <2>1 DEF Txn
<1>3. ASSUME NEW kind \in {"reserve", "exclude"} PROVE OnAll(c, kind) \in Seq(Op)
  <2>1. \A d \in Db : [kind |-> kind, on |-> d] \in Op
    BY DEF Op
  <2> QED
    BY <1>1, <2>1 DEF OnAll
<1>4. <<Temp>> \in Seq(Op)
  BY DEF Temp, Op
<1>5. CASE Job[c][i].type = "immediate"
  BY <1>2, <1>3, <1>5 DEF Operations
<1>6. CASE Job[c][i].type = "vacuum"
  BY <1>3, <1>4, <1>6 DEF Operations
<1>7. CASE Job[c][i].type \notin {"immediate", "vacuum"}
  BY <1>2, <1>7 DEF Operations
<1> QED
  BY <1>5, <1>6, <1>7

\* The plan of a job has the operations of its transactions.
LEMMA PlanHasOps ==
  ASSUME NEW c \in Conn, NEW i \in 1 .. Len(Job[c])
  PROVE  Plan[c][i] = Operations(c, i) /\ Plan[c][i] \in Seq(Op)
BY OperationsAreOps, ZenonT(30) DEF Plan

\* So a transaction in progress does what Operations says of it.
LEMMA OpsOfPlan ==
  ASSUME TypeOK, NEW c \in Conn
  PROVE  Ops(c) = Operations(c, txn[c]) /\ Ops(c) \in Seq(Op)
BY PlanHasOps, ZenonT(30) DEF Ops, TypeOK

\* Types of the initial state; no transaction has begun.
LEMMA InitIInv == Init => IInv
<1> SUFFICES ASSUME Init PROVE IInv
  OBVIOUS
<1>1. TypeOK
  <2>1. Released \in [Db -> Level]
    BY DEF Released, Level
  <2>2. ASSUME NEW c \in Conn PROVE 1 \in 1 .. Len(Job[c])
    <3>1. Job[c] \in Seq(Txn) /\ Len(Job[c]) > 0
      BY TxnAssumption
    <3> QED
      BY <3>1
  <2> QED
    BY <2>1, <2>2, TxnAssumption DEF Init, TypeOK
<1>2. \A c \in Conn : pc[c] # "step" /\ txn[c] = 1
  BY ZenonT(30) DEF Init
<1> QED
  BY <1>1, <1>2 DEF IInv, Nested, SchemaLoaded, SchemaKept, OwnLocksOnly, Prepared

-----------------------------------------------------------------------------
(* Steps *)

\* A lock that changes is a lock.
LEMMA LockTyped ==
  ASSUME TypeOK, NEW c \in Conn, NEW d, NEW level \in Level,
         lock' = [lock EXCEPT ![c][d] = level]
  PROVE  lock' \in [Conn -> [Db -> Level]]
BY ZenonT(30) DEF TypeOK

\* Every step keeps the types; a job goes from each transaction to the next
\* one or back to the first.
LEMMA TypeOKStep ==
  ASSUME TypeOK, NEW c \in Conn, Step(c)
  PROVE  TypeOK'
<1>0. Released \in [Db -> Level]
  BY DEF Released, Level
<1>Levels. /\ "shared" \in Level /\ "reserved" \in Level
           /\ "pending" \in Level /\ "exclusive" \in Level
  BY DEF Level
<1>1. CASE Begin(c)
  BY <1>1, TxnAssumption DEF TypeOK, Begin
<1>2. CASE LoadSchema(c)
  <2>1. \E d : lock' = [lock EXCEPT ![c][d] = "shared"]
    BY <1>2, ZenonT(30) DEF LoadSchema
  <2>2. lock' \in [Conn -> [Db -> Level]]
    BY <1>Levels, <2>1, LockTyped, ZenonT(30)
  <2> QED
    BY <1>2, <2>2, TxnAssumption DEF TypeOK, LoadSchema
<1>3. CASE SchemasLoaded(c)
  BY <1>3 DEF TypeOK, SchemasLoaded
<1>4. CASE Query(c)
  <2>1. \/ lock' = lock
        \/ \E d : \E level \in {"shared", "reserved"} :
             lock' = [lock EXCEPT ![c][d] = Raised(@, level)]
    BY <1>4 DEF Query
  <2>2. lock' \in [Conn -> [Db -> Level]]
    <3>1. CASE lock' = lock
      BY <3>1 DEF TypeOK
    <3>2. ASSUME NEW d, NEW level \in {"shared", "reserved"},
                 lock' = [lock EXCEPT ![c][d] = Raised(@, level)]
          PROVE  lock' \in [Conn -> [Db -> Level]]
      <4>1. level \in Level
        BY DEF Level
      <4> QED
        BY <3>2, <4>1, ZenonT(30) DEF TypeOK, Raised
    <3> QED
      BY <2>1, <3>1, <3>2
  <2>3. at' \in [Conn -> Nat \ {0}] /\ tries' \in [Conn -> 0 .. MaxTries]
    BY <1>4, TxnAssumption DEF TypeOK, Query
  <2> QED
    BY <1>4, <2>2, <2>3 DEF TypeOK, Query
<1>5. CASE Reserve(c)
  <2>1. lock' = [lock EXCEPT ![c][Current(c).on] = "reserved"]
    BY <1>5 DEF Reserve
  <2>2. lock' \in [Conn -> [Db -> Level]]
    BY <1>Levels, <2>1, LockTyped, ZenonT(30)
  <2> QED
    BY <1>5, <2>2 DEF TypeOK, Reserve
<1>6. CASE BusyWait(c)
  BY <1>6, TxnAssumption DEF TypeOK, BusyWait
<1>7. CASE GivesUp(c)
  BY <1>7, <1>0 DEF TypeOK, GivesUp
<1>8. CASE ToPending(c)
  <2>1. \E d : lock' = [lock EXCEPT ![c][d] = "pending"]
    BY <1>8, ZenonT(30) DEF ToPending
  <2>2. lock' \in [Conn -> [Db -> Level]]
    BY <1>Levels, <2>1, LockTyped, ZenonT(30)
  <2> QED
    BY <1>8, <2>2 DEF TypeOK, ToPending
<1>9. CASE ToExclusive(c)
  <2>1. \E d : lock' = [lock EXCEPT ![c][d] = "exclusive"]
    BY <1>9, ZenonT(30) DEF ToExclusive
  <2>2. lock' \in [Conn -> [Db -> Level]]
    BY <1>Levels, <2>1, LockTyped, ZenonT(30)
  <2>3. at' \in [Conn -> Nat \ {0}]
    BY <1>9 DEF TypeOK, ToExclusive
  <2> QED
    BY <1>9, <2>2, <2>3 DEF TypeOK, ToExclusive
<1>10. CASE EndTransaction(c)
  <2> DEFINE last == txn[c] = Len(Job[c])
  <2>1. /\ lock' \in [Conn -> [Db -> Level]]
        /\ schema' \in [Conn -> BOOLEAN]
        /\ pc' \in [Conn -> {"idle", "step", "done"}]
        /\ tries' \in [Conn -> 0 .. MaxTries]
    BY <1>10, <1>0 DEF TypeOK, EndTransaction
  <2>2. at' \in [Conn -> Nat \ {0}]
    <3>1. at' = at \/ at' = [at EXCEPT ![Caller[c]] = @ + 1]
      BY <1>10 DEF EndTransaction
    <3>2. at \in [Conn -> Nat \ {0}]
      BY DEF TypeOK
    <3> QED
      BY <3>1, <3>2
  <2>3. txn' = [txn EXCEPT ![c] = IF last THEN 1 ELSE @ + 1]
    BY <1>10 DEF EndTransaction
  <2>4. ASSUME NEW o \in Conn PROVE Len(Job[o]) \in Nat /\ Len(Job[o]) > 0
    <3>1. Job[o] \in Seq(Txn) /\ Len(Job[o]) > 0
      BY TxnAssumption
    <3> QED
      BY <3>1
  <2>5. txn' \in [Conn -> Nat] /\ \A o \in Conn : txn'[o] \in 1 .. Len(Job[o])
    BY <2>3, <2>4 DEF TypeOK
  <2> QED
    BY <2>1, <2>2, <2>5 DEF TypeOK
<1> QED
  BY <1>1, <1>2, <1>3, <1>4, <1>5, <1>6, <1>7, <1>8, <1>9, <1>10 DEF Step

\* A step of one connection leaves the others alone, but for the end of a job
\* on a called connection, which returns to its caller.
LEMMA Others ==
  ASSUME TypeOK, Nested, NEW c \in Conn, Step(c), NEW o \in Conn, o # c
  PROVE  /\ lock'[o] = lock[o] /\ schema'[o] = schema[o]
         /\ txn'[o] = txn[o] /\ pc'[o] = pc[o]
         /\ \/ at'[o] = at[o]
            \/ o = Caller[c] /\ Calls(o, c) /\ at'[o] = at[o] + 1
<1>1. CASE EndTransaction(c)
  <2>1. /\ lock'[o] = lock[o] /\ schema'[o] = schema[o]
        /\ txn'[o] = txn[o] /\ pc'[o] = pc[o]
    BY <1>1 DEF TypeOK, EndTransaction
  <2>2. \/ at'[o] = at[o]
        \/ Caller[c] # None /\ o = Caller[c] /\ at'[o] = at[o] + 1
    BY <1>1 DEF TypeOK, EndTransaction
  <2>3. pc[c] = "step"
    BY <1>1 DEF EndTransaction
  <2> QED
    BY <2>1, <2>2, <2>3 DEF Nested
<1>2. CASE Begin(c) \/ SchemasLoaded(c) \/ BusyWait(c) \/ GivesUp(c)
  BY <1>2 DEF TypeOK, Begin, SchemasLoaded, BusyWait, GivesUp
<1>3. CASE LoadSchema(c) \/ Query(c) \/ Reserve(c)
  BY <1>3 DEF TypeOK, LoadSchema, Query, Reserve
<1>4. CASE ToPending(c) \/ ToExclusive(c)
  BY <1>4 DEF TypeOK, ToPending, ToExclusive
<1> QED
  BY <1>1, <1>2, <1>3, <1>4 DEF Step

\* A connection takes no step while it waits for one that it called.
LEMMA CallerWaits ==
  ASSUME TypeOK, NEW c \in Conn, Step(c), NEW x \in Conn
  PROVE  ~Calls(c, x)
<1>1. CASE Begin(c)
  BY <1>1 DEF Begin, Calls, InStep
<1>2. CASE InStep(c, CanBlock)
  BY <1>2 DEF Calls, InStep, CanBlock
<1>3. CASE at[c] > Len(Ops(c))
  <2>1. Ops(c) \in Seq(Op)
    BY OpsOfPlan
  <2> QED
    BY <1>3, <2>1 DEF Calls, InStep, TypeOK
<1>4. CASE InStep(c, Statement \cup {"reserve"}) \/ InStep(c, Statement) \/ InStep(c, {"exclude"})
  BY <1>4 DEF Calls, InStep, Statement
<1> QED
  BY <1>1, <1>2, <1>3, <1>4
     DEF Step, LoadSchema, SchemasLoaded, Loading, Query, Reserve, BusyWait, GivesUp, ToPending,
         ToExclusive, Upgrades, EndTransaction

\* A connection that takes a step other than begin() is in a transaction.
LEMMA BegunBefore ==
  ASSUME NEW c, Step(c), ~Begin(c)
  PROVE  pc[c] = "step"
<1>1. CASE LoadSchema(c) \/ SchemasLoaded(c)
  BY <1>1 DEF LoadSchema, SchemasLoaded, Loading, InStep
<1>2. CASE Query(c) \/ Reserve(c)
  BY <1>2 DEF Query, Reserve, InStep
<1>3. CASE BusyWait(c) \/ GivesUp(c)
  BY <1>3 DEF BusyWait, GivesUp, InStep
<1>4. CASE ToPending(c) \/ ToExclusive(c)
  BY <1>4 DEF ToPending, ToExclusive, Upgrades
<1>5. CASE EndTransaction(c)
  BY <1>5 DEF EndTransaction
<1> QED
  BY <1>1, <1>2, <1>3, <1>4, <1>5 DEF Step

\* A connection that was called works only until it returns.
LEMMA NestedStep ==
  ASSUME TypeOK, Nested, NEW c \in Conn, Step(c)
  PROVE  Nested'
<1> SUFFICES ASSUME NEW x \in Conn, Caller[x] # None, pc'[x] = "step"
             PROVE  Calls(Caller[x], x)'
  BY DEF Nested
<1> DEFINE b == Caller[x]
<1>0. b \in Conn
  BY TxnAssumption
<1> HIDE DEF b
<1>1. Calls(b, x)
  <2>1. CASE x = c
    <3>1. CASE Begin(c)
      BY <2>1, <3>1 DEF Begin, b
    <3>2. CASE ~Begin(c)
      <4>1. pc[c] = "step"
        BY <3>2, BegunBefore
      <4> QED
        BY <2>1, <4>1 DEF Nested, b
    <3> QED
      BY <3>1, <3>2
  <2>2. CASE x # c
    BY <2>2, Others DEF Nested, b
  <2> QED
    BY <2>1, <2>2
<1>2. b # c
  BY <1>1, CallerWaits
<1>3. txn'[b] = txn[b] /\ pc'[b] = pc[b]
  BY <1>0, <1>2, Others
<1>4. at'[b] = at[b]
  <2>1. CASE x = c
    <3>1. ~EndTransaction(c)
      BY <2>1 DEF EndTransaction, TypeOK
    <3>2. \/ at' = at
          \/ at' = [at EXCEPT ![c] = 1]
          \/ at' = [at EXCEPT ![c] = @ + 1]
      BY <3>1 DEF Step, Begin, LoadSchema, SchemasLoaded, Query, Reserve, BusyWait, GivesUp,
                  ToPending, ToExclusive
    <3> QED
      BY <1>0, <1>2, <3>2 DEF TypeOK
  <2>2. CASE x # c
    <3>1. ~Calls(b, c)
      BY <2>2, <1>1 DEF Calls
    <3> QED
      BY <3>1, <1>0, <1>2, Others
  <2> QED
    BY <2>1, <2>2
<1>5. Calls(b, x)'
  BY <1>1, <1>3, <1>4 DEF Calls, InStep, Current, Ops
<1> QED
  BY <1>5 DEF b

\* The first statement of a transaction loads the schemas if they are not there.
LEMMA SchemaLoadedStep ==
  ASSUME TypeOK, TypeOK', Nested, SchemaLoaded, NEW c \in Conn, Step(c)
  PROVE  SchemaLoaded'
<1> SUFFICES ASSUME NEW x \in Conn, pc'[x] = "step",
                    NEW k \in 1 .. Len(Ops(x)'), k < at'[x], Ops(x)'[k].kind \in Statement
             PROVE  schema'[x]
  BY DEF SchemaLoaded
<1>0. Ops(x) \in Seq(Op) /\ Ops(x)' \in Seq(Op)
  BY PlanHasOps, ZenonT(30) DEF Ops, TypeOK
<1>1. CASE x # c
  <2>1. /\ schema'[x] = schema[x] /\ txn'[x] = txn[x] /\ pc'[x] = pc[x]
        /\ at'[x] = at[x] \/ (Calls(x, c) /\ at'[x] = at[x] + 1)
    BY <1>1, Others
  <2>2. Ops(x)' = Ops(x)
    BY <2>1 DEF Ops
  <2>3. k < at[x]
    <3>1. CASE at'[x] = at[x]
      BY <3>1
    <3>2. CASE Calls(x, c) /\ at'[x] = at[x] + 1
      <4>1. k # at[x]
        BY <2>2, <3>2 DEF Calls, InStep, Current, Statement
      <4> QED
        BY <4>1, <3>2, <1>0 DEF TypeOK
    <3> QED
      BY <2>1, <3>1, <3>2
  <2> QED
    BY <2>1, <2>2, <2>3 DEF SchemaLoaded
<1>2. CASE x = c
  <2>1. CASE Begin(c)
    <3>1. at'[c] = 1
      BY <2>1 DEF Begin, TypeOK
    <3> QED
      BY <1>0, <1>2, <3>1
  <2>2. CASE SchemasLoaded(c)
    BY <1>2, <2>2 DEF SchemasLoaded, TypeOK
  <2>3. CASE Query(c)
    <3>1. CASE Current(c).kind \in Statement
      BY <1>2, <2>3, <3>1 DEF Query, Loading, InStep
    <3>2. CASE Current(c).kind \notin Statement
      <4>1. Ops(c)' = Ops(c) /\ schema' = schema /\ pc' = pc /\ at'[c] = at[c] + 1
        BY <2>3 DEF Query, Ops, TypeOK
      <4>2. k < at[c]
        BY <1>0, <1>2, <3>2, <4>1 DEF Current, TypeOK
      <4> QED
        BY <1>2, <4>1, <4>2 DEF SchemaLoaded
    <3> QED
      BY <3>1, <3>2
  <2>4. CASE LoadSchema(c) \/ Reserve(c) \/ BusyWait(c) \/ ToPending(c)
    <3>1. Ops(c)' = Ops(c) /\ schema' = schema /\ pc' = pc /\ at' = at
      BY <2>4 DEF LoadSchema, Reserve, BusyWait, ToPending, Ops
    <3> QED
      BY <1>2, <3>1 DEF SchemaLoaded
  <2>5. CASE ToExclusive(c)
    <3>1. /\ Ops(c)' = Ops(c) /\ schema' = schema /\ pc' = pc
          /\ at'[c] = at[c] \/ (InStep(c, {"exclude"}) /\ at'[c] = at[c] + 1)
      BY <2>5 DEF ToExclusive, Ops, TypeOK
    <3>2. k < at[c]
      BY <1>0, <1>2, <3>1 DEF Current, InStep, Statement, TypeOK
    <3> QED
      BY <1>2, <3>1, <3>2 DEF SchemaLoaded
  <2>6. CASE GivesUp(c) \/ EndTransaction(c)
    BY <1>2, <2>6 DEF GivesUp, EndTransaction, TypeOK
  <2> QED
    BY <2>1, <2>2, <2>3, <2>4, <2>5, <2>6 DEF Step
<1> QED
  BY <1>1, <1>2

\* VACUUM and rollbacks flush schemas, but a prepared transaction is none and has
\* none that does.
LEMMA SchemaKeptStep ==
  ASSUME TypeOK, Nested, SchemaLoaded, SchemaKept, NEW c \in Conn, Step(c)
  PROVE  SchemaKept'
<1> SUFFICES ASSUME NEW x \in Conn, txn'[x] > 1, Loads(x, txn'[x] - 1), Keeps(x, txn'[x])
             PROVE  schema'[x]
  BY DEF SchemaKept, Prepared
<1>0. Ops(c) = Operations(c, txn[c]) /\ Ops(c) \in Seq(Op)
  BY OpsOfPlan
<1>1. CASE x # c
  <2>1. schema'[x] = schema[x] /\ txn'[x] = txn[x]
    BY <1>1, Others, ZenonT(30)
  <2> QED
    BY <2>1 DEF SchemaKept, Prepared
<1>2. CASE x = c /\ EndTransaction(c)
  <2>1. txn'[c] = txn[c] + 1
    BY <1>2 DEF EndTransaction, TypeOK
  <2>2. Loads(c, txn[c])
    BY <1>2, <2>1 DEF TypeOK
  <2>3. schema[c]
    <3>1. PICK k \in 1 .. Len(Ops(c)) : Ops(c)[k].kind \in Statement
      BY <1>0, <2>2 DEF Loads
    <3>2. pc[c] = "step" /\ k < at[c]
      BY <1>0, <1>2 DEF EndTransaction, TypeOK
    <3> QED
      BY <3>1, <3>2 DEF SchemaLoaded
  <2> QED
    BY <1>2, <2>2, <2>3 DEF EndTransaction, Transaction, Loads, TypeOK
<1>3. CASE x = c /\ GivesUp(c)
  <2>1. txn' = txn /\ Prepared(c) /\ schema[c]
    BY <1>3 DEF GivesUp, SchemaKept, Prepared
  <2>2. ~Flushes(c)
    <3>1. Transaction(c).type # "vacuum"
      BY <2>1 DEF Prepared, Keeps, Transaction
    <3>2. ASSUME NEW k \in 1 .. at[c] - 1, Ops(c)[k].kind = "create" PROVE FALSE
      <4>1. /\ at[c] \in 1 .. Len(Ops(c)) /\ k \in 1 .. Len(Ops(c)) /\ k < at[c]
            /\ Current(c).kind \in CanBlock /\ Blocked(c)
        BY <1>0, <1>3 DEF GivesUp, InStep, TypeOK
      <4>2. Current(c).kind \in {"temp", "create", "call"}
        BY <1>0, <2>1, <3>2, <4>1 DEF Prepared, Keeps, Current
      <4>3. Current(c).kind \in {"read", "write", "reserve", "exclude"}
        BY <2>1, <4>1 DEF Blocked, Loading
      <4> QED
        BY <4>2, <4>3
    <3> QED
      BY <3>1, <3>2 DEF Flushes
  <2> QED
    BY <1>3, <2>1, <2>2 DEF GivesUp, TypeOK
<1>4. CASE x = c /\ ~EndTransaction(c) /\ ~GivesUp(c)
  <2>1. txn' = txn /\ (schema[c] => schema'[c])
    BY <1>4 DEF Step, Begin, LoadSchema, SchemasLoaded, Query, Reserve, BusyWait, ToPending,
                ToExclusive, TypeOK
  <2> QED
    BY <1>4, <2>1 DEF SchemaKept, Prepared
<1> QED
  BY <1>1, <1>2, <1>3, <1>4

\* With the schemas in memory a transaction locks what it queries, and every
\* transaction begins without locks.
LEMMA OwnLocksOnlyStep ==
  ASSUME TypeOK, Nested, SchemaKept, OwnLocksOnly, NEW c \in Conn, Step(c)
  PROVE  OwnLocksOnly'
<1> SUFFICES ASSUME NEW x \in Conn, txn'[x] > 1, Loads(x, txn'[x] - 1), Keeps(x, txn'[x]),
                    NEW d \in Db, lock'[x][d] # "none"
             PROVE  Touches(x, txn'[x], d)
  BY DEF OwnLocksOnly, Prepared
<1>1. CASE x # c
  <2>1. lock'[x] = lock[x] /\ txn'[x] = txn[x]
    BY <1>1, Others, ZenonT(30)
  <2> QED
    BY <2>1 DEF OwnLocksOnly, Prepared
<1>2. CASE x = c
  <2>1. CASE Begin(c) \/ SchemasLoaded(c) \/ BusyWait(c)
    BY <1>2, <2>1 DEF Begin, SchemasLoaded, BusyWait, OwnLocksOnly, Prepared
  <2>2. CASE LoadSchema(c)
    BY <1>2, <2>2 DEF LoadSchema, Loading, SchemaKept, Prepared
  <2>3. CASE Query(c) \/ Reserve(c)
    <3>1. txn' = txn
      BY <2>3 DEF Query, Reserve
    <3>2. CASE lock[c][d] # "none"
      BY <1>2, <3>1, <3>2 DEF OwnLocksOnly, Prepared
    <3>3. CASE lock[c][d] = "none"
      <4>1. /\ d = Current(c).on /\ at[c] <= Len(Ops(c))
            /\ Current(c).kind \in {"read", "write", "reserve", "exclude"}
        BY <1>2, <2>3, <3>3 DEF Query, Reserve, InStep, TypeOK
      <4>2. Ops(c) = Operations(c, txn[c]) /\ Ops(c) \in Seq(Op)
        BY OpsOfPlan
      <4> QED
        BY <1>2, <3>1, <4>1, <4>2 DEF Current, Touches, TypeOK
    <3> QED
      BY <3>2, <3>3
  <2>4. CASE ToPending(c) \/ ToExclusive(c)
    <3>1. txn' = txn
      BY <2>4 DEF ToPending, ToExclusive
    <3>2. lock[c][d] # "none"
      BY <1>2, <2>4 DEF ToPending, ToExclusive, Upgrades, TypeOK
    <3> QED
      BY <1>2, <3>1, <3>2 DEF OwnLocksOnly, Prepared
  <2>5. CASE GivesUp(c) \/ EndTransaction(c)
    <3>1. lock'[c] = Released
      BY <2>5 DEF GivesUp, EndTransaction, TypeOK
    <3> QED
      BY <1>2, <3>1 DEF Released
  <2> QED
    BY <2>1, <2>2, <2>3, <2>4, <2>5 DEF Step
<1> QED
  BY <1>1, <1>2

-----------------------------------------------------------------------------
(* The jobs that call, and the theorem *)

\* The transactions of copy_for_upload(), those of the functions it calls
\* first, are these in this order.
LEMMA UploadJob ==
  ASSUME NEW keyring, NEW hoard, NEW c
  PROVE  CopyForUpload(keyring, hoard, c) =
           <<[type |-> "immediate", ops |-> <<Read(keyring), Create, Write(hoard), Create>>],
             [type |-> "vacuum", ops |-> << >>],
             [type |-> "deferred", ops |-> <<Read(keyring)>>],
             [type |-> "deferred", ops |-> <<Read(keyring), Create, Call(c)>>]>>
<1>1. ASSUME NEW s, NEW t, NEW u, NEW v
      PROVE  <<s>> \o <<t, u>> \o <<v>> = <<s, t, u, v>>
  <2> DEFINE S == {s, t, u, v}
             left == <<s>> \o <<t, u>> \o <<v>>
             right == <<s, t, u, v>>
  <2>1. <<s>> \in Seq(S) /\ <<t, u>> \in Seq(S) /\ <<v>> \in Seq(S) /\ right \in Seq(S)
    OBVIOUS
  <2>2. left \in Seq(S) /\ Len(left) = 4
    BY <2>1
  <2>3. left[1] = s /\ left[2] = t /\ left[3] = u /\ left[4] = v
    BY <2>1
  <2>4. Len(right) = 4 /\ \A k \in 1 .. 4 : left[k] = right[k]
    BY <2>3
  <2> HIDE DEF S, left, right
  <2>5. left = right
    BY <2>1, <2>2, <2>4, SeqEqual
  <2> QED
    BY <2>5 DEF left, right
<1> QED
  BY <1>1, ZenonT(30) DEF CopyForUpload, SyncRefs, Vacuum

\* A deferred transaction does what the code lists, and nothing before it.
LEMMA DeferredOps ==
  ASSUME NEW b, NEW k, Job[b][k].type = "deferred"
  PROVE  Operations(b, k) = Job[b][k].ops
BY DEF Operations

\* BEGIN takes one lock on each database.
LEMMA OnAllSeq ==
  ASSUME NEW b \in Conn, NEW kind, NEW S, \A d \in Db : [kind |-> kind, on |-> d] \in S
  PROVE  OnAll(b, kind) \in Seq(S)
<1>1. Attached[b] \in Seq(Db)
  BY TxnAssumption
<1> QED
  BY <1>1 DEF OnAll

\* copy_for_upload(), hoard() and check_hoard() call the hoard cache's connection
\* after a transaction that has loaded the schemas, and from one that keeps them
\* and does not query the hoard cache's index itself.
LEMMA CallsArePrepared ==
  ASSUME NEW c \in Conn, Caller[c] # None,
         NEW i \in 1 .. Len(Job[Caller[c]]),
         NEW j \in 1 .. Len(Operations(Caller[c], i)),
         Operations(Caller[c], i)[j].kind = "call"
  PROVE  /\ i > 1 /\ Loads(Caller[c], i - 1) /\ Keeps(Caller[c], i)
         /\ \A d \in Databases(c) : ~Touches(Caller[c], i, d)
<1> DEFINE b == Caller[c]
           call == Call(c)
<1>0. b \in Conn /\ Attached[b] \in Seq(Db) /\ Len(Attached[b]) > 0
  BY TxnAssumption
<1>1. PICK keyring \in Db, hoard \in Db :
        /\ keyring # hoard
        /\ Databases(c) = {hoard}
        /\ \/ Job[b] = CopyForUpload(keyring, hoard, c)
           \/ Job[b] = HoardParcel(keyring, hoard, c)
           \/ Job[b] = CheckHoard(hoard, c)
  BY CallAssumption
<1> HIDE DEF b
<1>2. CASE Job[b] = CopyForUpload(keyring, hoard, c)
  <2>1. Job[b] = <<[type |-> "immediate", ops |-> <<Read(keyring), Create, Write(hoard), Create>>],
                   [type |-> "vacuum", ops |-> << >>],
                   [type |-> "deferred", ops |-> <<Read(keyring)>>],
                   [type |-> "deferred", ops |-> <<Read(keyring), Create, call>>]>>
    BY <1>2, UploadJob
  <2> HIDE DEF call
  <2>2. i \in 1 .. 4
    BY <2>1 DEF b
  <2>3. /\ Operations(b, 3) = <<Read(keyring)>>
        /\ Operations(b, 4) = <<Read(keyring), Create, call>>
    <3>1. /\ Job[b][3].type = "deferred" /\ Job[b][3].ops = <<Read(keyring)>>
          /\ Job[b][4].type = "deferred" /\ Job[b][4].ops = <<Read(keyring), Create, call>>
      BY <2>1
    <3> QED
      BY <3>1, DeferredOps, ZenonT(30)
  <2>4. i # 1
    <3> SUFFICES ASSUME i = 1 PROVE FALSE
      OBVIOUS
    <3> DEFINE first == OnAll(b, "reserve")
               second == <<Read(keyring), Create, Write(hoard), Create>>
               NoCall == [kind : {"reserve", "read", "write", "create"}, on : Db \cup {None}]
    <3>1. Operations(b, 1) = first \o second
      <4>1. Job[b][1].type = "immediate" /\ Job[b][1].ops = second
        BY <2>1
      <4> QED
        BY <4>1, ZenonT(30) DEF Operations
    <3>2. first \in Seq(NoCall)
      <4>1. \A d \in Db : [kind |-> "reserve", on |-> d] \in NoCall
        OBVIOUS
      <4> HIDE DEF NoCall
      <4> QED
        BY <1>0, <4>1, OnAllSeq
    <3>3. second \in Seq(NoCall)
      BY DEF Read, Write, Create
    <3> HIDE DEF first, second, NoCall
    <3>4. j \in 1 .. Len(first \o second)
      BY <3>1 DEF b
    <3>5. (first \o second)[j] \in NoCall
      BY <3>2, <3>3, <3>4
    <3> QED
      BY <3>1, <3>5 DEF b, NoCall
  <2>5. i # 2
    <3> SUFFICES ASSUME i = 2 PROVE FALSE
      OBVIOUS
    <3> DEFINE second == OnAll(b, "exclude")
               NoCall == [kind : {"temp", "exclude"}, on : Db \cup {None}]
    <3>1. Operations(b, 2) = <<Temp>> \o second
      <4>1. Job[b][2].type = "vacuum"
        BY <2>1
      <4> QED
        BY <4>1, ZenonT(30) DEF Operations
    <3>2. second \in Seq(NoCall) /\ <<Temp>> \in Seq(NoCall)
      <4>1. /\ \A d \in Db : [kind |-> "exclude", on |-> d] \in NoCall
            /\ Temp \in NoCall
        BY DEF Temp
      <4> HIDE DEF NoCall
      <4> QED
        BY <1>0, <4>1, OnAllSeq
    <3> HIDE DEF second, NoCall
    <3>3. (<<Temp>> \o second)[j] \in NoCall
      BY <3>1, <3>2 DEF b
    <3> QED
      BY <3>1, <3>3 DEF b, NoCall
  <2>6. i # 3
    BY <2>3 DEF Read, b
  <2>7. i = 4
    BY <2>2, <2>4, <2>5, <2>6
  <2>8. Loads(b, 3)
    <3>1. Job[b][3].type = "deferred"
      BY <2>1
    <3>2. 1 \in 1 .. Len(Operations(b, 3)) /\ Operations(b, 3)[1].kind = "read"
      BY <2>3 DEF Read
    <3> QED
      BY <3>1, <3>2 DEF Loads, Statement
  <2>9. Keeps(b, 4) /\ ~Touches(b, 4, hoard)
    <3>1. /\ Len(Operations(b, 4)) = 3
          /\ Operations(b, 4)[1].kind = "read" /\ Operations(b, 4)[1].on = keyring
          /\ Operations(b, 4)[2].kind = "create" /\ Operations(b, 4)[3].kind = "call"
      BY <2>3 DEF Read, Create, call, Call
    <3>2. Job[b][4].type = "deferred"
      BY <2>1
    <3>3. Keeps(b, 4)
      BY <3>1, <3>2 DEF Keeps
    <3>4. ~Touches(b, 4, hoard)
      BY <1>1, <3>1 DEF Touches
    <3> QED
      BY <3>3, <3>4
  <2> QED
    BY <1>1, <2>7, <2>8, <2>9 DEF b
<1>3. CASE Job[b] = HoardParcel(keyring, hoard, c)
  <2>1. Job[b] = <<[type |-> "deferred", ops |-> <<Create, Read(keyring), Read(hoard)>>],
                   [type |-> "deferred", ops |-> <<Temp, call>>],
                   [type |-> "deferred", ops |-> <<Create>>]>>
    BY <1>3 DEF HoardParcel
  <2> HIDE DEF call
  <2>2. i \in 1 .. 3
    BY <2>1 DEF b
  <2>3. /\ Operations(b, 1) = <<Create, Read(keyring), Read(hoard)>>
        /\ Operations(b, 2) = <<Temp, call>>
        /\ Operations(b, 3) = <<Create>>
    <3>1. /\ Job[b][1].type = "deferred"
          /\ Job[b][1].ops = <<Create, Read(keyring), Read(hoard)>>
          /\ Job[b][2].type = "deferred" /\ Job[b][2].ops = <<Temp, call>>
          /\ Job[b][3].type = "deferred" /\ Job[b][3].ops = <<Create>>
      BY <2>1
    <3> QED
      BY <3>1, DeferredOps, ZenonT(30)
  <2>4. i # 1 /\ i # 3
    <3>1. /\ Len(Operations(b, 1)) = 3 /\ Operations(b, 1)[1].kind = "create"
          /\ Operations(b, 1)[2].kind = "read" /\ Operations(b, 1)[3].kind = "read"
      BY <2>3 DEF Read, Create
    <3>2. Len(Operations(b, 3)) = 1 /\ Operations(b, 3)[1].kind = "create"
      BY <2>3 DEF Create
    <3> QED
      BY <3>1, <3>2 DEF b
  <2>5. i = 2
    BY <2>2, <2>4
  <2>6. Loads(b, 1)
    <3>1. Job[b][1].type = "deferred"
      BY <2>1
    <3>2. 1 \in 1 .. Len(Operations(b, 1)) /\ Operations(b, 1)[1].kind = "create"
      BY <2>3 DEF Create
    <3> QED
      BY <3>1, <3>2 DEF Loads, Statement
  <2>7. Keeps(b, 2) /\ ~Touches(b, 2, hoard)
    <3>1. /\ Len(Operations(b, 2)) = 2
          /\ Operations(b, 2)[1].kind = "temp" /\ Operations(b, 2)[2].kind = "call"
      BY <2>3 DEF Temp, call, Call
    <3>2. Job[b][2].type = "deferred"
      BY <2>1
    <3>3. Keeps(b, 2)
      BY <3>1, <3>2 DEF Keeps
    <3>4. ~Touches(b, 2, hoard)
      BY <1>1, <3>1 DEF Touches
    <3> QED
      BY <3>3, <3>4
  <2> QED
    BY <1>1, <2>5, <2>6, <2>7 DEF b
<1>4. CASE Job[b] = CheckHoard(hoard, c)
  <2>1. Job[b] = <<[type |-> "deferred", ops |-> <<Read(hoard), Write(hoard), Create>>],
                   [type |-> "deferred", ops |-> <<Temp, call, Create>>]>>
    BY <1>4 DEF CheckHoard
  <2> HIDE DEF call
  <2>2. i \in 1 .. 2
    BY <2>1 DEF b
  <2>3. /\ Operations(b, 1) = <<Read(hoard), Write(hoard), Create>>
        /\ Operations(b, 2) = <<Temp, call, Create>>
    <3>1. /\ Job[b][1].type = "deferred"
          /\ Job[b][1].ops = <<Read(hoard), Write(hoard), Create>>
          /\ Job[b][2].type = "deferred" /\ Job[b][2].ops = <<Temp, call, Create>>
      BY <2>1
    <3> QED
      BY <3>1, DeferredOps, ZenonT(30)
  <2>4. i # 1
    <3>1. /\ Len(Operations(b, 1)) = 3 /\ Operations(b, 1)[1].kind = "read"
          /\ Operations(b, 1)[2].kind = "write" /\ Operations(b, 1)[3].kind = "create"
      BY <2>3 DEF Read, Write, Create
    <3> QED
      BY <3>1 DEF b
  <2>5. i = 2
    BY <2>2, <2>4
  <2>6. Loads(b, 1)
    <3>1. Job[b][1].type = "deferred"
      BY <2>1
    <3>2. 1 \in 1 .. Len(Operations(b, 1)) /\ Operations(b, 1)[1].kind = "read"
      BY <2>3 DEF Read
    <3> QED
      BY <3>1, <3>2 DEF Loads, Statement
  <2>7. Keeps(b, 2) /\ ~Touches(b, 2, hoard)
    <3>1. /\ Len(Operations(b, 2)) = 3
          /\ Operations(b, 2)[1].kind = "temp" /\ Operations(b, 2)[2].kind = "call"
          /\ Operations(b, 2)[3].kind = "create"
      BY <2>3 DEF Temp, Create, call, Call
    <3>2. Job[b][2].type = "deferred"
      BY <2>1
    <3>3. Keeps(b, 2)
      BY <3>1, <3>2 DEF Keeps
    <3>4. ~Touches(b, 2, hoard)
      BY <1>1, <3>1 DEF Touches
    <3> QED
      BY <3>3, <3>4
  <2> QED
    BY <1>1, <2>5, <2>6, <2>7 DEF b
<1> QED
  BY <1>1, <1>2, <1>3, <1>4

\* The inductive invariant: whatever the connections' jobs are and however often
\* SQLITE_BUSY sends them back, a called connection works while its caller waits,
\* and a transaction that follows one with a statement, is no VACUUM and waits for
\* no file once it has changed temporary tables finds the schemas in memory at
\* every attempt, and locks only the databases that it names.
THEOREM Invariance == Spec => []IInv
<1>1. IInv /\ [Next]_vars => IInv'
  <2> SUFFICES ASSUME IInv, [Next]_vars PROVE IInv'
    OBVIOUS
  <2>1. CASE UNCHANGED vars
    <3>1. TypeOK'
      BY <2>1 DEF vars, IInv, TypeOK
    <3>2. Nested'
      <4>1. pc' = pc /\ at' = at /\ txn' = txn
        BY <2>1 DEF vars
      <4>2. ASSUME NEW b, NEW c PROVE Calls(b, c)' <=> Calls(b, c)
        BY <4>1, ZenonT(30) DEF Calls, InStep, Current, Ops
      <4> QED
        BY <4>1, <4>2, ZenonT(30) DEF IInv, Nested
    <3>3. SchemaLoaded'
      BY <2>1 DEF vars, IInv, SchemaLoaded, Ops
    <3>4. SchemaKept' /\ OwnLocksOnly'
      BY <2>1 DEF vars, IInv, SchemaKept, OwnLocksOnly, Prepared
    <3> QED
      BY <3>1, <3>2, <3>3, <3>4 DEF IInv
  <2>2. ASSUME NEW c \in Conn, Step(c) PROVE IInv'
    BY <2>2, TypeOKStep, NestedStep, SchemaLoadedStep, SchemaKeptStep, OwnLocksOnlyStep DEF IInv
  <2> QED
    BY <2>1, <2>2 DEF Next
<1> QED
  BY InitIInv, <1>1, PTL DEF Spec

\* vacuum() and the transactions before a call do what their comments promise:
\* copy_for_upload(), hoard() and check_hoard_data() hold no lock on the hoard
\* cache's index while hoard_put_chunk(), need_fetch() and
\* hoard_invalidate_chunk() use it on the other connection.
THEOREM CallersStayOut == Spec => []CallerOutOfTheWay
<1>1. IInv => CallerOutOfTheWay
  <2> SUFFICES ASSUME IInv, NEW c \in Conn, Caller[c] # None, pc[c] = "step",
                      NEW d \in Databases(c)
               PROVE  lock[Caller[c]][d] = "none"
    BY DEF CallerOutOfTheWay
  <2> DEFINE b == Caller[c]
  <2>1. b \in Conn /\ TypeOK /\ Calls(b, c)
    BY TxnAssumption DEF IInv, Nested
  <2>2. Ops(b) = Operations(b, txn[b]) /\ Ops(b) \in Seq(Op)
    BY <2>1, OpsOfPlan
  <2>3. at[b] \in 1 .. Len(Operations(b, txn[b])) /\ Operations(b, txn[b])[at[b]].kind = "call"
    BY <2>1, <2>2 DEF Calls, InStep, Current, TypeOK
  <2>4. Prepared(b) /\ ~Touches(b, txn[b], d)
    BY <2>1, <2>3, CallsArePrepared, ZenonT(30) DEF TypeOK, Prepared
  <2>5. d \in Db
    BY TxnAssumption DEF Databases
  <2> QED
    BY <2>1, <2>4, <2>5 DEF IInv, OwnLocksOnly
<1> QED
  BY Invariance, <1>1, PTL
=============================================================================
