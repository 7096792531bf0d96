-------------------------- MODULE TransportProofs ---------------------------
(***************************************************************************)
(* What transport.c keeps to, for any number of threads, chunks, blocks    *)
(* and retries.                                                            *)
(***************************************************************************)
EXTENDS Transport, FiniteSetTheorems, TLAPS

\* A step that names no prover is one for the SMT solver.
USE SMTT(30)

Using(t) == pc[t] \in {"setup", "perform", "put"}

\* A thread has a handle exactly while it uses one.
InUse == \A t \in Thread : Using(t) <=> conn[t] # None

\* A handle is with one thread, or once in the pool.
Placed ==
  /\ \A t \in Thread : conn[t] # None => conn[t] \in made
  /\ \A t, u \in Thread : conn[t] = conn[u] /\ conn[t] # None => t = u
  /\ \A i \in DOMAIN conns : conns[i] \in made
  /\ \A i, j \in DOMAIN conns : conns[i] = conns[j] => i = j
  /\ \A i \in DOMAIN conns : \A t \in Thread : conn[t] # conns[i]
  /\ \A h \in made : (\E t \in Thread : conn[t] = h) \/ (\E i \in DOMAIN conns : conns[i] = h)

FewMade == IsFiniteSet(made) /\ Cardinality(made) <= Cardinality(Thread)

\* During a transfer the callback writes to the buffer of the thread that
\* performs it.
Pointed ==
  \A t \in Thread :
    /\ pc[t] # "idle" => chunk[t] \in Chunk
    /\ pc[t] = "perform" => buf[conn[t]] = t

\* A transfer of the chunk itself that was completed has left all of it.
Arrived ==
  \A t \in Thread :
    pc[t] \in {"put", "judge"} /\ result[t] = "success" /\ served[t] => Holds(t, chunk[t])

IInv ==
  TypeOK /\ InUse /\ Placed /\ FewMade /\ Pointed /\ Arrived
    /\ RetryStartsOver /\ FetchedStays

-----------------------------------------------------------------------------

\* At first there are no handles.
LEMMA InitIInv == Init => IInv
<1> SUFFICES ASSUME Init PROVE IInv OBVIOUS
<1> USE TransportAssumption DEF Init
<1>1. TypeOK BY DEF TypeOK, Block
<1>2. InUse /\ Placed BY DEF InUse, Placed, Using
<1>3. FewMade BY FS_EmptySet, FS_CardinalityType DEF FewMade
<1>4. Pointed /\ Arrived /\ RetryStartsOver /\ FetchedStays
  BY ZenonT(30) DEF Pointed, Arrived, RetryStartsOver, FetchedStays
<1> QED BY <1>1, <1>2, <1>3, <1>4, ZenonT(30) DEF IInv

\* A handle is taken from the front of the pool ...
LEMMA PopFacts ==
  ASSUME NEW S, NEW s \in Seq(S), s # << >>
  PROVE  /\ Head(s) = s[1] /\ s[1] \in S /\ 1 \in DOMAIN s /\ Tail(s) \in Seq(S)
         /\ \A i \in DOMAIN Tail(s) : i + 1 \in DOMAIN s \ {1} /\ Tail(s)[i] = s[i + 1]
         /\ \A i \in DOMAIN s \ {1} : i - 1 \in DOMAIN Tail(s) /\ Tail(s)[i - 1] = s[i]
<1>1. /\ Len(s) \in Nat \ {0} /\ DOMAIN s = 1 .. Len(s)
      /\ Tail(s) \in Seq(S) /\ Len(Tail(s)) = Len(s) - 1
      /\ DOMAIN Tail(s) = 1 .. (Len(s) - 1)
  OBVIOUS
<1>2. \A i \in 1 .. (Len(s) - 1) : Tail(s)[i] = s[i + 1] OBVIOUS
<1>3. Head(s) = s[1] /\ s[1] \in S OBVIOUS
<1> QED BY <1>1, <1>2, <1>3

\* ... and given back there.
LEMMA PushFacts ==
  ASSUME NEW S, NEW s \in Seq(S), NEW e \in S
  PROVE  LET p == <<e>> \o s IN
         /\ p \in Seq(S) /\ 1 \in DOMAIN p /\ p[1] = e
         /\ \A i \in DOMAIN p \ {1} : i - 1 \in DOMAIN s /\ p[i] = s[i - 1]
         /\ \A i \in DOMAIN s : i + 1 \in DOMAIN p \ {1} /\ p[i + 1] = s[i]
<1> DEFINE p == <<e>> \o s
<1>1. /\ Len(s) \in Nat /\ DOMAIN s = 1 .. Len(s)
      /\ p \in Seq(S) /\ Len(p) = Len(s) + 1
      /\ DOMAIN p = 1 .. (Len(s) + 1)
  OBVIOUS
<1>2. \A i \in 1 .. (Len(s) + 1) : p[i] = IF i = 1 THEN e ELSE s[i - 1] OBVIOUS
<1> HIDE DEF p
<1> QED BY <1>1, <1>2

\* transport_fetch_chunk() returns with any result.
LEMMA ReturnType ==
  ASSUME TypeOK, NEW t \in Thread, NEW ret \in {"success", "netfail", "failed", "tagfail"},
         Return(t, ret), conns' = conns
  PROVE  TypeOK'
<1> USE TransportAssumption
<1>1. length' \in [Thread -> 0 .. Size] BY DEF Return, TypeOK
<1>2. chunk' \in [Thread -> Chunk \cup {None}] BY ZenonT(30) DEF Return, TypeOK
<1>3. served' \in [Thread -> BOOLEAN] BY ZenonT(30) DEF Return, TypeOK
<1>4. tries' \in [Thread -> 0 .. TRANSPORT_TRIES - 1] BY DEF Return, TypeOK
<1>5. sent' \in [Thread -> 0 .. Size] BY DEF Return, TypeOK
<1>6. /\ pc' \in [Thread -> {"idle", "get", "setup", "perform", "put", "judge"}]
      /\ result' \in [Thread -> {"none", "success", "netfail", "failed", "tagfail"}]
  BY ZenonT(30) DEF Return, TypeOK
<1>7. UNCHANGED <<conns, made, buf, offset, conn, buffer>> BY ZenonT(30) DEF Return
<1> QED BY <1>1, <1>2, <1>3, <1>4, <1>5, <1>6, <1>7, ZenonT(30) DEF TypeOK

\* The callback stores within the buffer, and the variables keep their types.
LEMMA TypeOKStep == TypeOK /\ InUse /\ Pointed /\ [Next]_vars => TypeOK'
<1> SUFFICES ASSUME TypeOK /\ InUse /\ Pointed, [Next]_vars PROVE TypeOK' OBVIOUS
<1> USE TransportAssumption
<1>1. CASE UNCHANGED vars BY <1>1, ZenonT(30) DEF vars, thread, data, TypeOK, InUse, Using, Pointed
<1>2. ASSUME NEW t \in Thread, NEW c \in Chunk, Fetch(t, c) PROVE TypeOK'
  BY <1>2 DEF Fetch, TypeOK, InUse, Using, Pointed
<1>3. ASSUME NEW t \in Thread, ConnGet(t) PROVE TypeOK'
  <2>1. conns \in Seq(Handle) /\ made \subseteq Handle
        /\ conn \in [Thread -> Handle \cup {None}]
    BY ZenonT(30) DEF TypeOK
  <2>2. /\ conns' \in Seq(Handle) /\ made' \subseteq Handle
        /\ conn' \in [Thread -> Handle \cup {None}]
    <3>1. CASE conns # << >>
      <4>1. /\ conn' = [conn EXCEPT ![t] = Head(conns)]
            /\ conns' = Tail(conns) /\ made' = made
        BY <1>3, <3>1, ZenonT(30) DEF ConnGet
      <4> QED BY <2>1, <3>1, <4>1, PopFacts, ZenonT(30)
    <3>2. CASE conns = << >>
      <4>1. PICK h \in Handle \ made : conn' = [conn EXCEPT ![t] = h] /\ made' = made \cup {h}
        BY <1>3, <3>2, ZenonT(30) DEF ConnGet
      <4>2. conns' = conns BY <1>3, <3>2, ZenonT(30) DEF ConnGet
      <4> QED BY <1>3, <2>1, <4>1, <4>2, ZenonT(30)
    <3> QED BY <3>1, <3>2, ZenonT(30)
  <2>3. pc' \in [Thread -> {"idle", "get", "setup", "perform", "put", "judge"}]
    BY <1>3, ZenonT(30) DEF ConnGet, TypeOK
  <2>4. UNCHANGED <<buf, offset, chunk, tries, result, buffer, length, served, sent>>
    BY <1>3, ZenonT(30) DEF ConnGet, data
  <2> QED BY <2>2, <2>3, <2>4, ZenonT(30) DEF TypeOK
<1>4. ASSUME NEW t \in Thread, AllocFails(t) PROVE TypeOK'
  BY <1>4, ReturnType, ZenonT(30) DEF AllocFails
<1>5. ASSUME NEW t \in Thread, SetoptFails(t) PROVE TypeOK'
  BY <1>5, ZenonT(30) DEF SetoptFails, data, TypeOK, InUse, Using, Pointed
<1>6. ASSUME NEW t \in Thread, Setup(t) PROVE TypeOK'
  BY <1>6 DEF Setup, TypeOK, InUse, Using, Pointed
<1>7. ASSUME NEW t \in Thread, Receive(t) PROVE TypeOK'
  <2>1. PICK b \in Block : buffer' = [buffer EXCEPT ![t][offset[conn[t]] + 1] = b]
    <3> DEFINE b == IF served[t] THEN <<chunk[t], sent[t] + 1>> ELSE Bad
    <3>1. b \in Block
      BY <1>7 DEF Receive, TypeOK, Pointed, Block
    <3>2. buf[conn[t]] = t BY <1>7, ZenonT(30) DEF Receive, Pointed
    <3>3. buffer' = [buffer EXCEPT ![buf[conn[t]]][offset[conn[t]] + 1] = b]
      BY <1>7, ZenonT(30) DEF Receive
    <3> QED BY <3>1, <3>2, <3>3, ZenonT(30)
  <2>2. conn[t] \in Handle /\ offset[conn[t]] + 1 \in 1 .. Size
    BY <1>7 DEF Receive, TypeOK, InUse, Using
  <2>3. buffer' \in [Thread -> [1 .. Size -> Block]]
    BY <2>1, <2>2, ZenonT(30) DEF TypeOK
  <2> QED BY <1>7, <2>2, <2>3 DEF Receive, thread, TypeOK
<1>8. ASSUME NEW t \in Thread, Complete(t) PROVE TypeOK'
  BY <1>8 DEF Complete, TypeOK, InUse, Using, Pointed
<1>9. ASSUME NEW t \in Thread, NEW error \in {"netfail", "failed"}, Fails(t, error) PROVE TypeOK'
  BY <1>9 DEF Fails, TypeOK, InUse, Using, Pointed
<1>10. ASSUME NEW t \in Thread, ConnPut(t) PROVE TypeOK'
  <2>1. conn[t] \in Handle BY <1>10, ZenonT(30) DEF ConnPut, TypeOK, InUse, Using
  <2>2. conns' \in Seq(Handle) BY <1>10, <2>1, PushFacts, ZenonT(30) DEF ConnPut, TypeOK
  <2> QED BY <1>10, <2>2, ZenonT(30) DEF ConnPut, data, TypeOK
<1>11. ASSUME NEW t \in Thread, Retry(t) PROVE TypeOK'
  <2>1. CASE /\ tries[t] + 1 < TRANSPORT_TRIES
             /\ tries' = [tries EXCEPT ![t] = tries[t] + 1]
             /\ pc' = [pc EXCEPT ![t] = "get"]
             /\ UNCHANGED <<made, buf, offset, conn, chunk, result, data>>
    <3>1. tries' \in [Thread -> 0 .. TRANSPORT_TRIES - 1]
      <4>1. tries \in [Thread -> 0 .. TRANSPORT_TRIES - 1] BY ZenonT(30) DEF TypeOK
      <4>2. tries[t] + 1 \in 0 .. TRANSPORT_TRIES - 1 BY <1>11, <2>1, <4>1
      <4> QED BY <1>11, <2>1, <4>1, <4>2, ZenonT(30)
    <3>2. pc' \in [Thread -> {"idle", "get", "setup", "perform", "put", "judge"}]
      BY <1>11, <2>1, ZenonT(30) DEF TypeOK
    <3>3. UNCHANGED <<conns, made, buf, offset, conn, chunk, result, buffer, length, served, sent>>
      BY <1>11, <2>1, ZenonT(30) DEF Retry, data
    <3> QED BY <3>1, <3>2, <3>3, ZenonT(30) DEF TypeOK
  <2>2. CASE Return(t, "netfail")
    BY <1>11, <2>2, ReturnType, ZenonT(30) DEF Retry
  <2> QED BY <1>11, <2>1, <2>2, ZenonT(30) DEF Retry
<1>12. ASSUME NEW t \in Thread, GivesUp(t) PROVE TypeOK'
  BY <1>12, ReturnType, ZenonT(30) DEF GivesUp
<1>13. ASSUME NEW t \in Thread, Judge(t) PROVE TypeOK'
  BY <1>13, ReturnType, ZenonT(30) DEF Judge
<1> QED BY <1>1, <1>2, <1>3, <1>4, <1>5, <1>6, <1>7,
           <1>8, <1>9, <1>10, <1>11, <1>12, <1>13, ZenonT(30) DEF Next, Step

\* A thread has a handle from transport_conn_get() to transport_conn_put().
LEMMA InUseStep == TypeOK /\ InUse /\ [Next]_vars => InUse'
<1> SUFFICES ASSUME TypeOK /\ InUse, [Next]_vars PROVE InUse' OBVIOUS
<1> USE TransportAssumption
<1>1. CASE UNCHANGED vars BY <1>1, ZenonT(30) DEF vars, thread, data, TypeOK, InUse, Using
<1>2. ASSUME NEW t \in Thread, NEW c \in Chunk, Fetch(t, c) PROVE InUse'
  BY <1>2, ZenonT(30) DEF Fetch, TypeOK, InUse, Using
<1>3. ASSUME NEW t \in Thread, ConnGet(t) PROVE InUse'
  BY <1>3 DEF ConnGet, data, TypeOK, InUse, Using
<1>4. ASSUME NEW t \in Thread, AllocFails(t) PROVE InUse'
  BY <1>4, ZenonT(30) DEF AllocFails, Return, TypeOK, InUse, Using
<1>5. ASSUME NEW t \in Thread, SetoptFails(t) PROVE InUse'
  BY <1>5, ZenonT(30) DEF SetoptFails, data, TypeOK, InUse, Using
<1>6. ASSUME NEW t \in Thread, Setup(t) PROVE InUse'
  BY <1>6, ZenonT(30) DEF Setup, TypeOK, InUse, Using
<1>7. ASSUME NEW t \in Thread, Receive(t) PROVE InUse'
  BY <1>7, ZenonT(30) DEF Receive, thread, TypeOK, InUse, Using
<1>8. ASSUME NEW t \in Thread, Complete(t) PROVE InUse'
  BY <1>8, ZenonT(30) DEF Complete, TypeOK, InUse, Using
<1>9. ASSUME NEW t \in Thread, NEW error \in {"netfail", "failed"}, Fails(t, error) PROVE InUse'
  BY <1>9, ZenonT(30) DEF Fails, TypeOK, InUse, Using
<1>10. ASSUME NEW t \in Thread, ConnPut(t) PROVE InUse'
  BY <1>10, ZenonT(30) DEF ConnPut, data, TypeOK, InUse, Using
<1>11. ASSUME NEW t \in Thread, Retry(t) PROVE InUse'
  BY <1>11, ZenonT(30) DEF Retry, Return, data, TypeOK, InUse, Using
<1>12. ASSUME NEW t \in Thread, GivesUp(t) PROVE InUse'
  BY <1>12, ZenonT(30) DEF GivesUp, Return, TypeOK, InUse, Using
<1>13. ASSUME NEW t \in Thread, Judge(t) PROVE InUse'
  BY <1>13, ZenonT(30) DEF Judge, Return, TypeOK, InUse, Using
<1> QED BY <1>1, <1>2, <1>3, <1>4, <1>5, <1>6, <1>7,
           <1>8, <1>9, <1>10, <1>11, <1>12, <1>13, ZenonT(30) DEF Next, Step

\* Every action but two leaves the handles where they are.
LEMMA HandlesMove ==
  ASSUME [Next]_vars
  PROVE  \/ UNCHANGED <<conns, made, conn>>
         \/ \E t \in Thread : ConnGet(t) \/ ConnPut(t)
<1>1. CASE UNCHANGED vars BY <1>1, ZenonT(30) DEF vars, thread
<1>2. ASSUME NEW t \in Thread, NEW c \in Chunk, Fetch(t, c)
      PROVE  UNCHANGED <<conns, made, conn>>
  BY <1>2, ZenonT(30) DEF Fetch
<1>3. ASSUME NEW t \in Thread, Step(t), ~ConnGet(t), ~ConnPut(t)
      PROVE  UNCHANGED <<conns, made, conn>>
  BY <1>3, ZenonT(30) DEF Step, AllocFails, SetoptFails, Setup, Receive, Complete, Fails,
     Retry, GivesUp, Judge, Return, thread
<1> QED BY <1>1, <1>2, <1>3, ZenonT(30) DEF Next

\* Where the handles are when one moves from the pool to a thread ...
LEMMA MovedOut ==
  ASSUME Placed, NEW t \in Thread, made' = made, conn[t] = None, \A h \in made : h # None,
         conn'[t] = conns[1], \A u \in Thread \ {t} : conn'[u] = conn[u],
         1 \in DOMAIN conns, DOMAIN conns' \subseteq Int,
         \A i \in DOMAIN conns' : i + 1 \in DOMAIN conns \ {1} /\ conns'[i] = conns[i + 1],
         \A i \in DOMAIN conns \ {1} : i - 1 \in DOMAIN conns' /\ conns'[i - 1] = conns[i]
  PROVE  Placed'
<1> USE DEF Placed
<1>1. \A u \in Thread : conn'[u] # None => conn'[u] \in made OBVIOUS
<1>2. \A u, v \in Thread : conn'[u] = conn'[v] /\ conn'[u] # None => u = v OBVIOUS
<1>3. \A i \in DOMAIN conns' : conns'[i] \in made OBVIOUS
<1>4. \A i, j \in DOMAIN conns' : conns'[i] = conns'[j] => i = j
  <2> SUFFICES ASSUME NEW i \in DOMAIN conns', NEW j \in DOMAIN conns', conns'[i] = conns'[j]
               PROVE  i = j
    OBVIOUS
  <2>1. i + 1 = j + 1 OBVIOUS
  <2> QED BY <2>1
<1>5. \A i \in DOMAIN conns' : \A u \in Thread : conn'[u] # conns'[i] OBVIOUS
<1>6. \A h \in made : (\E u \in Thread : conn'[u] = h) \/ (\E i \in DOMAIN conns' : conns'[i] = h)
  <2> SUFFICES ASSUME NEW h \in made, \A u \in Thread : conn'[u] # h
               PROVE  \E i \in DOMAIN conns' : conns'[i] = h
    OBVIOUS
  <2>1. CASE \E u \in Thread : conn[u] = h
    <3>1. PICK u \in Thread : conn[u] = h BY <2>1, ZenonT(30)
    <3>2. u = t BY <3>1, ZenonT(30)
    <3> QED BY <3>1, <3>2, ZenonT(30)
  <2>2. CASE \E i \in DOMAIN conns : conns[i] = h
    BY <2>2
  <2> QED BY <2>1, <2>2, ZenonT(30)
<1> QED BY <1>1, <1>2, <1>3, <1>4, <1>5, <1>6, ZenonT(30)

\* ... and from the thread to the pool.
LEMMA MovedIn ==
  ASSUME Placed, NEW t \in Thread, made' = made, conn[t] # None, \A h \in made : h # None,
         conn'[t] = None, \A u \in Thread \ {t} : conn'[u] = conn[u],
         1 \in DOMAIN conns', DOMAIN conns' \subseteq Int, conns'[1] = conn[t],
         \A i \in DOMAIN conns' \ {1} : i - 1 \in DOMAIN conns /\ conns'[i] = conns[i - 1],
         \A i \in DOMAIN conns : i + 1 \in DOMAIN conns' \ {1} /\ conns'[i + 1] = conns[i]
  PROVE  Placed'
<1> USE DEF Placed
<1>1. \A u \in Thread : conn'[u] # None => conn'[u] \in made OBVIOUS
<1>2. \A u, v \in Thread : conn'[u] = conn'[v] /\ conn'[u] # None => u = v OBVIOUS
<1>3. \A i \in DOMAIN conns' : conns'[i] \in made OBVIOUS
<1>4. \A i, j \in DOMAIN conns' : conns'[i] = conns'[j] => i = j
  <2> SUFFICES ASSUME NEW i \in DOMAIN conns', NEW j \in DOMAIN conns', conns'[i] = conns'[j]
               PROVE  i = j
    OBVIOUS
  <2>1. CASE i # 1 /\ j # 1
    <3>1. i - 1 = j - 1 BY <2>1
    <3> QED BY <3>1
  <2>2. CASE i = 1 \/ j = 1 BY <2>2
  <2> QED BY <2>1, <2>2, ZenonT(30)
<1>5. \A i \in DOMAIN conns' : \A u \in Thread : conn'[u] # conns'[i]
  <2> TAKE i \in DOMAIN conns'
  <2> TAKE u \in Thread
  <2>1. conns'[i] # None BY <1>3, ZenonT(30)
  <2>2. CASE i = 1 BY <2>1, <2>2
  <2>3. CASE i # 1
    <3>1. i - 1 \in DOMAIN conns /\ conns'[i] = conns[i - 1] BY <2>3, ZenonT(30)
    <3>2. conn[u] # conns[i - 1] BY <3>1, ZenonT(30)
    <3> QED BY <2>1, <3>1, <3>2, ZenonT(30)
  <2> QED BY <2>2, <2>3, ZenonT(30)
<1>6. \A h \in made : (\E u \in Thread : conn'[u] = h) \/ (\E i \in DOMAIN conns' : conns'[i] = h)
  OBVIOUS
<1> QED BY <1>1, <1>2, <1>3, <1>4, <1>5, <1>6, ZenonT(30)

\* transport_conn_get() takes one handle out of the pool or makes one, and
\* transport_conn_put() gives back the one the thread has.
LEMMA PlacedStep == TypeOK /\ InUse /\ Placed /\ [Next]_vars => Placed'
<1> SUFFICES ASSUME TypeOK, InUse, Placed, [Next]_vars PROVE Placed' OBVIOUS
<1> USE TransportAssumption
<1>1. CASE UNCHANGED <<conns, made, conn>> BY <1>1, ZenonT(30) DEF Placed
<1>2. ASSUME NEW t \in Thread, ConnGet(t), conns # << >> PROVE Placed'
  <2>1. /\ conns' = Tail(conns) /\ made' = made
        /\ conn' = [conn EXCEPT ![t] = Head(conns)]
    BY <1>2, ZenonT(30) DEF ConnGet
  <2>2. conns \in Seq(Handle) BY ZenonT(30) DEF TypeOK
  <2>3. /\ 1 \in DOMAIN conns /\ Head(conns) = conns[1]
        /\ \A i \in DOMAIN conns' : i + 1 \in DOMAIN conns \ {1} /\ conns'[i] = conns[i + 1]
        /\ \A i \in DOMAIN conns \ {1} : i - 1 \in DOMAIN conns' /\ conns'[i - 1] = conns[i]
    BY <1>2, <2>1, <2>2, PopFacts
  <2>4. DOMAIN conns' \subseteq Int BY <2>1, <2>2
  <2>5. conn'[t] = conns[1] /\ \A u \in Thread \ {t} : conn'[u] = conn[u]
    BY <1>2, <2>1, <2>3 DEF TypeOK
  <2>6. conn[t] = None BY <1>2, ZenonT(30) DEF ConnGet, InUse, Using
  <2>7. \A h \in made : h # None BY ZenonT(30) DEF TypeOK
  <2> QED BY <1>2, <2>1, <2>3, <2>4, <2>5, <2>6, <2>7, MovedOut, ZenonT(30)
<1>3. ASSUME NEW t \in Thread, ConnGet(t), conns = << >> PROVE Placed'
  <2>1. PICK h \in Handle \ made : made' = made \cup {h} /\ conn' = [conn EXCEPT ![t] = h]
    BY <1>3, ZenonT(30) DEF ConnGet
  <2>2. conns' = << >> BY <1>3, ZenonT(30) DEF ConnGet
  <2>3. conn'[t] = h /\ \A u \in Thread \ {t} : conn'[u] = conn[u]
    BY <2>1, ZenonT(30) DEF TypeOK
  <2>4. conn[t] = None BY <1>3, ZenonT(30) DEF ConnGet, InUse, Using
  <2>5. DOMAIN conns = {} /\ DOMAIN conns' = {} BY <1>3, <2>2
  <2>6. \A g \in made \cup {h} : g # None BY ZenonT(30) DEF TypeOK
  <2>7. \A u, v \in Thread : conn'[u] = conn'[v] /\ conn'[u] # None => u = v
    BY <2>1, <2>3, <2>4 DEF Placed
  <2>8. \A g \in made' : \E u \in Thread : conn'[u] = g
    <3> TAKE g \in made'
    <3>1. CASE g = h BY <1>3, <2>3, <3>1, ZenonT(30)
    <3>2. CASE g \in made
      <4>1. PICK u \in Thread : conn[u] = g BY <3>2, <2>5, ZenonT(30) DEF Placed
      <4> QED BY <2>3, <2>4, <2>6, <3>2, <4>1, ZenonT(30)
    <3> QED BY <2>1, <3>1, <3>2, ZenonT(30)
  <2> QED BY <2>1, <2>3, <2>5, <2>7, <2>8 DEF Placed
<1>4. ASSUME NEW t \in Thread, ConnPut(t) PROVE Placed'
  <2>1. /\ conns' = <<conn[t]>> \o conns /\ made' = made
        /\ conn' = [conn EXCEPT ![t] = None]
    BY <1>4, ZenonT(30) DEF ConnPut
  <2>2. conns \in Seq(Handle) /\ conn[t] \in Handle
    BY <1>4, ZenonT(30) DEF ConnPut, TypeOK, InUse, Using
  <2>3. /\ 1 \in DOMAIN conns' /\ conns'[1] = conn[t]
        /\ \A i \in DOMAIN conns' \ {1} : i - 1 \in DOMAIN conns /\ conns'[i] = conns[i - 1]
        /\ \A i \in DOMAIN conns : i + 1 \in DOMAIN conns' \ {1} /\ conns'[i + 1] = conns[i]
    BY <2>1, <2>2, PushFacts
  <2>4. DOMAIN conns' \subseteq Int BY <2>1, <2>2
  <2>5. conn'[t] = None /\ \A u \in Thread \ {t} : conn'[u] = conn[u]
    BY <1>4, <2>1, ZenonT(30) DEF TypeOK
  <2>6. conn[t] # None BY <2>2, ZenonT(30)
  <2>7. \A h \in made : h # None BY ZenonT(30) DEF TypeOK
  <2> QED BY <1>4, <2>1, <2>3, <2>4, <2>5, <2>6, <2>7, MovedIn, ZenonT(30)
<1> QED BY <1>1, <1>2, <1>3, <1>4, HandlesMove, ZenonT(30)

\* A handle is made only when every other is with a thread, and this thread has
\* none: there are fewer handles than threads.
LEMMA FewMadeStep == TypeOK /\ InUse /\ Placed /\ FewMade /\ [Next]_vars => FewMade'
<1> SUFFICES ASSUME TypeOK, InUse, Placed, FewMade, [Next]_vars PROVE FewMade' OBVIOUS
<1>1. CASE UNCHANGED made BY <1>1, ZenonT(30) DEF FewMade
<1>2. ASSUME NEW t \in Thread, ConnGet(t), conns = << >> PROVE FewMade'
  <2> DEFINE f == [h \in made |-> CHOOSE u \in Thread : conn[u] = h]
  <2>1. \A h \in made : f[h] \in Thread /\ conn[f[h]] = h
    BY <1>2 DEF Placed
  <2>2. conn[t] = None BY <1>2, ZenonT(30) DEF ConnGet, InUse, Using
  <2>3. \A h \in made : h # None BY TransportAssumption, ZenonT(30) DEF TypeOK
  <2>4. f \in Injection(made, Thread \ {t})
    <3>1. \A h \in made : f[h] \in Thread \ {t} BY <2>1, <2>2, <2>3, ZenonT(30)
    <3>2. \A g, h \in made : f[g] = f[h] => g = h BY <2>1, ZenonT(30)
    <3>3. f \in [made -> Thread \ {t}] BY <3>1, ZenonT(30)
    <3> HIDE DEF f
    <3> QED BY <3>2, <3>3, ZenonT(30) DEF Injection, IsInjective
  <2>5. IsFiniteSet(Thread) BY TransportAssumption, ZenonT(30)
  <2>6. IsFiniteSet(Thread \ {t}) /\ Cardinality(Thread \ {t}) = Cardinality(Thread) - 1
    BY <1>2, <2>5, FS_RemoveElement, ZenonT(30)
  <2>7. Cardinality(made) <= Cardinality(Thread \ {t})
    BY <2>4, <2>6, FS_Injection, ZenonT(30)
  <2>8. PICK h \in Handle \ made : made' = made \cup {h}
    BY <1>2, ZenonT(30) DEF ConnGet
  <2>9. IsFiniteSet(made') /\ Cardinality(made') = Cardinality(made) + 1
    BY <2>8, FS_AddElement, ZenonT(30) DEF FewMade
  <2> QED BY <2>5, <2>6, <2>7, <2>9, FS_CardinalityType DEF FewMade
<1> QED BY <1>1, <1>2, HandlesMove, ZenonT(30) DEF ConnGet, ConnPut

\* A handle that goes to another thread is pointed at that thread's buffer first.
LEMMA PointedStep == TypeOK /\ InUse /\ Placed /\ Pointed /\ [Next]_vars => Pointed'
<1> SUFFICES ASSUME TypeOK /\ InUse /\ Placed /\ Pointed, [Next]_vars PROVE Pointed' OBVIOUS
<1> USE TransportAssumption
<1>1. CASE UNCHANGED vars BY <1>1, ZenonT(30) DEF vars, thread, data, TypeOK, InUse, Placed, Using, Pointed
<1>2. ASSUME NEW t \in Thread, NEW c \in Chunk, Fetch(t, c) PROVE Pointed'
  BY <1>2 DEF Fetch, TypeOK, InUse, Placed, Using, Pointed
<1>3. ASSUME NEW t \in Thread, ConnGet(t) PROVE Pointed'
  BY <1>3 DEF ConnGet, data, TypeOK, InUse, Placed, Using, Pointed
<1>4. ASSUME NEW t \in Thread, AllocFails(t) PROVE Pointed'
  BY <1>4 DEF AllocFails, Return, TypeOK, InUse, Placed, Using, Pointed
<1>5. ASSUME NEW t \in Thread, SetoptFails(t) PROVE Pointed'
  BY <1>5 DEF SetoptFails, data, TypeOK, InUse, Placed, Using, Pointed
<1>6. ASSUME NEW t \in Thread, Setup(t) PROVE Pointed'
  BY <1>6 DEF Setup, TypeOK, InUse, Placed, Using, Pointed
<1>7. ASSUME NEW t \in Thread, Receive(t) PROVE Pointed'
  BY <1>7, ZenonT(30) DEF Receive, thread, TypeOK, InUse, Placed, Using, Pointed
<1>8. ASSUME NEW t \in Thread, Complete(t) PROVE Pointed'
  BY <1>8 DEF Complete, TypeOK, InUse, Placed, Using, Pointed
<1>9. ASSUME NEW t \in Thread, NEW error \in {"netfail", "failed"}, Fails(t, error) PROVE Pointed'
  BY <1>9 DEF Fails, TypeOK, InUse, Placed, Using, Pointed
<1>10. ASSUME NEW t \in Thread, ConnPut(t) PROVE Pointed'
  BY <1>10 DEF ConnPut, data, TypeOK, InUse, Placed, Using, Pointed
<1>11. ASSUME NEW t \in Thread, Retry(t) PROVE Pointed'
  BY <1>11 DEF Retry, Return, data, TypeOK, InUse, Placed, Using, Pointed
<1>12. ASSUME NEW t \in Thread, GivesUp(t) PROVE Pointed'
  BY <1>12 DEF GivesUp, Return, TypeOK, InUse, Placed, Using, Pointed
<1>13. ASSUME NEW t \in Thread, Judge(t) PROVE Pointed'
  BY <1>13 DEF Judge, Return, TypeOK, InUse, Placed, Using, Pointed
<1> QED BY <1>1, <1>2, <1>3, <1>4, <1>5, <1>6, <1>7,
           <1>8, <1>9, <1>10, <1>11, <1>12, <1>13, ZenonT(30) DEF Next, Step

\* An attempt begins at the start of the buffer and nobody else writes there.
LEMMA RetryStep == TypeOK /\ InUse /\ Placed /\ Pointed /\ Arrived /\ RetryStartsOver /\ [Next]_vars => RetryStartsOver'
<1> SUFFICES ASSUME TypeOK /\ InUse /\ Placed /\ Pointed /\ Arrived /\ RetryStartsOver, [Next]_vars PROVE RetryStartsOver' OBVIOUS
<1> USE TransportAssumption
<1>1. CASE UNCHANGED vars BY <1>1, ZenonT(30) DEF vars, thread, data, TypeOK, InUse, Placed, Using, Pointed, Arrived, RetryStartsOver
<1>2. ASSUME NEW t \in Thread, NEW c \in Chunk, Fetch(t, c) PROVE RetryStartsOver'
  BY <1>2 DEF Fetch, TypeOK, InUse, Placed, Using, Pointed, Arrived, RetryStartsOver
<1>3. ASSUME NEW t \in Thread, ConnGet(t) PROVE RetryStartsOver'
  BY <1>3 DEF ConnGet, data, TypeOK, InUse, Placed, Using, Pointed, Arrived, RetryStartsOver
<1>4. ASSUME NEW t \in Thread, AllocFails(t) PROVE RetryStartsOver'
  BY <1>4 DEF AllocFails, Return, TypeOK, InUse, Placed, Using, Pointed, Arrived, RetryStartsOver
<1>5. ASSUME NEW t \in Thread, SetoptFails(t) PROVE RetryStartsOver'
  BY <1>5 DEF SetoptFails, data, TypeOK, InUse, Placed, Using, Pointed, Arrived, RetryStartsOver
<1>6. ASSUME NEW t \in Thread, Setup(t) PROVE RetryStartsOver'
  BY <1>6 DEF Setup, TypeOK, InUse, Placed, Using, Pointed, Arrived, RetryStartsOver
<1>7. ASSUME NEW t \in Thread, Receive(t) PROVE RetryStartsOver'
  BY <1>7 DEF Receive, thread, TypeOK, InUse, Placed, Using, Pointed, Arrived, RetryStartsOver
<1>8. ASSUME NEW t \in Thread, Complete(t) PROVE RetryStartsOver'
  BY <1>8 DEF Complete, TypeOK, InUse, Placed, Using, Pointed, Arrived, RetryStartsOver
<1>9. ASSUME NEW t \in Thread, NEW error \in {"netfail", "failed"}, Fails(t, error) PROVE RetryStartsOver'
  BY <1>9 DEF Fails, TypeOK, InUse, Placed, Using, Pointed, Arrived, RetryStartsOver
<1>10. ASSUME NEW t \in Thread, ConnPut(t) PROVE RetryStartsOver'
  BY <1>10 DEF ConnPut, data, TypeOK, InUse, Placed, Using, Pointed, Arrived, RetryStartsOver
<1>11. ASSUME NEW t \in Thread, Retry(t) PROVE RetryStartsOver'
  BY <1>11 DEF Retry, Return, data, TypeOK, InUse, Placed, Using, Pointed, Arrived, RetryStartsOver
<1>12. ASSUME NEW t \in Thread, GivesUp(t) PROVE RetryStartsOver'
  BY <1>12 DEF GivesUp, Return, TypeOK, InUse, Placed, Using, Pointed, Arrived, RetryStartsOver
<1>13. ASSUME NEW t \in Thread, Judge(t) PROVE RetryStartsOver'
  BY <1>13 DEF Judge, Return, TypeOK, InUse, Placed, Using, Pointed, Arrived, RetryStartsOver
<1> QED BY <1>1, <1>2, <1>3, <1>4, <1>5, <1>6, <1>7,
           <1>8, <1>9, <1>10, <1>11, <1>12, <1>13, ZenonT(30) DEF Next, Step

\* A completed transfer of the chunk leaves all of it in the buffer.
LEMMA ArrivedStep == TypeOK /\ InUse /\ Placed /\ Pointed /\ RetryStartsOver /\ Arrived /\ [Next]_vars => Arrived'
<1> SUFFICES ASSUME TypeOK /\ InUse /\ Placed /\ Pointed /\ RetryStartsOver /\ Arrived, [Next]_vars PROVE Arrived' OBVIOUS
<1> USE TransportAssumption
<1>1. CASE UNCHANGED vars BY <1>1, ZenonT(30) DEF vars, thread, data, TypeOK, InUse, Placed, Using, Pointed, RetryStartsOver, Arrived, Holds
<1>2. ASSUME NEW t \in Thread, NEW c \in Chunk, Fetch(t, c) PROVE Arrived'
  BY <1>2 DEF Fetch, TypeOK, InUse, Placed, Using, Pointed, RetryStartsOver, Arrived, Holds
<1>3. ASSUME NEW t \in Thread, ConnGet(t) PROVE Arrived'
  BY <1>3 DEF ConnGet, data, TypeOK, InUse, Placed, Using, Pointed, RetryStartsOver, Arrived, Holds
<1>4. ASSUME NEW t \in Thread, AllocFails(t) PROVE Arrived'
  BY <1>4 DEF AllocFails, Return, TypeOK, InUse, Placed, Using, Pointed, RetryStartsOver, Arrived, Holds
<1>5. ASSUME NEW t \in Thread, SetoptFails(t) PROVE Arrived'
  BY <1>5 DEF SetoptFails, data, TypeOK, InUse, Placed, Using, Pointed, RetryStartsOver, Arrived, Holds
<1>6. ASSUME NEW t \in Thread, Setup(t) PROVE Arrived'
  BY <1>6 DEF Setup, TypeOK, InUse, Placed, Using, Pointed, RetryStartsOver, Arrived, Holds
<1>7. ASSUME NEW t \in Thread, Receive(t) PROVE Arrived'
  <2> SUFFICES ASSUME NEW u \in Thread, pc'[u] \in {"put", "judge"},
                      result'[u] = "success", served'[u]
               PROVE  Holds(u, chunk[u])'
    BY ZenonT(30) DEF Arrived
  <2>1. u # t BY <1>7, ZenonT(30) DEF Receive, thread
  <2>2. buffer'[u] = buffer[u] BY <1>7, <2>1, ZenonT(30) DEF Receive, TypeOK, Pointed
  <2> QED BY <1>7, <2>2, ZenonT(30) DEF Receive, thread, Arrived, Holds
<1>8. ASSUME NEW t \in Thread, Complete(t) PROVE Arrived'
  BY <1>8 DEF Complete, TypeOK, InUse, Placed, Using, Pointed, RetryStartsOver, Arrived, Holds
<1>9. ASSUME NEW t \in Thread, NEW error \in {"netfail", "failed"}, Fails(t, error) PROVE Arrived'
  BY <1>9 DEF Fails, TypeOK, InUse, Placed, Using, Pointed, RetryStartsOver, Arrived, Holds
<1>10. ASSUME NEW t \in Thread, ConnPut(t) PROVE Arrived'
  BY <1>10 DEF ConnPut, data, TypeOK, InUse, Placed, Using, Pointed, RetryStartsOver, Arrived, Holds
<1>11. ASSUME NEW t \in Thread, Retry(t) PROVE Arrived'
  <2>1. CASE tries[t] + 1 < TRANSPORT_TRIES
    BY <1>11, <2>1 DEF Retry, data, TypeOK, Arrived, Holds
  <2>2. CASE Return(t, "netfail")
    BY <1>11, <2>2, ZenonT(30) DEF Retry, Return, TypeOK, Arrived, Holds
  <2> QED BY <1>11, <2>1, <2>2, ZenonT(30) DEF Retry
<1>12. ASSUME NEW t \in Thread, GivesUp(t) PROVE Arrived'
  BY <1>12 DEF GivesUp, Return, TypeOK, InUse, Placed, Using, Pointed, RetryStartsOver, Arrived, Holds
<1>13. ASSUME NEW t \in Thread, Judge(t) PROVE Arrived'
  BY <1>13 DEF Judge, Return, TypeOK, InUse, Placed, Using, Pointed, RetryStartsOver, Arrived, Holds
<1> QED BY <1>1, <1>2, <1>3, <1>4, <1>5, <1>6, <1>7,
           <1>8, <1>9, <1>10, <1>11, <1>12, <1>13, ZenonT(30) DEF Next, Step

\* A buffer that was handed back is written by nobody else.
LEMMA FetchedStep == TypeOK /\ InUse /\ Placed /\ Pointed /\ FetchedStays /\ [Next]_vars => FetchedStays'
<1> SUFFICES ASSUME TypeOK /\ InUse /\ Placed /\ Pointed /\ FetchedStays, [Next]_vars PROVE FetchedStays' OBVIOUS
<1> USE TransportAssumption
<1>1. CASE UNCHANGED vars BY <1>1 DEF vars, thread, data, TypeOK, InUse, Placed, Using, Pointed, FetchedStays, Holds
<1>2. ASSUME NEW t \in Thread, NEW c \in Chunk, Fetch(t, c) PROVE FetchedStays'
  BY <1>2 DEF Fetch, TypeOK, FetchedStays, Holds
<1>3. ASSUME NEW t \in Thread, ConnGet(t) PROVE FetchedStays'
  BY <1>3 DEF ConnGet, data, TypeOK, InUse, Placed, Using, Pointed, FetchedStays, Holds
<1>4. ASSUME NEW t \in Thread, AllocFails(t) PROVE FetchedStays'
  BY <1>4 DEF AllocFails, Return, TypeOK, FetchedStays, Holds
<1>5. ASSUME NEW t \in Thread, SetoptFails(t) PROVE FetchedStays'
  BY <1>5 DEF SetoptFails, data, TypeOK, FetchedStays, Holds
<1>6. ASSUME NEW t \in Thread, Setup(t) PROVE FetchedStays'
  BY <1>6 DEF Setup, TypeOK, FetchedStays, Holds
<1>7. ASSUME NEW t \in Thread, Receive(t) PROVE FetchedStays'
  BY <1>7 DEF Receive, thread, TypeOK, InUse, Placed, Using, Pointed, FetchedStays, Holds
<1>8. ASSUME NEW t \in Thread, Complete(t) PROVE FetchedStays'
  BY <1>8 DEF Complete, TypeOK, FetchedStays, Holds
<1>9. ASSUME NEW t \in Thread, NEW error \in {"netfail", "failed"}, Fails(t, error) PROVE FetchedStays'
  BY <1>9 DEF Fails, TypeOK, FetchedStays, Holds
<1>10. ASSUME NEW t \in Thread, ConnPut(t) PROVE FetchedStays'
  BY <1>10 DEF ConnPut, data, TypeOK, InUse, Placed, Using, Pointed, FetchedStays, Holds
<1>11. ASSUME NEW t \in Thread, Retry(t) PROVE FetchedStays'
  BY <1>11 DEF Retry, Return, data, TypeOK, InUse, Placed, Using, Pointed, FetchedStays, Holds
<1>12. ASSUME NEW t \in Thread, GivesUp(t) PROVE FetchedStays'
  BY <1>12 DEF GivesUp, Return, TypeOK, FetchedStays, Holds
<1>13. ASSUME NEW t \in Thread, Judge(t) PROVE FetchedStays'
  BY <1>13 DEF Judge, Return, TypeOK, FetchedStays, Holds
<1> QED BY <1>1, <1>2, <1>3, <1>4, <1>5, <1>6, <1>7,
           <1>8, <1>9, <1>10, <1>11, <1>12, <1>13, ZenonT(30) DEF Next, Step

\* The inductive invariant of the transport.
THEOREM Invariance == Spec => []IInv
<1>1. IInv /\ [Next]_vars => IInv'
  BY TypeOKStep, InUseStep, PlacedStep, FewMadeStep, PointedStep, RetryStep,
     ArrivedStep, FetchedStep, ZenonT(30) DEF IInv
<1> QED BY InitIInv, <1>1, PTL DEF Spec

\* transport_fetch_chunk(): a chunk that was handed back stays in the caller's
\* buffer, however many threads share the handles.
THEOREM FetchedIsKept == Spec => []FetchedStays
<1>1. IInv => FetchedStays BY ZenonT(30) DEF IInv
<1> QED BY Invariance, <1>1, PTL

\* transport_get(): each attempt of the retry loop starts over, and a tag mismatch
\* is the server's.
THEOREM RetriesStartOver == Spec => []RetryStartsOver
<1>1. IInv => RetryStartsOver BY ZenonT(30) DEF IInv
<1> QED BY Invariance, <1>1, PTL

\* transport_conn_get() and transport_conn_put(): no handle is lost or shared, and
\* there are no more of them than threads.
THEOREM HandlesAreConserved == Spec => []HandlesConserved
<1>1. IInv => HandlesConserved
  <2> SUFFICES ASSUME IInv PROVE HandlesConserved OBVIOUS
  <2>1. ASSUME NEW h \in made
        PROVE  Cardinality({t \in Thread : conn[t] = h})
                 + Cardinality({i \in DOMAIN conns : conns[i] = h}) = 1
    <3> DEFINE T == {t \in Thread : conn[t] = h}
               I == {i \in DOMAIN conns : conns[i] = h}
    <3>1. h # None BY TransportAssumption, ZenonT(30) DEF IInv, TypeOK
    <3>2. CASE \E t \in Thread : conn[t] = h
      <4>1. PICK t \in Thread : conn[t] = h BY <3>2, ZenonT(30)
      <4>2. T = {t} BY <3>1, <4>1 DEF IInv, Placed
      <4>3. I = {} BY <4>1 DEF IInv, Placed
      <4>4. Cardinality(T) = 1 BY <4>2, FS_Singleton, ZenonT(30)
      <4>5. Cardinality(I) = 0 BY <4>3, FS_EmptySet, ZenonT(30)
      <4> QED BY <4>4, <4>5
    <3>3. CASE \E i \in DOMAIN conns : conns[i] = h
      <4>1. PICK i \in DOMAIN conns : conns[i] = h BY <3>3, ZenonT(30)
      <4>2. I = {i} BY <4>1 DEF IInv, Placed
      <4>3. T = {} BY <4>1, ZenonT(30) DEF IInv, Placed
      <4>4. Cardinality(I) = 1 BY <4>2, FS_Singleton, ZenonT(30)
      <4>5. Cardinality(T) = 0 BY <4>3, FS_EmptySet, ZenonT(30)
      <4> QED BY <4>4, <4>5
    <3> QED BY <3>2, <3>3, ZenonT(30) DEF IInv, Placed
  <2> QED BY <2>1, ZenonT(30) DEF HandlesConserved, IInv, FewMade
<1> QED BY Invariance, <1>1, PTL

=============================================================================
