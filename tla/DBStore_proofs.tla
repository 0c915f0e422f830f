-------------------------- MODULE DBStore_proofs --------------------------
(***************************************************************************)
(* Proofs about DBStore for any number of processes, of threads in each of *)
(* them, of objects, calls and crashes: the transactions of SQLite, as     *)
(* DBToken uses them, lose no count and separate no PIN from its flag.     *)
(***************************************************************************)
EXTENDS DBStore, TLAPS

\* The constants as they are.
LEMMA Empties ==
  /\ NoData \in Data /\ NoRow \in Row /\ NoObject \in DBObject /\ NewObject \in DBObject
  /\ NoConn \in [tx : {"none", "ro", "rw"}, data : Data] /\ NoConn.tx = "none"
  /\ NoCall \in CallType /\ CallOK(NoCall) /\ NoCall.phase \notin InTx
<1>1. NoRow \in Row
  BY DEF NoRow, Row
<1>2. NoData \in Data
  BY <1>1, BoundAssumption DEF NoData, Data
<1>3. Nothing \in Cached
  BY DEF Nothing, Cached
<1>4. NoObject \in DBObject /\ NewObject \in DBObject
  BY <1>3 DEF NoObject, NewObject, DBObject
<1>5. NoConn \in [tx : {"none", "ro", "rw"}, data : Data] /\ NoConn.tx = "none"
  BY <1>2 DEF NoConn
<1>6. NoCall \in CallType /\ CallOK(NoCall) /\ NoCall.phase \notin InTx
  BY DEF NoCall, CallType, CallOps, Phases, NoKnown, CallOK, InTx
<1> QED BY <1>1, <1>2, <1>4, <1>5, <1>6

\* What the invariant says of the DBObjects.
ObjectsOK(objs) ==
  /\ objs \in [Processes -> [Objects -> DBObject]]
  /\ \A p \in Processes, o \in Objects :
       /\ ~ objs[p][o].trans => objs[p][o].changes = Nothing
       /\ objs[p][o].known => db.row[o].state # "unborn"

\* A step of a thread that is not in a transaction afterwards and leaves the
\* database and the connections alone.
LEMMA QuietStep ==
  ASSUME Inv, NEW t \in Threads, NEW c \in CallType, CallOK(c), c.phase \notin InTx,
         call' = [call EXCEPT ![t] = c], UNCHANGED <<db, conn, tried, done>>,
         ObjectsOK(object')
  PROVE  Inv'
<1>1. TypeOK'
  BY DEF Inv, TypeOK, ObjectsOK
<1>2. call'[t] = c /\ \A s \in Threads : s # t => call'[s] = call[s]
  BY DEF Inv, TypeOK
<1>3. CallsOK' /\ OwnersOK' /\ TransactionsOK'
  BY <1>2 DEF Inv, CallsOK, OwnersOK, TransactionsOK
<1>4. OneWriter' /\ Snapshots' /\ NoUpdateLost'
  BY DEF Inv, OneWriter, Snapshots, NoUpdateLost
<1> QED BY <1>1, <1>3, <1>4 DEF Inv

\* The same when the transaction of its process is rolled back.
LEMMA RollbackStep ==
  ASSUME Inv, NEW t \in Threads, NEW c \in CallType, CallOK(c), c.phase \notin InTx,
         call[t].phase \in InTx,
         call' = [call EXCEPT ![t] = c], UNCHANGED <<db, tried, done>>,
         Rollback(ProcessOf[t]), ObjectsOK(object')
  PROVE  Inv'
<1> DEFINE p == ProcessOf[t]
<1>1. /\ p \in Processes /\ conn' = [conn EXCEPT ![p] = NoConn]
      /\ conn'[p] = NoConn /\ \A q \in Processes : q # p => conn'[q] = conn[q]
  BY ProcessAssumption DEF Inv, TypeOK, Rollback
<1>2. TypeOK'
  BY <1>1, Empties DEF Inv, TypeOK, ObjectsOK
<1>3. call'[t] = c /\ \A s \in Threads : s # t => call'[s] = call[s]
  BY DEF Inv, TypeOK
<1>4. \A s \in Threads : call'[s].phase \in InTx => s # t /\ ProcessOf[s] # p /\ ProcessOf[s] \in Processes
  BY <1>3, ProcessAssumption DEF Inv, OwnersOK
<1>5. CallsOK' /\ OwnersOK' /\ TransactionsOK'
  BY <1>1, <1>3, <1>4 DEF Inv, CallsOK, OwnersOK, TransactionsOK
<1>6. OneWriter' /\ Snapshots' /\ NoUpdateLost'
  BY <1>1, Empties DEF Inv, OneWriter, Snapshots, NoUpdateLost
<1> QED BY <1>2, <1>5, <1>6 DEF Inv

-----------------------------------------------------------------------------
(* The DBObjects after a step *)

LEMMA SameObjects ==
  ASSUME Inv
  PROVE  ObjectsOK(object)
BY DEF Inv, TypeOK, ObjectsOK

\* One DBObject of the process changes.
LEMMA OneObject ==
  ASSUME Inv, NEW t \in Threads, call[t].object \in Objects, NEW i \in DBObject,
         ~ i.trans => i.changes = Nothing, i.known => Its(t).known, Becomes(t, i)
  PROVE  ObjectsOK(object')
<1> DEFINE p == ProcessOf[t]
           o == call[t].object
<1>1. p \in Processes /\ object \in [Processes -> [Objects -> DBObject]]
  BY ProcessAssumption DEF Inv, TypeOK
<1>2. object' = [object EXCEPT ![p] = [object[p] EXCEPT ![o] = i]]
  BY DEF Becomes
<1>3. object' \in [Processes -> [Objects -> DBObject]]
  BY <1>1, <1>2
<1>4. /\ object'[p][o] = i
      /\ \A q \in Processes, u \in Objects : q # p \/ u # o => object'[q][u] = object[q][u]
  BY <1>1, <1>2
<1>5. i.known => db.row[o].state # "unborn"
  BY <1>1 DEF Its, Inv, TypeOK
<1>6. ASSUME NEW q \in Processes, NEW u \in Objects
      PROVE  /\ ~ object'[q][u].trans => object'[q][u].changes = Nothing
             /\ object'[q][u].known => db.row[u].state # "unborn"
  <2>1. CASE q = p /\ u = o
    BY <2>1, <1>4, <1>5
  <2>2. CASE q # p \/ u # o
    BY <2>2, <1>4 DEF Inv, TypeOK
  <2> QED BY <2>1, <2>2
<1> QED BY <1>3, <1>6 DEF ObjectsOK

\* What getAttributeDB and setAttribute leave in a DBObject.
LEMMA Its_OK ==
  ASSUME Inv, NEW t \in Threads, call[t].object \in Objects
  PROVE  /\ Its(t) \in DBObject /\ (~ Its(t).trans => Its(t).changes = Nothing)
         /\ View(ProcessOf[t]) \in Data /\ ItsRow(t) \in Row
<1>1. ProcessOf[t] \in Processes
  BY ProcessAssumption
<1>2. View(ProcessOf[t]) \in Data
  BY <1>1 DEF Inv, TypeOK, View
<1> QED BY <1>1, <1>2 DEF Inv, TypeOK, Its, ItsRow, Data

LEMMA Remembered ==
  ASSUME NEW i \in DBObject, ~ i.trans => i.changes = Nothing,
         NEW a \in Attributes, NEW v \in Values \union {Absent}
  PROVE  /\ Remember(i, a, v) \in DBObject
         /\ ~ Remember(i, a, v).trans => Remember(i, a, v).changes = Nothing
         /\ Remember(i, a, v).known = i.known
<1>1. i.changes \in Cached /\ i.cache \in Cached
  BY DEF DBObject
<1>2. [i.changes EXCEPT ![a] = v] \in Cached /\ [i.cache EXCEPT ![a] = v] \in Cached
  BY <1>1 DEF Cached
<1>3. CASE i.trans
  <2>1. Remember(i, a, v) = [i EXCEPT !.changes = [i.changes EXCEPT ![a] = v]]
    BY <1>3 DEF Remember, DBObject
  <2> QED BY <2>1, <1>2, <1>3 DEF DBObject
<1>4. CASE ~ i.trans
  <2>1. Remember(i, a, v) = [i EXCEPT !.cache = [i.cache EXCEPT ![a] = v]]
    BY <1>4 DEF Remember, DBObject
  <2> QED BY <2>1, <1>2, <1>4 DEF DBObject
<1> QED BY <1>3, <1>4

LEMMA NoticedOK ==
  ASSUME NEW i \in DBObject, ~ i.trans => i.changes = Nothing,
         NEW a \in Attributes, NEW row \in Row
  PROVE  /\ Noticed(i, row, a) \in DBObject
         /\ ~ Noticed(i, row, a).trans => Noticed(i, row, a).changes = Nothing
         /\ Noticed(i, row, a).known = i.known
<1>1. accessAttribute(row, a) \in Values \union {Absent}
  BY DEF accessAttribute, Row
<1> QED BY <1>1, Remembered DEF Noticed
-----------------------------------------------------------------------------
(* Steps that leave the database and the connections alone *)

LEMMA Entering ==
  ASSUME Inv, NEW t \in Threads, NEW c \in CallType, CallOK(c), c.phase \notin InTx, Enter(t, c)
  PROVE  Inv'
BY SameObjects, QuietStep DEF Enter, History, ObjectsOK

LEMMA CallsStep ==
  ASSUME Inv, NEW t \in Threads, Calls(t)
  PROVE  Inv'
<1> USE DEF CallType, CallOps, TokenOps, Phases, InTx, CallOK, NoCall, NoKnown, Call
<1>1. ASSUME NEW o \in Objects, C_GetAttributeValue(t, o) PROVE Inv'
  BY <1>1, Entering DEF C_GetAttributeValue, OnObject
<1>2. ASSUME NEW o \in Objects, C_SetAttributeValue(t, o) PROVE Inv'
  BY <1>2, Entering DEF C_SetAttributeValue, OnObject
<1>3. ASSUME NEW o \in Objects, C_DestroyObject(t, o) PROVE Inv'
  BY <1>3, Entering DEF C_DestroyObject
<1>4. CASE C_CreateObject(t)
  BY <1>4, Entering DEF C_CreateObject
<1>5. CASE getObjects(t)
  BY <1>5, Entering DEF getObjects
<1>6. ASSUME NEW op \in TokenFunctions, TokenFunction(t, op) PROVE Inv'
  <2>1. op \in TokenOps
    BY FunctionAssumption
  <2>2. CASE op \in {"updateLocalPIN", "setTokenFlags"}
    BY <2>2, <1>6, Entering DEF TokenFunction
  <2>3. CASE op = "resetToken"
    BY <2>3, <1>6, Entering DEF TokenFunction
  <2>4. CASE op \in TokenOps \ {"updateLocalPIN", "setTokenFlags", "resetToken"}
    BY <2>4, <1>6, Entering DEF TokenFunction
  <2> QED BY <2>1, <2>2, <2>3, <2>4
<1> QED BY <1>1, <1>2, <1>3, <1>4, <1>5, <1>6 DEF Calls

LEMMA InitialisedStep ==
  ASSUME Inv, NEW t \in Threads, Initialised(t)
  PROVE  Inv'
<1> DEFINE c == [call[t] EXCEPT !.phase = IF call[t].op = "get" THEN "read" ELSE "start"]
<1>1. call[t] \in CallType /\ CallOK(call[t]) /\ call[t].phase = "init"
  BY DEF Inv, TypeOK, CallsOK, Initialised
<1>2. c \in CallType /\ CallOK(c) /\ c.phase \notin InTx
  BY <1>1 DEF CallType, CallOK, InTx, Phases
<1>3. call' = [call EXCEPT ![t] = c]
  BY DEF Initialised, Phase, Inv, TypeOK
<1>4. UNCHANGED <<db, conn, object, tried, done>>
  BY DEF Initialised, History
<1> HIDE DEF c
<1> QED BY <1>2, <1>3, <1>4, SameObjects, QuietStep DEF ObjectsOK

LEMMA getTokenDataStep ==
  ASSUME Inv, NEW t \in Threads, getTokenData(t)
  PROVE  Inv'
<1> DEFINE data == View(ProcessOf[t])
           c == [call[t] EXCEPT !.phase = "start", !.known = [local |-> data.local, flag |-> data.flag]]
<1>1. call[t] \in CallType /\ CallOK(call[t]) /\ call[t].phase = "know"
  BY DEF Inv, TypeOK, CallsOK, getTokenData
<1>2. data \in Data
  BY ProcessAssumption DEF Inv, TypeOK, View
<1>3. c \in CallType /\ CallOK(c) /\ c.phase \notin InTx
  <2>1. [local |-> data.local, flag |-> data.flag] \in [local : Nat, flag : BOOLEAN]
    BY <1>2 DEF Data
  <2> HIDE DEF data
  <2> QED BY <1>1, <2>1 DEF CallType, CallOK, InTx, Phases
<1>4. call' = [call EXCEPT ![t] = c]
  BY DEF getTokenData, Inv, TypeOK
<1>5. UNCHANGED <<db, conn, object, tried, done>>
  BY DEF getTokenData, History
<1> HIDE DEF c
<1> QED BY <1>3, <1>4, <1>5, SameObjects, QuietStep DEF ObjectsOK

\* A call that returns.
LEMMA ReturnStep ==
  ASSUME Inv, NEW t \in Threads, Return(t), UNCHANGED <<db, conn, tried, done>>, ObjectsOK(object')
  PROVE  Inv'
BY Empties, QuietStep DEF Return

LEMMA loadTemplateStep ==
  ASSUME Inv, NEW t \in Threads, NEW a \in Attributes, loadTemplate(t, a)
  PROVE  Inv'
<1>1. call[t].object \in Objects
  BY DEF loadTemplate, Inv, CallsOK, CallOK
<1> DEFINE i == Noticed(Its(t), ItsRow(t), a)
<1>2. i \in DBObject /\ (~ i.trans => i.changes = Nothing) /\ i.known = Its(t).known
  BY <1>1, Its_OK, NoticedOK
<1>3. Becomes(t, i) /\ Return(t) /\ UNCHANGED <<db, conn, tried, done>>
  BY DEF loadTemplate
<1> HIDE DEF i
<1> QED BY <1>1, <1>2, <1>3, OneObject, ReturnStep

\* A DBObject whose transaction begins, or ends without a commit.
LEMMA TransChanged ==
  ASSUME Inv, NEW t \in Threads, call[t].object \in Objects, NEW b \in BOOLEAN,
         Becomes(t, [Its(t) EXCEPT !.trans = b, !.changes = Nothing])
  PROVE  ObjectsOK(object')
<1> DEFINE i == [Its(t) EXCEPT !.trans = b, !.changes = Nothing]
<1>1. Its(t) \in DBObject
  BY Its_OK
<1>2. i \in DBObject /\ (~ i.trans => i.changes = Nothing) /\ i.known = Its(t).known
  BY <1>1 DEF DBObject, Nothing, Cached
<1>3. Becomes(t, i)
  OBVIOUS
<1> HIDE DEF i
<1> QED BY <1>2, <1>3, OneObject

\* CleanUp: the next object of resetToken, or the token object.
LEMMA CleanedUp ==
  ASSUME NEW t, NEW todo \in SUBSET Objects, CleanUp(t, todo)
  PROVE  \E c \in CallType : CallOK(c) /\ c.phase \notin InTx /\ call' = [call EXCEPT ![t] = c]
<1> USE DEF CallType, CallOps, TokenOps, Phases, InTx, CallOK, NoCall, NoKnown
<1>1. CASE call' = [call EXCEPT ![t] = [NoCall EXCEPT !.op = "resetToken", !.phase = "start"]]
  BY <1>1
<1>2. ASSUME NEW o \in todo,
             call' = [call EXCEPT ![t] = [NoCall EXCEPT !.op = "destroy", !.phase = "start",
                                           !.object = o, !.todo = todo \ {o}, !.reset = TRUE]]
      PROVE  \E c \in CallType : CallOK(c) /\ c.phase \notin InTx /\ call' = [call EXCEPT ![t] = c]
  BY <1>2
<1> QED BY <1>1, <1>2 DEF CleanUp

LEMMA startTransaction_FailsStep ==
  ASSUME Inv, NEW t \in Threads, startTransaction_Fails(t)
  PROVE  Inv'
<1>1. UNCHANGED <<db, conn, tried, done>>
  BY DEF startTransaction_Fails, History
<1>2. ObjectsOK(object')
  <2>1. CASE Lasting(t) /\ ~ Its(t).trans
    <3>1. call[t].object \in Objects
      BY <2>1 DEF Lasting, Inv, CallsOK, CallOK
    <3> QED BY <2>1, <3>1, TransChanged DEF startTransaction_Fails
  <2>2. CASE ~ (Lasting(t) /\ ~ Its(t).trans)
    BY <2>2, SameObjects DEF startTransaction_Fails, ObjectsOK
  <2> QED BY <2>1, <2>2
<1>3. CASE CleanUp(t, {})
  <2>1. PICK c \in CallType : CallOK(c) /\ c.phase \notin InTx /\ call' = [call EXCEPT ![t] = c]
    BY <1>3, CleanedUp
  <2> QED BY <1>1, <1>2, <2>1, QuietStep
<1>4. CASE Return(t)
  BY <1>1, <1>2, <1>4, ReturnStep
<1> QED BY <1>3, <1>4 DEF startTransaction_Fails
-----------------------------------------------------------------------------
(* Transactions that are rolled back *)

LEMMA RolledBack ==
  ASSUME Inv, NEW t \in Threads, call[t].phase \in InTx, Return(t),
         UNCHANGED <<db, tried, done>>, Rollback(ProcessOf[t]), ObjectsOK(object')
  PROVE  Inv'
BY Empties, RollbackStep DEF Return

LEMMA updateLocalPIN_NotExpectedStep ==
  ASSUME Inv, NEW t \in Threads, updateLocalPIN_NotExpected(t)
  PROVE  Inv'
<1>1. call[t].phase \in InTx
  BY DEF updateLocalPIN_NotExpected, InTx
<1> QED BY <1>1, SameObjects, RolledBack DEF updateLocalPIN_NotExpected, History, ObjectsOK

LEMMA abortTransactionStep ==
  ASSUME Inv, NEW t \in Threads, abortTransaction(t)
  PROVE  Inv'
<1>1. call[t].phase \in InTx /\ call[t].object \in Objects
  BY DEF abortTransaction, InTx, Inv, CallsOK, CallOK
<1>2. ObjectsOK(object')
  BY <1>1, TransChanged DEF abortTransaction
<1> QED BY <1>1, <1>2, RolledBack DEF abortTransaction, History

LEMMA commitTransaction_FailsStep ==
  ASSUME Inv, NEW t \in Threads, commitTransaction_Fails(t)
  PROVE  Inv'
<1>1. call[t].phase \in InTx
  BY DEF commitTransaction_Fails, MayCommit, InTx
<1>2. CASE call[t].op \in {"set", "list"}
  BY <1>2, SameObjects, ReturnStep DEF commitTransaction_Fails, History, ObjectsOK
<1>3. CASE call[t].op \notin {"set", "list"}
  <2>1. ObjectsOK(object')
    <3>1. CASE Lasting(t)
      <4>1. call[t].object \in Objects
        BY <3>1 DEF Lasting, Inv, CallsOK, CallOK
      <4> QED BY <1>3, <3>1, <4>1, TransChanged DEF commitTransaction_Fails
    <3>2. CASE ~ Lasting(t)
      BY <1>3, <3>2, SameObjects DEF commitTransaction_Fails, ObjectsOK
    <3> QED BY <3>1, <3>2
  <2> QED BY <1>1, <1>3, <2>1, RolledBack DEF commitTransaction_Fails, History
<1> QED BY <1>2, <1>3
-----------------------------------------------------------------------------
(* Transactions that begin *)

LEMMA startTransactionStep ==
  ASSUME Inv, NEW t \in Threads, startTransaction(t)
  PROVE  Inv'
<1> DEFINE p == ProcessOf[t]
           c == [call[t] EXCEPT !.phase = "body"]
           n == [tx |-> Access(t), data |-> db]
<1>1. /\ call[t] \in CallType /\ CallOK(call[t]) /\ call[t].phase = "start"
      /\ p \in Processes /\ conn[p].tx = "none" /\ CanBegin(p, Access(t))
  BY ProcessAssumption DEF Inv, TypeOK, CallsOK, startTransaction, inTransaction, Begin
<1>2. UNCHANGED <<db, tried, done>>
  BY DEF startTransaction, History
<1>3. ObjectsOK(object')
  <2>1. CASE Lasting(t)
    <3>1. call[t].object \in Objects
      BY <2>1 DEF Lasting, Inv, CallsOK, CallOK
    <3> QED BY <2>1, <3>1, TransChanged DEF startTransaction
  <2>2. CASE ~ Lasting(t)
    BY <2>2, SameObjects DEF startTransaction, ObjectsOK
  <2> QED BY <2>1, <2>2
<1>4. n \in [tx : {"none", "ro", "rw"}, data : Data] /\ n.data = db /\ n.tx \in {"ro", "rw"}
      /\ (n.tx = "rw" => NobodyElse(p, {"rw"})) /\ (call[t].op # "list" => n.tx = "rw")
  BY <1>1 DEF Inv, TypeOK, Access, CanBegin
<1>5. /\ conn' = [conn EXCEPT ![p] = n] /\ conn'[p] = n
      /\ \A q \in Processes : q # p => conn'[q] = conn[q]
  BY <1>1 DEF startTransaction, Begin, Inv, TypeOK
<1>6. /\ call' = [call EXCEPT ![t] = c] /\ call'[t] = c
      /\ \A s \in Threads : s # t => call'[s] = call[s]
  BY DEF startTransaction, Phase, Inv, TypeOK
<1>7. /\ c \in CallType /\ c.phase = "body" /\ c.op = call[t].op /\ c.object = call[t].object
      /\ c.todo = call[t].todo /\ c.reset = call[t].reset
  BY <1>1 DEF CallType, Phases
<1>8. CallOK(c)
  BY <1>1, <1>7 DEF CallOK, InTx
<1> HIDE DEF c, n
<1>9. TypeOK'
  <2>1. conn' \in [Processes -> [tx : {"none", "ro", "rw"}, data : Data]] /\ call' \in [Threads -> CallType]
    BY <1>4, <1>5, <1>6, <1>7 DEF Inv, TypeOK
  <2> QED BY <2>1, <1>2, <1>3 DEF Inv, TypeOK, ObjectsOK
<1>10. CallsOK'
  BY <1>6, <1>8 DEF Inv, CallsOK
<1>11. OneWriter' /\ Snapshots' /\ NoUpdateLost'
  BY <1>2, <1>4, <1>5 DEF Inv, OneWriter, Snapshots, NoUpdateLost, NobodyElse
<1>12. \A s \in Threads : s # t /\ call[s].phase \in InTx => ProcessOf[s] # p
  BY <1>1 DEF Inv, OwnersOK
<1>13. OwnersOK'
  BY <1>4, <1>5, <1>6, <1>7, <1>12, ProcessAssumption DEF Inv, OwnersOK
<1>14. Ahead(c, db, db)
  BY <1>7 DEF Ahead
<1>15. TransactionsOK'
  BY <1>2, <1>4, <1>5, <1>6, <1>12, <1>14, ProcessAssumption DEF Inv, TransactionsOK
<1> QED BY <1>9, <1>10, <1>11, <1>13, <1>15 DEF Inv
-----------------------------------------------------------------------------
(* Statements of a transaction *)

\* No object of the committed data is gone from the transaction's.
Keeps(d, e) == \A o \in Objects : e.row[o].state # "unborn" => d.row[o].state # "unborn"

\* A statement of a call in its own transaction.
LEMMA OwnWrite ==
  ASSUME Inv, NEW t \in Threads, call[t].phase \in InTx, call[t].op # "list",
         NEW d \in Data, Write(ProcessOf[t], d),
         NEW c \in CallType, CallOK(c), c.phase \in InTx, c.op # "list",
         call' = [call EXCEPT ![t] = c], UNCHANGED <<tried, done>>, ObjectsOK(object'),
         Ahead(c, d, db), Keeps(d, db)
  PROVE  Inv'
<1> DEFINE p == ProcessOf[t]
           n == [tx |-> "rw", data |-> d]
<1>1. p \in Processes /\ conn[p].tx = "rw"
  BY ProcessAssumption DEF Inv, OwnersOK
<1>2. /\ UNCHANGED db /\ conn' = [conn EXCEPT ![p] = n] /\ conn'[p] = n
      /\ \A q \in Processes : q # p => conn'[q] = conn[q]
  BY <1>1 DEF Write, inTransaction, Inv, TypeOK
<1>3. call'[t] = c /\ \A s \in Threads : s # t => call'[s] = call[s]
  BY DEF Inv, TypeOK
<1>4. n \in [tx : {"none", "ro", "rw"}, data : Data] /\ n.tx = "rw" /\ n.data = d
  OBVIOUS
<1> HIDE DEF n
<1>5. TypeOK'
  BY <1>2, <1>4 DEF Inv, TypeOK, ObjectsOK
<1>6. CallsOK'
  BY <1>3 DEF Inv, CallsOK
<1>7. OneWriter' /\ Snapshots' /\ NoUpdateLost'
  BY <1>1, <1>2, <1>4 DEF Inv, OneWriter, Snapshots, NoUpdateLost, Keeps
<1>8. \A s \in Threads : s # t /\ call[s].phase \in InTx => ProcessOf[s] # p
  BY DEF Inv, OwnersOK
<1>9. OwnersOK'
  BY <1>1, <1>2, <1>3, <1>4, <1>8, ProcessAssumption DEF Inv, OwnersOK
<1>10. TransactionsOK'
  BY <1>2, <1>3, <1>4, <1>8, ProcessAssumption DEF Inv, TransactionsOK
<1> QED BY <1>5, <1>6, <1>7, <1>9, <1>10 DEF Inv

\* The data a call in its transaction works on.
LEMMA OwnView ==
  ASSUME Inv, NEW t \in Threads, call[t].phase \in InTx
  PROVE  /\ ProcessOf[t] \in Processes /\ View(ProcessOf[t]) = conn[ProcessOf[t]].data
         /\ View(ProcessOf[t]) \in Data /\ db \in Data
         /\ Ahead(call[t], View(ProcessOf[t]), db) /\ Keeps(View(ProcessOf[t]), db)
         /\ call[t] \in CallType /\ CallOK(call[t])
<1>1. ProcessOf[t] \in Processes /\ conn[ProcessOf[t]].tx # "none"
  BY ProcessAssumption DEF Inv, OwnersOK
<1>2. View(ProcessOf[t]) = conn[ProcessOf[t]].data
  BY <1>1 DEF View
<1> QED BY <1>1, <1>2 DEF Inv, TypeOK, TransactionsOK, Snapshots, CallsOK, Keeps

\* A statement on the token object.
LEMMA TokenStep ==
  ASSUME Inv, NEW t \in Threads, NEW op \in TokenOps, NEW phase \in InTx, NEW next \in InTx, NEW d,
         ChangeToken(t, op, phase, d, next), d \in Data,
         d.row = View(ProcessOf[t]).row,
         CallOK([call[t] EXCEPT !.phase = next]), Ahead([call[t] EXCEPT !.phase = next], d, db)
  PROVE  Inv'
<1> DEFINE c == [call[t] EXCEPT !.phase = next]
<1>1. call[t].phase \in InTx /\ call[t].op = op /\ op # "list"
  BY DEF ChangeToken, TokenOps
<1>2. c \in CallType /\ c.phase = next /\ c.op = op
  BY <1>1, OwnView DEF CallType, InTx, Phases
<1>3. Keeps(d, db)
  BY <1>1, OwnView DEF Keeps
<1>4. call' = [call EXCEPT ![t] = c] /\ Write(ProcessOf[t], d) /\ UNCHANGED <<object, tried, done>>
  BY DEF ChangeToken, Phase, Inv, TypeOK
<1>5. ObjectsOK(object')
  BY <1>4, SameObjects DEF ObjectsOK
<1>6. CallOK(c) /\ Ahead(c, d, db)
  OBVIOUS
<1> HIDE DEF c
<1> QED BY <1>1, <1>2, <1>3, <1>4, <1>5, <1>6, OwnWrite

LEMMA advancePinPolicyStep ==
  ASSUME Inv, NEW t \in Threads, NEW success \in BOOLEAN, advancePinPolicy(t, success)
  PROVE  Inv'
<1> DEFINE data == View(ProcessOf[t])
           d == [data EXCEPT !.left = IF @ = 0 THEN 0 ELSE IF success THEN MaxTries ELSE @ - 1]
           next == IF data.left = 0 THEN "done" ELSE IF success THEN "right" ELSE "wrong"
           c == [call[t] EXCEPT !.phase = next]
<1>1. /\ call[t].op = "advancePinPolicy" /\ call[t].phase = "body"
      /\ ChangeToken(t, "advancePinPolicy", "body", d, next)
  BY DEF advancePinPolicy, ChangeToken
<1>2. /\ data \in Data /\ db \in Data /\ Ahead(call[t], data, db)
      /\ call[t] \in CallType /\ CallOK(call[t])
  BY <1>1, OwnView DEF InTx
<1>3. next \in {"done", "right", "wrong"} /\ next \in InTx
  BY DEF InTx
<1> HIDE DEF data
<1>4. d \in Data /\ d.row = data.row
  BY <1>2, BoundAssumption DEF Data
<1>5. c.phase = next /\ c.op = "advancePinPolicy" /\ c.reset = call[t].reset
  BY <1>1, <1>2 DEF CallType
<1>6. CallOK(c)
  BY <1>1, <1>2, <1>3, <1>5 DEF CallOK
<1>7. Ahead(c, d, db)
  <2>1. data.left = db.left /\ data.left \in 0..MaxTries
    BY <1>1, <1>2 DEF Ahead, Data
  <2>2. /\ d.left = IF next = "right" THEN MaxTries ELSE IF next = "wrong" THEN db.left - 1 ELSE db.left
        /\ next \in {"right", "wrong"} => db.left # 0
    BY <1>2, <2>1, BoundAssumption DEF Data
  <2>3. d.journal = data.journal /\ d.local = data.local /\ d.userpin = data.userpin
    BY <1>2 DEF Data
  <2>4. data.journal = db.journal /\ data.local = db.local /\ data.userpin = db.userpin
    BY <1>1, <1>2 DEF Ahead
  <2> HIDE DEF c, d, next
  <2> QED BY <1>5, <2>2, <2>3, <2>4 DEF Ahead
<1> HIDE DEF d, next
<1> QED BY <1>1, <1>3, <1>4, <1>6, <1>7, TokenStep DEF TokenOps, InTx, data

\* The other functions change one field, or two.
LEMMA TokenFunctionsStep ==
  ASSUME Inv, NEW t \in Threads, NEW op \in TokenOps \ {"advancePinPolicy"},
         NEW phase \in InTx, NEW next \in InTx, NEW d,
         ChangeToken(t, op, phase, d, next), d \in Data,
         d.row = View(ProcessOf[t]).row, d.left = View(ProcessOf[t]).left,
         next \notin {"right", "wrong"}, next = "flags" => op \in {"setUserPIN", "resetToken"},
         d.journal = IF op = "advanceJournal" /\ next = "done"
                     THEN View(ProcessOf[t]).journal + 1 ELSE View(ProcessOf[t]).journal,
         op = "advanceJournal" => phase = "body",
         d.local = IF op = "updateLocalPIN" /\ next = "done"
                   THEN View(ProcessOf[t]).local + 1
                   ELSE IF op = "resetToken" /\ next = "flags" THEN 0 ELSE View(ProcessOf[t]).local,
         op = "updateLocalPIN" => phase = "body",
         op \in {"setUserPIN", "resetToken"} =>
           \/ phase = "body" /\ next = "flags" /\ d.userpin = (op = "setUserPIN")
           \/ phase = "flags" /\ next = "done" /\ d.userpin = View(ProcessOf[t]).userpin
              /\ d.flag = (op = "setUserPIN"),
         op \notin {"setUserPIN", "resetToken"} => d.userpin = View(ProcessOf[t]).userpin
  PROVE  Inv'
<1> DEFINE data == View(ProcessOf[t])
           c == [call[t] EXCEPT !.phase = next]
<1>1. call[t].op = op /\ call[t].phase = phase
  BY DEF ChangeToken
<1>2. /\ data \in Data /\ db \in Data /\ Ahead(call[t], data, db)
      /\ call[t] \in CallType /\ CallOK(call[t])
  BY <1>1, OwnView
<1>3. c.phase = next /\ c.op = op /\ c.reset = call[t].reset /\ c.object = call[t].object
  BY <1>1, <1>2 DEF CallType
<1>4. CallOK(c)
  BY <1>1, <1>2, <1>3 DEF CallOK, TokenOps, InTx
<1>5. Ahead(c, d, db)
  <2> USE DEF TokenOps, InTx
  <2> HIDE DEF data, c
  <2>1. phase \notin {"right", "wrong"}
    BY <1>1, <1>2 DEF CallOK
  <2>2. data.left = db.left
    BY <1>1, <1>2, <2>1 DEF Ahead
  <2>3. d.left = db.left
    BY <2>2 DEF data
  <2>4. d.journal = IF op = "advanceJournal" /\ next = "done" THEN db.journal + 1 ELSE db.journal
    BY <1>1, <1>2 DEF Ahead, data
  <2>5. d.local = IF op = "updateLocalPIN" /\ next = "done" THEN db.local + 1
                  ELSE IF op = "resetToken" /\ next \in {"flags", "done"} THEN 0 ELSE db.local
    BY <1>1, <1>2 DEF Ahead, data
  <2>6. d.userpin = IF op = "setUserPIN" /\ next \in {"flags", "done"} THEN TRUE
                    ELSE IF op = "resetToken" /\ next \in {"flags", "done"} THEN FALSE ELSE db.userpin
    BY <1>1, <1>2 DEF Ahead, data
  <2> QED BY <1>3, <2>3, <2>4, <2>5, <2>6 DEF Ahead
<1> HIDE DEF c
<1>6. CallOK([call[t] EXCEPT !.phase = next]) /\ Ahead([call[t] EXCEPT !.phase = next], d, db)
  BY <1>4, <1>5 DEF c
<1> QED BY <1>6, TokenStep

LEMMA TokenSteps ==
  ASSUME Inv, NEW t \in Threads,
         advanceJournal(t) \/ updateLocalPIN(t) \/ setUserPIN(t) \/ setTokenFlags(t) \/ resetToken(t)
  PROVE  Inv'
<1> DEFINE data == View(ProcessOf[t])
<1>1. ASSUME NEW op, NEW phase \in InTx, NEW d, NEW next, ChangeToken(t, op, phase, d, next)
      PROVE  data \in Data /\ call[t] \in CallType
  BY <1>1, OwnView DEF ChangeToken
<1>2. {"body", "flags", "done"} \subseteq InTx
  BY DEF InTx
<1>3. CASE advanceJournal(t)
  <2> DEFINE d == [data EXCEPT !.journal = @ + 1]
  <2>1. ChangeToken(t, "advanceJournal", "body", d, "done") /\ data \in Data
    BY <1>1, <1>2, <1>3 DEF advanceJournal
  <2> HIDE DEF data
  <2>2. /\ d \in Data /\ d.row = data.row /\ d.left = data.left /\ d.journal = data.journal + 1
        /\ d.local = data.local /\ d.userpin = data.userpin
    BY <2>1 DEF Data
  <2> HIDE DEF d
  <2> QED BY <1>2, <2>1, <2>2, TokenFunctionsStep DEF TokenOps, data
<1>4. CASE updateLocalPIN(t)
  <2> DEFINE d == [data EXCEPT !.local = @ + 1]
  <2>1. ChangeToken(t, "updateLocalPIN", "body", d, "done") /\ data \in Data
    BY <1>1, <1>2, <1>4 DEF updateLocalPIN
  <2> HIDE DEF data
  <2>2. /\ d \in Data /\ d.row = data.row /\ d.left = data.left /\ d.journal = data.journal
        /\ d.local = data.local + 1 /\ d.userpin = data.userpin
    BY <2>1 DEF Data
  <2> HIDE DEF d
  <2> QED BY <1>2, <2>1, <2>2, TokenFunctionsStep DEF TokenOps, data
<1>5. CASE setTokenFlags(t)
  <2> DEFINE d == [data EXCEPT !.flag = call[t].known.flag]
  <2>1. ChangeToken(t, "setTokenFlags", "body", d, "done") /\ data \in Data /\ call[t] \in CallType
    BY <1>1, <1>2, <1>5 DEF setTokenFlags
  <2> HIDE DEF data
  <2>2. /\ d \in Data /\ d.row = data.row /\ d.left = data.left /\ d.journal = data.journal
        /\ d.local = data.local /\ d.userpin = data.userpin
    BY <2>1 DEF Data, CallType
  <2> HIDE DEF d
  <2> QED BY <1>2, <2>1, <2>2, TokenFunctionsStep DEF TokenOps, data
<1>6. CASE setUserPIN(t)
  <2>1. CASE ChangeToken(t, "setUserPIN", "body", [data EXCEPT !.userpin = TRUE], "flags")
    <3> DEFINE d == [data EXCEPT !.userpin = TRUE]
    <3>1. ChangeToken(t, "setUserPIN", "body", d, "flags") /\ data \in Data
      BY <1>1, <1>2, <2>1
    <3> HIDE DEF data
    <3>2. /\ d \in Data /\ d.row = data.row /\ d.left = data.left /\ d.journal = data.journal
          /\ d.local = data.local /\ d.userpin = TRUE
      BY <3>1 DEF Data
    <3> HIDE DEF d
    <3> QED BY <1>2, <3>1, <3>2, TokenFunctionsStep DEF TokenOps, data
  <2>2. CASE ChangeToken(t, "setUserPIN", "flags", [data EXCEPT !.flag = TRUE], "done")
    <3> DEFINE d == [data EXCEPT !.flag = TRUE]
    <3>1. ChangeToken(t, "setUserPIN", "flags", d, "done") /\ data \in Data
      BY <1>1, <1>2, <2>2
    <3> HIDE DEF data
    <3>2. /\ d \in Data /\ d.row = data.row /\ d.left = data.left /\ d.journal = data.journal
          /\ d.local = data.local /\ d.userpin = data.userpin /\ d.flag = TRUE
      BY <3>1 DEF Data
    <3> HIDE DEF d
    <3> QED BY <1>2, <3>1, <3>2, TokenFunctionsStep DEF TokenOps, data
  <2> QED BY <1>6, <2>1, <2>2 DEF setUserPIN
<1>7. CASE resetToken(t)
  <2>1. CASE ChangeToken(t, "resetToken", "body",
                         [data EXCEPT !.userpin = FALSE, !.local = 0], "flags")
    <3> DEFINE d == [data EXCEPT !.userpin = FALSE, !.local = 0]
    <3>1. ChangeToken(t, "resetToken", "body", d, "flags") /\ data \in Data
      BY <1>1, <1>2, <2>1
    <3> HIDE DEF data
    <3>2. /\ d \in Data /\ d.row = data.row /\ d.left = data.left /\ d.journal = data.journal
          /\ d.local = 0 /\ d.userpin = FALSE
      BY <3>1 DEF Data
    <3> HIDE DEF d
    <3> QED BY <1>2, <3>1, <3>2, TokenFunctionsStep DEF TokenOps, data
  <2>2. CASE ChangeToken(t, "resetToken", "flags", [data EXCEPT !.flag = FALSE], "done")
    <3> DEFINE d == [data EXCEPT !.flag = FALSE]
    <3>1. ChangeToken(t, "resetToken", "flags", d, "done") /\ data \in Data
      BY <1>1, <1>2, <2>2
    <3> HIDE DEF data
    <3>2. /\ d \in Data /\ d.row = data.row /\ d.left = data.left /\ d.journal = data.journal
          /\ d.local = data.local /\ d.userpin = data.userpin /\ d.flag = FALSE
      BY <3>1 DEF Data
    <3> HIDE DEF d
    <3> QED BY <1>2, <3>1, <3>2, TokenFunctionsStep DEF TokenOps, data
  <2> QED BY <1>7, <2>1, <2>2 DEF resetToken
<1> QED BY <1>3, <1>4, <1>5, <1>6, <1>7

\* The data with another row.
LEMMA AnotherRow ==
  ASSUME NEW data \in Data, NEW o \in Objects, NEW row \in Row
  PROVE  LET d == [data EXCEPT !.row[o] = row]
         IN  /\ d \in Data /\ d.row[o] = row
             /\ \A u \in Objects : u # o => d.row[u] = data.row[u]
             /\ d.left = data.left /\ d.journal = data.journal /\ d.local = data.local
             /\ d.userpin = data.userpin /\ d.flag = data.flag
<1> DEFINE f == [data.row EXCEPT ![o] = row]
           d == [data EXCEPT !.row = f]
<1>1. /\ data.row \in [Objects -> Row] /\ f \in [Objects -> Row] /\ f[o] = row
      /\ \A u \in Objects : u # o => f[u] = data.row[u]
  BY DEF Data
<1>2. d = [data EXCEPT !.row[o] = row]
  BY DEF Data
<1> HIDE DEF f
<1>3. /\ d \in Data /\ d.row = f /\ d.left = data.left /\ d.journal = data.journal
      /\ d.local = data.local /\ d.userpin = data.userpin /\ d.flag = data.flag
  BY <1>1 DEF Data
<1> HIDE DEF d
<1> QED BY <1>1, <1>2, <1>3

LEMMA RowSet ==
  ASSUME NEW row \in Row, NEW a \in Attributes, NEW v \in Values
  PROVE  SetRow(row, a, v) \in Row /\ SetRow(row, a, v).state = row.state
<1>1. [row.at EXCEPT ![a] = v] \in [Attributes -> Values \union {Absent}]
  BY DEF Row
<1>2. [row EXCEPT !.at[a] = v] = [row EXCEPT !.at = [row.at EXCEPT ![a] = v]]
  BY DEF Row
<1> QED BY <1>1, <1>2 DEF SetRow, Row

LEMMA setAttributeStep ==
  ASSUME Inv, NEW t \in Threads, NEW a \in Attributes, NEW v \in Values, setAttribute(t, a, v)
  PROVE  Inv'
<1> DEFINE p == ProcessOf[t]
           data == View(p)
           o == call[t].object
           row == SetRow(ItsRow(t), a, v)
           d == [data EXCEPT !.row[o] = row]
           i == Remember(Its(t), a, v)
<1>1. call[t].op = "set" /\ call[t].phase \in InTx /\ call[t].phase = "body" /\ o \in Objects
  BY DEF setAttribute, InTx, Inv, CallsOK, CallOK
<1>2. /\ data \in Data /\ db \in Data /\ Ahead(call[t], data, db) /\ Keeps(data, db)
      /\ call[t] \in CallType /\ CallOK(call[t])
  BY <1>1, OwnView
<1>3. ItsRow(t) = data.row[o] /\ ItsRow(t) \in Row /\ Its(t) \in DBObject
      /\ (~ Its(t).trans => Its(t).changes = Nothing)
  BY <1>1, Its_OK DEF ItsRow
<1>4. row \in Row /\ row.state = data.row[o].state
  BY <1>3, RowSet
<1>5. i \in DBObject /\ (~ i.trans => i.changes = Nothing) /\ i.known = Its(t).known
  BY <1>3, Remembered
<1>6. /\ Write(p, d) /\ Becomes(t, i) /\ UNCHANGED <<call, tried, done>>
      /\ call' = [call EXCEPT ![t] = call[t]]
  BY DEF setAttribute, Inv, TypeOK
<1> HIDE DEF row, i, data
<1>7. ObjectsOK(object')
  BY <1>1, <1>5, <1>6, OneObject
<1>8. /\ d \in Data /\ d.left = data.left /\ d.journal = data.journal /\ d.local = data.local
      /\ d.userpin = data.userpin /\ d.flag = data.flag
      /\ \A u \in Objects : d.row[u].state = data.row[u].state
  BY <1>1, <1>2, <1>4, AnotherRow
<1> HIDE DEF d
<1>9. Keeps(d, db)
  BY <1>2, <1>8 DEF Keeps
<1>10. Ahead(call[t], d, db)
  BY <1>1, <1>2, <1>8 DEF Ahead
<1> QED BY <1>1, <1>2, <1>6, <1>7, <1>8, <1>9, <1>10, OwnWrite

LEMMA insertStep ==
  ASSUME Inv, NEW t \in Threads, NEW o \in Objects, insert(t, o)
  PROVE  Inv'
<1> DEFINE p == ProcessOf[t]
           data == View(p)
           row == [data.row[o] EXCEPT !.state = "there"]
           d == [data EXCEPT !.row[o] = row]
           c == [call[t] EXCEPT !.phase = "done", !.object = o]
<1>1. call[t].op = "create" /\ call[t].phase \in InTx /\ call[t].phase = "body"
  BY DEF insert, InTx
<1>2. /\ data \in Data /\ db \in Data /\ Ahead(call[t], data, db) /\ Keeps(data, db)
      /\ call[t] \in CallType /\ CallOK(call[t])
  BY <1>1, OwnView
<1>3. call' = [call EXCEPT ![t] = c] /\ UNCHANGED <<object, tried, done>>
  BY DEF insert, Inv, TypeOK
<1>4. Write(p, [data EXCEPT !.row[o].state = "there"])
  BY DEF insert
<1> HIDE DEF data
<1>5. [data EXCEPT !.row[o].state = "there"] = d
  BY <1>2 DEF Data
<1>6. row \in Row /\ row.state = "there"
  BY <1>2 DEF Data, Row
<1> HIDE DEF row
<1>7. /\ d \in Data /\ d.left = data.left /\ d.journal = data.journal /\ d.local = data.local
      /\ d.userpin = data.userpin /\ d.flag = data.flag /\ d.row[o].state = "there"
      /\ \A u \in Objects : u # o => d.row[u] = data.row[u]
  BY <1>2, <1>6, AnotherRow
<1> HIDE DEF d
<1>8. c \in CallType /\ c.phase = "done" /\ c.op = "create" /\ c.object = o /\ c.reset = call[t].reset
  BY <1>1, <1>2 DEF CallType, Phases
<1> HIDE DEF c
<1>9. CallOK(c) /\ c.phase \in InTx
  BY <1>1, <1>2, <1>8 DEF CallOK, InTx
<1>10. Keeps(d, db)
  BY <1>2, <1>7 DEF Keeps
<1>11. Ahead(c, d, db)
  BY <1>1, <1>2, <1>7, <1>8 DEF Ahead
<1>12. ObjectsOK(object')
  BY <1>3, SameObjects DEF ObjectsOK
<1> QED BY <1>1, <1>3, <1>4, <1>5, <1>7, <1>8, <1>9, <1>10, <1>11, <1>12, OwnWrite

LEMMA removeStep ==
  ASSUME Inv, NEW t \in Threads, remove(t)
  PROVE  Inv'
<1> DEFINE p == ProcessOf[t]
           data == View(p)
           o == call[t].object
           row == IF data.row[o].state = "there" /\ Its(t).id
                  THEN [NoRow EXCEPT !.state = "deleted"] ELSE data.row[o]
           d == [data EXCEPT !.row[o] = row]
           i == [Its(t) EXCEPT !.id = FALSE]
           c == [call[t] EXCEPT !.phase = "done"]
<1>1. call[t].op = "destroy" /\ call[t].phase \in InTx /\ call[t].phase = "body" /\ o \in Objects
  BY DEF remove, InTx, Inv, CallsOK, CallOK
<1>2. /\ data \in Data /\ db \in Data /\ Ahead(call[t], data, db) /\ Keeps(data, db)
      /\ call[t] \in CallType /\ CallOK(call[t])
  BY <1>1, OwnView
<1>3. /\ call' = [call EXCEPT ![t] = c] /\ UNCHANGED <<tried, done>> /\ Becomes(t, i)
  BY DEF remove, Phase, Inv, TypeOK
<1>4. Write(p, [data EXCEPT !.row[o] = IF @.state = "there" /\ Its(t).id
                                        THEN [NoRow EXCEPT !.state = "deleted"] ELSE @])
  BY DEF remove
<1>5. Its(t) \in DBObject /\ (~ Its(t).trans => Its(t).changes = Nothing)
  BY <1>1, Its_OK
<1>6. i \in DBObject /\ (~ i.trans => i.changes = Nothing) /\ i.known = Its(t).known
  BY <1>5 DEF DBObject
<1> HIDE DEF data, i
<1>7. ObjectsOK(object')
  BY <1>1, <1>3, <1>6, OneObject
<1>8. [data EXCEPT !.row[o] = IF @.state = "there" /\ Its(t).id
                              THEN [NoRow EXCEPT !.state = "deleted"] ELSE @] = d
  BY <1>2 DEF Data
<1>9. row \in Row /\ (data.row[o].state # "unborn" => row.state # "unborn")
  <2>1. data.row[o] \in Row
    BY <1>1, <1>2 DEF Data
  <2> QED BY <2>1, Empties DEF Row
<1> HIDE DEF row
<1>10. /\ d \in Data /\ d.left = data.left /\ d.journal = data.journal /\ d.local = data.local
       /\ d.userpin = data.userpin /\ d.flag = data.flag /\ d.row[o] = row
       /\ \A u \in Objects : u # o => d.row[u] = data.row[u]
  BY <1>1, <1>2, <1>9, AnotherRow
<1> HIDE DEF d
<1>11. c \in CallType /\ c.phase = "done" /\ c.op = "destroy" /\ c.object = o
       /\ c.reset = call[t].reset /\ c.todo = call[t].todo
  BY <1>1, <1>2 DEF CallType, Phases
<1> HIDE DEF c
<1>12. CallOK(c) /\ c.phase \in InTx
  BY <1>1, <1>2, <1>11 DEF CallOK, InTx
<1>13. Keeps(d, db)
  BY <1>2, <1>9, <1>10 DEF Keeps
<1>14. Ahead(c, d, db)
  BY <1>1, <1>2, <1>10, <1>11 DEF Ahead
<1> QED BY <1>1, <1>3, <1>4, <1>7, <1>8, <1>10, <1>11, <1>12, <1>13, <1>14, OwnWrite

\* A default: in whatever transaction the connection of the process has, another
\* thread's perhaps, or in none.
Default(t, a) == [View(ProcessOf[t]) EXCEPT !.row[call[t].object] = SetRow(ItsRow(t), a, "default")]

LEMMA DefaultData ==
  ASSUME Inv, NEW t \in Threads, NEW a \in Attributes, call[t].object \in Objects
  PROVE  /\ Default(t, a) \in Data /\ View(ProcessOf[t]) \in Data
         /\ Default(t, a).left = View(ProcessOf[t]).left
         /\ Default(t, a).journal = View(ProcessOf[t]).journal
         /\ Default(t, a).local = View(ProcessOf[t]).local
         /\ Default(t, a).userpin = View(ProcessOf[t]).userpin
         /\ Default(t, a).flag = View(ProcessOf[t]).flag
         /\ \A u \in Objects : Default(t, a).row[u].state = View(ProcessOf[t]).row[u].state
<1> DEFINE data == View(ProcessOf[t])
           o == call[t].object
           row == SetRow(ItsRow(t), a, "default")
<1>1. data \in Data /\ ItsRow(t) \in Row /\ ItsRow(t) = data.row[o] /\ "default" \in Values
  BY Its_OK DEF ItsRow, Values
<1>2. row \in Row /\ row.state = data.row[o].state
  BY <1>1, RowSet
<1>3. Default(t, a) = [data EXCEPT !.row[o] = row]
  BY DEF Default
<1> HIDE DEF data, row
<1>4. /\ Default(t, a) \in Data /\ Default(t, a).row[o] = row
      /\ \A u \in Objects : u # o => Default(t, a).row[u] = data.row[u]
      /\ Default(t, a).left = data.left /\ Default(t, a).journal = data.journal
      /\ Default(t, a).local = data.local /\ Default(t, a).userpin = data.userpin
      /\ Default(t, a).flag = data.flag
  BY <1>1, <1>2, <1>3, AnotherRow
<1> QED BY <1>1, <1>2, <1>4 DEF data

LEMMA DefaultWrite ==
  ASSUME Inv, NEW t \in Threads, NEW a \in Attributes, call[t].object \in Objects,
         NEW c \in CallType, CallOK(c), c.phase \notin InTx, call[t].phase \notin InTx,
         Write(ProcessOf[t], Default(t, a)),
         call' = [call EXCEPT ![t] = c], UNCHANGED <<tried, done>>, ObjectsOK(object')
  PROVE  Inv'
<1> DEFINE p == ProcessOf[t]
           d == Default(t, a)
           data == View(p)
<1>1. /\ p \in Processes /\ d \in Data /\ data \in Data /\ CanWrite(p)
      /\ d.left = data.left /\ d.journal = data.journal /\ d.local = data.local
      /\ d.userpin = data.userpin /\ d.flag = data.flag
      /\ \A u \in Objects : d.row[u].state = data.row[u].state
  BY DefaultData, ProcessAssumption DEF Write
<1>2. call'[t] = c /\ \A s \in Threads : s # t => call'[s] = call[s]
  BY DEF Inv, TypeOK
<1>3. CallsOK' /\ call' \in [Threads -> CallType]
  BY <1>2 DEF Inv, CallsOK, TypeOK
<1>4. CASE conn[p].tx = "none"
  <2>1. db' = d /\ UNCHANGED conn /\ data = db
    BY <1>4 DEF Write, inTransaction, View
  <2>2. \A q \in Processes : conn[q].tx = "none"
    BY <1>1, <1>4 DEF CanWrite, inTransaction, NobodyElse, Inv, TypeOK
  <2>3. \A s \in Threads : call'[s].phase \notin InTx
    BY <1>2, <2>2, ProcessAssumption DEF Inv, OwnersOK
  <2> HIDE DEF d
  <2>4. TypeOK'
    BY <1>1, <1>3, <2>1 DEF Inv, TypeOK, ObjectsOK
  <2>5. OneWriter' /\ Snapshots' /\ NoUpdateLost'
    BY <1>1, <2>1, <2>2 DEF Inv, OneWriter, Snapshots, NoUpdateLost
  <2>6. OwnersOK' /\ TransactionsOK'
    BY <2>3 DEF OwnersOK, TransactionsOK
  <2> QED BY <1>3, <2>4, <2>5, <2>6 DEF Inv
<1>5. CASE conn[p].tx # "none"
  <2> DEFINE n == [tx |-> "rw", data |-> d]
  <2>1. /\ UNCHANGED db /\ conn' = [conn EXCEPT ![p] = n] /\ conn'[p] = n /\ data = conn[p].data
        /\ \A q \in Processes : q # p => conn'[q] = conn[q]
    BY <1>1, <1>5 DEF Write, inTransaction, View, Inv, TypeOK
  <2>2. \A q \in Processes \ {p} : conn[q].tx # "rw"
    BY <1>1, <1>5 DEF CanWrite, inTransaction, NobodyElse
  <2>3. n \in [tx : {"none", "ro", "rw"}, data : Data] /\ n.tx = "rw" /\ n.data = d
    BY <1>1
  <2> HIDE DEF n, d, data
  <2>4. TypeOK'
    <3>1. conn' \in [Processes -> [tx : {"none", "ro", "rw"}, data : Data]]
      BY <2>1, <2>3 DEF Inv, TypeOK
    <3> QED BY <1>3, <2>1, <3>1 DEF Inv, TypeOK, ObjectsOK
  <2>5. OneWriter' /\ Snapshots' /\ NoUpdateLost'
    <3>1. \A o \in Objects : db.row[o].state # "unborn" => d.row[o].state # "unborn"
      BY <1>1, <1>5, <2>1 DEF Inv, Snapshots
    <3> QED BY <2>1, <2>2, <2>3, <3>1 DEF Inv, OneWriter, Snapshots, NoUpdateLost
  <2>6. \A s \in Threads : call'[s].phase \in InTx => s # t /\ call'[s] = call[s] /\ ProcessOf[s] \in Processes
    BY <1>2, ProcessAssumption
  <2>7. OwnersOK'
    BY <1>1, <2>1, <2>3, <2>6 DEF Inv, OwnersOK
  <2>8. TransactionsOK'
    <3>1. SUFFICES ASSUME NEW s \in Threads, call'[s].phase \in InTx
                   PROVE  Ahead(call[s], conn'[ProcessOf[s]].data, db)
      BY <2>1, <2>6 DEF TransactionsOK
    <3>2. Ahead(call[s], conn[ProcessOf[s]].data, db)
      BY <2>6, <3>1 DEF Inv, TransactionsOK
    <3>3. CASE ProcessOf[s] # p
      BY <2>1, <2>6, <3>1, <3>2, <3>3
    <3>4. CASE ProcessOf[s] = p
      <4>1. Ahead(call[s], data, db)
        BY <2>1, <3>2, <3>4
      <4>2. call[s].op = "create" /\ call[s].phase = "done" => call[s].object \in Objects
        BY DEF Inv, CallsOK, CallOK
      <4>3. Ahead(call[s], d, db)
        BY <1>1, <4>1, <4>2 DEF Ahead
      <4> QED BY <2>1, <2>3, <3>4, <4>3
    <3> QED BY <3>3, <3>4
  <2> QED BY <1>3, <2>4, <2>5, <2>7, <2>8 DEF Inv
<1> QED BY <1>4, <1>5

LEMMA setDefaultStep ==
  ASSUME Inv, NEW t \in Threads, NEW a \in Attributes, setDefault(t, a)
  PROVE  Inv'
<1> DEFINE p == ProcessOf[t]
           c == [call[t] EXCEPT !.todo = @ \ {a}]
           i == Remember(Its(t), a, "default")
           j == Noticed(Its(t), ItsRow(t), a)
<1>1. /\ call[t] \in CallType /\ CallOK(call[t]) /\ call[t].phase = "init"
      /\ call[t].object \in Objects /\ call[t].phase \notin InTx
  BY DEF setDefault, Inv, TypeOK, CallsOK, CallOK, InTx
<1>2. /\ c \in CallType /\ c.op = call[t].op /\ c.phase = call[t].phase /\ c.object = call[t].object
      /\ c.reset = call[t].reset
  BY <1>1 DEF CallType
<1>3. CallOK(c) /\ c.phase \notin InTx
  BY <1>1, <1>2 DEF CallOK, InTx
<1>4. ItsRow(t) \in Row /\ Its(t) \in DBObject /\ (~ Its(t).trans => Its(t).changes = Nothing)
  BY <1>1, Its_OK
<1>5. /\ i \in DBObject /\ (~ i.trans => i.changes = Nothing) /\ i.known = Its(t).known
      /\ j \in DBObject /\ (~ j.trans => j.changes = Nothing) /\ j.known = Its(t).known
  BY <1>4, Remembered, NoticedOK DEF Values
<1>6. UNCHANGED <<tried, done>>
  BY DEF setDefault
<1>7. call' = [call EXCEPT ![t].todo = @ \ {a}] => call' = [call EXCEPT ![t] = c]
  BY DEF Inv, TypeOK
<1> HIDE DEF c, i, j
<1>8. CASE /\ Becomes(t, j) /\ call' = [call EXCEPT ![t].todo = @ \ {a}]
           /\ UNCHANGED <<db, conn, past>>
  <2>1. ObjectsOK(object')
    BY <1>1, <1>5, <1>8, OneObject
  <2> QED BY <1>2, <1>3, <1>6, <1>7, <1>8, <2>1, QuietStep
<1>9. CASE Write(p, Default(t, a)) /\ Becomes(t, i) /\ call' = [call EXCEPT ![t].todo = @ \ {a}]
  <2>1. ObjectsOK(object')
    BY <1>1, <1>5, <1>9, OneObject
  <2> QED BY <1>1, <1>2, <1>3, <1>6, <1>7, <1>9, <2>1, DefaultWrite
<1>10. CASE Return(t) /\ UNCHANGED <<db, conn, object, past>>
  BY <1>6, <1>10, SameObjects, ReturnStep DEF ObjectsOK
<1> QED BY <1>8, <1>9, <1>10 DEF setDefault, Default, i, j

LEMMA listStep ==
  ASSUME Inv, NEW t \in Threads, list(t)
  PROVE  Inv'
<1> DEFINE p == ProcessOf[t]
           data == View(p)
           todo == {o \in Objects : data.row[o].state = "there"}
           c == [call[t] EXCEPT !.phase = "done", !.todo = todo]
           objs == [o \in Objects |-> IF data.row[o].state = "there" /\ ~ object[p][o].known
                                      THEN NewObject ELSE object[p][o]]
<1>1. call[t].op = "list" /\ call[t].phase \in InTx /\ call[t].phase = "body"
  BY DEF list, InTx
<1>2. /\ p \in Processes /\ data = conn[p].data /\ data \in Data /\ Ahead(call[t], data, db)
      /\ call[t] \in CallType /\ CallOK(call[t])
  BY <1>1, OwnView
<1>3. UNCHANGED <<db, conn, tried, done>>
  BY DEF list, History
<1>4. /\ call' = [call EXCEPT ![t] = c] /\ call'[t] = c
      /\ \A s \in Threads : s # t => call'[s] = call[s]
  BY DEF list, Inv, TypeOK
<1>5. object' = [object EXCEPT ![p] = objs]
  BY <1>2 DEF list, Inv, TypeOK
<1>6. ObjectsOK(object')
  <2>1. object \in [Processes -> [Objects -> DBObject]]
    BY DEF Inv, TypeOK
  <2>2. ASSUME NEW o \in Objects
        PROVE  /\ objs[o] \in DBObject /\ (~ objs[o].trans => objs[o].changes = Nothing)
               /\ objs[o].known => db.row[o].state # "unborn"
    <3>1. CASE data.row[o].state = "there" /\ ~ object[p][o].known
      <4>1. objs[o] = NewObject
        BY <3>1
      <4>2. db.row[o].state # "unborn"
        BY <1>1, <1>2, <3>1 DEF Ahead
      <4> QED BY <4>1, <4>2, Empties DEF NewObject, NoObject
    <3>2. CASE ~ (data.row[o].state = "there" /\ ~ object[p][o].known)
      <4>1. objs[o] = object[p][o]
        BY <3>2
      <4> QED BY <1>2, <2>1, <4>1 DEF Inv, TypeOK
    <3> QED BY <3>1, <3>2
  <2>3. objs \in [Objects -> DBObject]
    <3>1. DOMAIN objs = Objects /\ objs = [o \in Objects |-> objs[o]]
      OBVIOUS
    <3> HIDE DEF objs
    <3> QED BY <2>2, <3>1
  <2> HIDE DEF objs
  <2>4. object' \in [Processes -> [Objects -> DBObject]]
    BY <1>5, <2>1, <2>3
  <2>5. object'[p] = objs /\ \A q \in Processes : q # p => object'[q] = object[q]
    BY <1>2, <1>5, <2>1
  <2>6. ASSUME NEW q \in Processes, NEW o \in Objects
        PROVE  /\ ~ object'[q][o].trans => object'[q][o].changes = Nothing
               /\ object'[q][o].known => db.row[o].state # "unborn"
    <3>1. CASE q = p
      BY <3>1, <2>2, <2>5
    <3>2. CASE q # p
      BY <3>2, <2>5 DEF Inv, TypeOK
    <3> QED BY <3>1, <3>2
  <2> QED BY <2>4, <2>6 DEF ObjectsOK
<1>7. todo \in SUBSET Objects
  OBVIOUS
<1> HIDE DEF todo
<1>8. /\ c \in CallType /\ c.phase = "done" /\ c.op = "list" /\ c.todo = todo
      /\ c.object = call[t].object /\ c.reset = call[t].reset
  BY <1>1, <1>2, <1>7 DEF CallType, Phases
<1> HIDE DEF c
<1>9. CallOK(c) /\ c.phase \in InTx
  BY <1>2, <1>7, <1>8 DEF CallOK, InTx
<1>10. TypeOK'
  BY <1>3, <1>4, <1>6, <1>8 DEF Inv, TypeOK, ObjectsOK
<1>11. CallsOK' /\ OneWriter' /\ Snapshots' /\ NoUpdateLost'
  BY <1>3, <1>4, <1>9 DEF Inv, CallsOK, OneWriter, Snapshots, NoUpdateLost
<1>12. OwnersOK'
  BY <1>1, <1>3, <1>4, <1>8 DEF Inv, OwnersOK
<1>13. Ahead(c, data, db)
  BY <1>1, <1>2, <1>8 DEF Ahead
<1>14. TransactionsOK'
  BY <1>2, <1>3, <1>4, <1>13 DEF Inv, TransactionsOK
<1> QED BY <1>10, <1>11, <1>12, <1>14 DEF Inv
-----------------------------------------------------------------------------
(* Commits *)

\* A commit of a transaction that has only read changes nothing; one that has
\* written is the only transaction there is.
LEMMA CommitAlone ==
  ASSUME Inv, NEW p \in Processes, conn[p].tx # "none", CanCommit(p)
  PROVE  \/ conn[p].data = db
         \/ \A q \in Processes : q # p => conn[q].tx = "none"
<1>1. CASE conn[p].tx = "ro"
  BY <1>1 DEF Inv, Snapshots
<1>2. CASE conn[p].tx = "rw"
  BY <1>2 DEF CanCommit, NobodyElse, Inv, OneWriter, TypeOK
<1> QED BY <1>1, <1>2 DEF Inv, TypeOK

LEMMA Counted ==
  ASSUME Inv, NEW t \in Threads, call[t].phase \in InTx, MayCommit(t),
         tried' = CASE call[t].phase = "right" -> 0
                    [] call[t].phase = "wrong" -> tried + 1
                    [] OTHER -> tried,
         done' = CASE call[t].op = "advanceJournal" -> [done EXCEPT !.journal = @ + 1]
                   [] call[t].op = "updateLocalPIN" -> [done EXCEPT !.local = @ + 1]
                   [] call[t].op = "resetToken" -> [done EXCEPT !.local = 0]
                   [] OTHER -> done,
         db' = conn[ProcessOf[t]].data
  PROVE  NoUpdateLost' /\ tried' \in Nat /\ done' \in [journal : Nat, local : Nat]
<1> DEFINE d == conn[ProcessOf[t]].data
<1>1. d \in Data /\ db \in Data /\ Ahead(call[t], d, db) /\ call[t] \in CallType /\ CallOK(call[t])
  BY OwnView
<1>2. tried \in Nat /\ done \in [journal : Nat, local : Nat] /\ NoUpdateLost
  BY DEF Inv, TypeOK
<1>3. \/ call[t].phase \in {"done", "right", "wrong"}
      \/ call[t].op = "set" /\ call[t].phase = "body"
  BY DEF MayCommit
<1> HIDE DEF d
<1>4. tried' \in Nat /\ d.left = IF tried' > MaxTries THEN 0 ELSE MaxTries - tried'
  <2>1. db.left = (IF tried > MaxTries THEN 0 ELSE MaxTries - tried) /\ MaxTries \in Nat
    BY <1>2, BoundAssumption DEF NoUpdateLost
  <2>2. CASE call[t].phase = "right"
    BY <1>1, <2>1, <2>2 DEF Ahead
  <2>3. CASE call[t].phase = "wrong"
    <3>1. tried' = tried + 1 /\ d.left = db.left - 1 /\ db.left # 0
      BY <1>1, <2>3 DEF Ahead
    <3> QED BY <1>2, <2>1, <3>1
  <2>4. CASE call[t].phase \notin {"right", "wrong"}
    BY <1>1, <1>2, <2>1, <2>4 DEF Ahead
  <2> QED BY <2>2, <2>3, <2>4
<1>5. done' \in [journal : Nat, local : Nat] /\ d.journal = done'.journal /\ d.local = done'.local
  <2>1. db.journal = done.journal /\ db.local = done.local
    BY <1>2 DEF NoUpdateLost
  <2>2. CASE call[t].op = "advanceJournal"
    <3>1. call[t].phase = "done"
      BY <1>1, <1>3, <2>2 DEF CallOK
    <3> QED BY <1>1, <1>2, <2>1, <2>2, <3>1 DEF Ahead
  <2>3. CASE call[t].op = "updateLocalPIN"
    <3>1. call[t].phase = "done"
      BY <1>1, <1>3, <2>3 DEF CallOK
    <3> QED BY <1>1, <1>2, <2>1, <2>3, <3>1 DEF Ahead
  <2>4. CASE call[t].op = "resetToken"
    <3>1. call[t].phase = "done"
      BY <1>1, <1>3, <2>4 DEF CallOK
    <3> QED BY <1>1, <1>2, <2>1, <2>4, <3>1 DEF Ahead
  <2>5. CASE call[t].op \notin {"advanceJournal", "updateLocalPIN", "resetToken"}
    BY <1>1, <1>2, <2>1, <2>5 DEF Ahead
  <2> QED BY <2>2, <2>3, <2>4, <2>5
<1> QED BY <1>4, <1>5 DEF NoUpdateLost, d

\* The DBObjects after a commit, with the database that it leaves.
LEMMA CommittedObjects ==
  ASSUME Inv, NEW t \in Threads, call[t].phase \in InTx, MayCommit(t),
         IF Lasting(t) THEN Becomes(t, Committed(Its(t)))
         ELSE IF call[t].op = "create" THEN Becomes(t, NewObject)
         ELSE UNCHANGED object,
         db' = conn[ProcessOf[t]].data
  PROVE  /\ object' \in [Processes -> [Objects -> DBObject]]
         /\ \A q \in Processes, o \in Objects :
              LET i == object'[q][o]
              IN  /\ ~ i.trans => i.changes = Nothing
                  /\ i.known => db'.row[o].state # "unborn"
<1> DEFINE p == ProcessOf[t]
<1>1. /\ p \in Processes /\ View(p) = conn[p].data /\ Keeps(conn[p].data, db)
      /\ CallOK(call[t]) /\ Ahead(call[t], conn[p].data, db)
  BY OwnView
<1>2. CASE Lasting(t)
  <2> DEFINE i == Committed(Its(t))
  <2>1. call[t].object \in Objects
    BY <1>1, <1>2 DEF Lasting, CallOK
  <2>2. Its(t) \in DBObject
    BY <2>1, Its_OK
  <2>3. i \in DBObject /\ i.changes = Nothing /\ i.known = Its(t).known
    <3> DEFINE cache == [a \in Attributes |-> IF Its(t).changes[a] = Unread THEN Its(t).cache[a]
                                              ELSE Its(t).changes[a]]
    <3>1. cache \in Cached /\ Nothing \in Cached
      BY <2>2 DEF DBObject, Cached, Nothing
    <3>2. i = [Its(t) EXCEPT !.cache = cache, !.trans = FALSE, !.changes = Nothing]
      BY <2>2 DEF Committed, DBObject
    <3> HIDE DEF cache, i
    <3> QED BY <2>2, <3>1, <3>2 DEF DBObject
  <2>4. Becomes(t, i)
    BY <1>2
  <2> HIDE DEF i
  <2>5. ObjectsOK(object')
    BY <2>1, <2>3, <2>4, OneObject
  <2> QED BY <1>1, <2>5 DEF ObjectsOK, Keeps
<1>3. CASE ~ Lasting(t) /\ call[t].op = "create"
  <2> DEFINE o == call[t].object
  <2>1. call[t].phase = "done"
    BY <1>1, <1>3 DEF MayCommit, CallOK
  <2>2. o \in Objects /\ conn[p].data.row[o].state = "there"
    BY <1>1, <1>3, <2>1 DEF CallOK, Ahead
  <2>3. object \in [Processes -> [Objects -> DBObject]]
    BY DEF Inv, TypeOK
  <2>4. object' = [object EXCEPT ![p] = [object[p] EXCEPT ![o] = NewObject]]
    BY <1>3 DEF Becomes
  <2>5. NewObject \in DBObject /\ NewObject.changes = Nothing
    BY Empties DEF NewObject, NoObject
  <2>6. object' \in [Processes -> [Objects -> DBObject]]
    BY <1>1, <2>3, <2>4, <2>5
  <2>7. /\ object'[p][o] = NewObject
        /\ \A q \in Processes, u \in Objects : q # p \/ u # o => object'[q][u] = object[q][u]
    BY <1>1, <2>2, <2>3, <2>4
  <2>8. ASSUME NEW q \in Processes, NEW u \in Objects
        PROVE  /\ ~ object'[q][u].trans => object'[q][u].changes = Nothing
               /\ object'[q][u].known => db'.row[u].state # "unborn"
    <3>1. CASE q = p /\ u = o
      BY <2>2, <2>5, <2>7, <3>1
    <3>2. CASE q # p \/ u # o
      BY <1>1, <2>7, <3>2 DEF Inv, TypeOK, Keeps
    <3> QED BY <3>1, <3>2
  <2> QED BY <2>6, <2>8
<1>4. CASE ~ Lasting(t) /\ call[t].op # "create"
  BY <1>1, <1>4 DEF Inv, TypeOK, Keeps
<1> QED BY <1>2, <1>3, <1>4

LEMMA commitTransactionStep ==
  ASSUME Inv, NEW t \in Threads, commitTransaction(t)
  PROVE  Inv'
<1> DEFINE p == ProcessOf[t]
           d == conn[p].data
<1>1. call[t].phase \in InTx /\ MayCommit(t)
  BY DEF commitTransaction, MayCommit, InTx
<1>2. /\ p \in Processes /\ d \in Data /\ call[t] \in CallType /\ CallOK(call[t])
      /\ conn[p].tx # "none"
  BY <1>1, OwnView DEF commitTransaction, inTransaction
<1>3. /\ CanCommit(p) /\ db' = d /\ conn' = [conn EXCEPT ![p] = NoConn] /\ conn'[p] = NoConn
      /\ \A q \in Processes : q # p => conn'[q] = conn[q]
  BY <1>2 DEF commitTransaction, CommitData, Inv, TypeOK
<1>4. PICK c \in CallType : CallOK(c) /\ c.phase \notin InTx /\ call' = [call EXCEPT ![t] = c]
  <2>1. CASE call[t].op = "create"
    <3> DEFINE c == [call[t] EXCEPT !.op = "set", !.phase = "init", !.todo = Attributes]
    <3>1. call[t].phase = "done" /\ call[t].object \in Objects /\ ~ call[t].reset
      BY <1>1, <1>2, <2>1 DEF MayCommit, CallOK
    <3>2. /\ c \in CallType /\ c.op = "set" /\ c.phase = "init"
          /\ c.object = call[t].object /\ c.reset = call[t].reset
      BY <1>2 DEF CallType, CallOps, Phases
    <3>3. call' = [call EXCEPT ![t] = c]
      BY <2>1 DEF commitTransaction, Inv, TypeOK
    <3> HIDE DEF c
    <3>4. CallOK(c) /\ c.phase \notin InTx
      BY <3>1, <3>2 DEF CallOK, InTx
    <3> QED BY <3>2, <3>3, <3>4
  <2>2. CASE call[t].op # "create" /\ call[t].reset
    <3>1. call[t].todo \in SUBSET Objects
      BY <1>2, <2>2 DEF CallOK
    <3> QED BY <2>2, <3>1, CleanedUp DEF commitTransaction
  <2>3. CASE call[t].op # "create" /\ ~ call[t].reset
    BY <2>3, Empties DEF commitTransaction, Return
  <2> QED BY <2>1, <2>2, <2>3
<1>5. call'[t] = c /\ \A s \in Threads : s # t => call'[s] = call[s]
  BY <1>4 DEF Inv, TypeOK
<1>6. NoUpdateLost' /\ tried' \in Nat /\ done' \in [journal : Nat, local : Nat]
  BY <1>1, <1>3, Counted DEF commitTransaction
<1>7. TypeOK'
  <2>1. conn' \in [Processes -> [tx : {"none", "ro", "rw"}, data : Data]] /\ call' \in [Threads -> CallType]
    BY <1>3, <1>4, Empties DEF Inv, TypeOK
  <2>2. /\ object' \in [Processes -> [Objects -> DBObject]]
        /\ \A q \in Processes, o \in Objects :
             LET i == object'[q][o]
             IN  /\ ~ i.trans => i.changes = Nothing
                 /\ i.known => db'.row[o].state # "unborn"
    BY <1>1, <1>3, CommittedObjects DEF commitTransaction
  <2> QED BY <1>2, <1>3, <1>6, <2>1, <2>2 DEF TypeOK
<1>8. CallsOK'
  BY <1>4, <1>5 DEF Inv, CallsOK
<1>9. \A s \in Threads : call'[s].phase \in InTx =>
         s # t /\ call'[s] = call[s] /\ ProcessOf[s] # p /\ ProcessOf[s] \in Processes
  BY <1>1, <1>4, <1>5, ProcessAssumption DEF Inv, OwnersOK
<1>10. OwnersOK'
  BY <1>3, <1>9 DEF Inv, OwnersOK
<1>11. \A q \in Processes : conn'[q].tx # "none" => q # p /\ conn'[q] = conn[q] /\ db' = db
  BY <1>2, <1>3, CommitAlone, Empties
<1>12. OneWriter' /\ Snapshots'
  BY <1>11 DEF Inv, OneWriter, Snapshots
<1>13. TransactionsOK'
  <2>1. SUFFICES ASSUME NEW s \in Threads, call'[s].phase \in InTx
                 PROVE  Ahead(call[s], conn'[ProcessOf[s]].data, db')
    BY <1>9 DEF TransactionsOK
  <2>2. conn'[ProcessOf[s]] = conn[ProcessOf[s]] /\ conn[ProcessOf[s]].tx # "none"
    BY <1>3, <1>9, <2>1 DEF Inv, OwnersOK
  <2>3. db' = db
    BY <1>9, <1>11, <2>1, <2>2
  <2> QED BY <1>9, <2>1, <2>2, <2>3 DEF Inv, TransactionsOK
<1> QED BY <1>6, <1>7, <1>8, <1>10, <1>12, <1>13 DEF Inv

LEMMA CrashStep ==
  ASSUME Inv, NEW p \in Processes, Crash(p)
  PROVE  Inv'
<1>1. /\ conn' = [conn EXCEPT ![p] = NoConn] /\ conn'[p] = NoConn
      /\ \A q \in Processes : q # p => conn'[q] = conn[q]
  BY DEF Crash, Inv, TypeOK
<1>2. \A s \in Threads : call'[s] = IF ProcessOf[s] = p THEN NoCall ELSE call[s]
  BY DEF Crash
<1>3. /\ object'[p] = [o \in Objects |-> NoObject]
      /\ \A q \in Processes : q # p => object'[q] = object[q]
  BY DEF Crash, Inv, TypeOK
<1>4. UNCHANGED <<db, tried, done>>
  BY DEF Crash, History
<1>5. TypeOK'
  <2>1. conn' \in [Processes -> [tx : {"none", "ro", "rw"}, data : Data]]
    BY <1>1, Empties DEF Inv, TypeOK
  <2>2. call' \in [Threads -> CallType]
    BY Empties DEF Crash, Inv, TypeOK
  <2>3. object' \in [Processes -> [Objects -> DBObject]]
    BY Empties DEF Crash, Inv, TypeOK
  <2>4. ASSUME NEW q \in Processes, NEW o \in Objects
        PROVE  /\ ~ object'[q][o].trans => object'[q][o].changes = Nothing
               /\ object'[q][o].known => db'.row[o].state # "unborn"
    <3>1. CASE q = p
      BY <1>3, <3>1 DEF NoObject
    <3>2. CASE q # p
      BY <1>3, <1>4, <3>2 DEF Inv, TypeOK
    <3> QED BY <3>1, <3>2
  <2> QED BY <1>4, <2>1, <2>2, <2>3, <2>4 DEF Inv, TypeOK
<1>6. \A s \in Threads : call'[s].phase \in InTx =>
         call'[s] = call[s] /\ ProcessOf[s] # p /\ ProcessOf[s] \in Processes
  BY <1>2, Empties, ProcessAssumption
<1>7. CallsOK' /\ OwnersOK'
  BY <1>1, <1>2, <1>6, Empties DEF Inv, CallsOK, OwnersOK
<1>8. TransactionsOK'
  BY <1>1, <1>4, <1>6 DEF Inv, TransactionsOK
<1>9. OneWriter' /\ Snapshots' /\ NoUpdateLost'
  BY <1>1, <1>4, Empties DEF Inv, OneWriter, Snapshots, NoUpdateLost
<1> QED BY <1>5, <1>7, <1>8, <1>9 DEF Inv
-----------------------------------------------------------------------------
(* The theorems *)

LEMMA InitInv == Init => Inv
<1> SUFFICES ASSUME Init PROVE Inv
  OBVIOUS
<1>1. \A t \in Threads : call[t] = NoCall
  BY DEF Init
<1>2. \A p \in Processes : conn[p] = NoConn
  BY DEF Init
<1>3. TypeOK
  BY Empties DEF Init, TypeOK, NoObject
<1>4. CallsOK /\ OwnersOK /\ TransactionsOK
  BY <1>1, Empties DEF CallsOK, OwnersOK, TransactionsOK
<1>5. OneWriter /\ Snapshots
  BY <1>2, Empties DEF OneWriter, Snapshots
<1>6. NoUpdateLost
  BY BoundAssumption DEF Init, NoUpdateLost, NoData
<1> QED BY <1>3, <1>4, <1>5, <1>6 DEF Inv

LEMMA StepsStep ==
  ASSUME Inv, NEW t \in Threads, Steps(t)
  PROVE  Inv'
<1>1. ASSUME NEW a \in Attributes, setDefault(t, a) PROVE Inv'
  BY <1>1, setDefaultStep
<1>2. ASSUME NEW a \in Attributes, loadTemplate(t, a) PROVE Inv'
  BY <1>2, loadTemplateStep
<1>3. ASSUME NEW a \in Attributes, NEW v \in Values, setAttribute(t, a, v) PROVE Inv'
  BY <1>3, setAttributeStep
<1>4. ASSUME NEW o \in Objects, insert(t, o) PROVE Inv'
  BY <1>4, insertStep
<1>5. ASSUME NEW success \in BOOLEAN, advancePinPolicy(t, success) PROVE Inv'
  BY <1>5, advancePinPolicyStep
<1>6. CASE Initialised(t) \/ getTokenData(t) \/ startTransaction(t) \/ startTransaction_Fails(t)
  BY <1>6, InitialisedStep, getTokenDataStep, startTransactionStep, startTransaction_FailsStep
<1>7. CASE remove(t) \/ list(t)
  BY <1>7, removeStep, listStep
<1>8. CASE advanceJournal(t) \/ updateLocalPIN(t) \/ setUserPIN(t) \/ setTokenFlags(t) \/ resetToken(t)
  BY <1>8, TokenSteps
<1>9. CASE \/ commitTransaction(t) \/ commitTransaction_Fails(t) \/ abortTransaction(t)
           \/ updateLocalPIN_NotExpected(t)
  BY <1>9, commitTransactionStep, commitTransaction_FailsStep, abortTransactionStep,
     updateLocalPIN_NotExpectedStep
<1> QED BY <1>1, <1>2, <1>3, <1>4, <1>5, <1>6, <1>7, <1>8, <1>9 DEF Steps

LEMMA NextInv == Inv /\ [Next]_vars => Inv'
<1> SUFFICES ASSUME Inv, [Next]_vars PROVE Inv'
  OBVIOUS
<1>1. CASE UNCHANGED vars
  BY <1>1 DEF vars, Inv, TypeOK, CallsOK, OneWriter, Snapshots, OwnersOK, TransactionsOK, NoUpdateLost
<1>2. ASSUME NEW t \in Threads, Calls(t) \/ Steps(t) PROVE Inv'
  BY <1>2, CallsStep, StepsStep
<1>3. ASSUME NEW p \in Processes, Crash(p) PROVE Inv'
  BY <1>3, CrashStep
<1> QED BY <1>1, <1>2, <1>3 DEF Next

\* The inductive invariant: SQLite's one writer and stable snapshots, one call of a
\* process in its transaction, and how far that is ahead of what is committed.
THEOREM InvariantHolds == Spec => []Inv
BY InitInv, NextInv, PTL DEF Spec

\* The state of the database, of the connections, of the DBObjects and of the calls
\* of DBToken and DBObject always has its type; a DBObject without a transaction has
\* no pending changes, and none is in _allObjects before its row is committed.
THEOREM TypeCorrect == Spec => []TypeOK
<1>1. Inv => TypeOK
  BY DEF Inv
<1> QED BY <1>1, InvariantHolds, PTL

\* Whatever the processes, threads, failed calls and crashes, the retry counter, the
\* journal and the record of a local PIN are what the committed calls of
\* advancePinPolicy, advanceJournal, updateLocalPIN and resetToken add up to.
THEOREM CountsKept == Spec => []NoUpdateLost
<1>1. Inv => NoUpdateLost
  BY DEF Inv
<1> QED BY <1>1, InvariantHolds, PTL

\* A statement in a call's own transaction is not seen in the database.
LEMMA OwnWriteHidden ==
  ASSUME Inv, NEW t \in Threads, call[t].phase \in InTx, NEW d, Write(ProcessOf[t], d)
  PROVE  UNCHANGED db
<1>1. conn[ProcessOf[t]].tx # "none"
  BY DEF Inv, OwnersOK
<1> QED BY <1>1 DEF Write, inTransaction

LEMMA PinStep ==
  ASSUME Inv, [Next]_vars
  PROVE  db'.userpin # db.userpin => db'.flag = db'.userpin
<1> SUFFICES ASSUME db'.userpin # db.userpin PROVE db'.flag = db'.userpin
  OBVIOUS
<1>1. CASE UNCHANGED vars
  BY <1>1 DEF vars
<1>2. ASSUME NEW p \in Processes, Crash(p) PROVE FALSE
  BY <1>2 DEF Crash
<1>3. ASSUME NEW t \in Threads, Calls(t) PROVE FALSE
  <2> USE DEF Enter
  <2>1. ASSUME NEW o \in Objects,
               C_GetAttributeValue(t, o) \/ C_SetAttributeValue(t, o) \/ C_DestroyObject(t, o)
        PROVE  UNCHANGED db
    BY <2>1 DEF C_GetAttributeValue, C_SetAttributeValue, C_DestroyObject
  <2>2. CASE C_CreateObject(t) \/ getObjects(t)
    BY <2>2 DEF C_CreateObject, getObjects
  <2>3. ASSUME NEW op \in TokenFunctions, TokenFunction(t, op) PROVE UNCHANGED db
    BY <2>3 DEF TokenFunction
  <2> QED BY <1>3, <2>1, <2>2, <2>3 DEF Calls
<1>4. ASSUME NEW t \in Threads, commitTransaction(t) PROVE db'.flag = db'.userpin
  <2> DEFINE d == conn[ProcessOf[t]].data
  <2>1. db' = d /\ MayCommit(t) /\ call[t].phase \in InTx
    BY <1>4 DEF commitTransaction, CommitData, MayCommit, InTx
  <2>2. Ahead(call[t], d, db) /\ CallOK(call[t])
    BY <2>1, OwnView
  <2> HIDE DEF d
  <2>3. call[t].op \in {"setUserPIN", "resetToken"} /\ call[t].phase \in {"flags", "done"}
    BY <2>1, <2>2 DEF Ahead
  <2>4. call[t].phase = "done"
    BY <2>1, <2>3 DEF MayCommit
  <2> QED BY <2>1, <2>2, <2>3, <2>4 DEF Ahead
<1>5. ASSUME NEW t \in Threads, NEW a \in Attributes, setDefault(t, a) PROVE FALSE
  <2>1. call[t].object \in Objects
    BY <1>5 DEF setDefault, Inv, CallsOK, CallOK
  <2>2. UNCHANGED db \/ Write(ProcessOf[t], Default(t, a))
    BY <1>5 DEF setDefault, Default
  <2>3. UNCHANGED db \/ (db' = Default(t, a) /\ View(ProcessOf[t]) = db)
    BY <2>2 DEF Write, inTransaction, View
  <2> QED BY <2>1, <2>3, DefaultData
<1>6. ASSUME NEW t \in Threads, Steps(t), ~ commitTransaction(t),
             \A a \in Attributes : ~ setDefault(t, a)
      PROVE  UNCHANGED db
  <2>1. {"body", "flags"} \subseteq InTx
    BY DEF InTx
  <2>2. ASSUME NEW op, NEW phase \in {"body", "flags"}, NEW d, NEW next,
               ChangeToken(t, op, phase, d, next)
        PROVE  UNCHANGED db
    BY <2>1, <2>2, OwnWriteHidden DEF ChangeToken
  <2>3. ASSUME NEW a \in Attributes, NEW v \in Values, setAttribute(t, a, v) PROVE UNCHANGED db
    BY <2>1, <2>3, OwnWriteHidden DEF setAttribute
  <2>4. ASSUME NEW o \in Objects, insert(t, o) PROVE UNCHANGED db
    BY <2>1, <2>4, OwnWriteHidden DEF insert
  <2>5. CASE remove(t)
    BY <2>1, <2>5, OwnWriteHidden DEF remove
  <2>6. ASSUME NEW success \in BOOLEAN, advancePinPolicy(t, success) PROVE UNCHANGED db
    BY <2>2, <2>6 DEF advancePinPolicy
  <2>7. CASE advanceJournal(t) \/ updateLocalPIN(t) \/ setTokenFlags(t)
    BY <2>2, <2>7 DEF advanceJournal, updateLocalPIN, setTokenFlags
  <2>8. CASE setUserPIN(t) \/ resetToken(t)
    BY <2>2, <2>8 DEF setUserPIN, resetToken
  <2>9. ASSUME NEW a \in Attributes, loadTemplate(t, a) PROVE UNCHANGED db
    BY <2>9 DEF loadTemplate
  <2>10. CASE \/ Initialised(t) \/ getTokenData(t) \/ startTransaction(t)
              \/ startTransaction_Fails(t) \/ list(t)
    BY <2>10 DEF Initialised, getTokenData, startTransaction, startTransaction_Fails, list
  <2>11. CASE \/ commitTransaction_Fails(t) \/ abortTransaction(t) \/ updateLocalPIN_NotExpected(t)
    BY <2>11 DEF commitTransaction_Fails, abortTransaction, updateLocalPIN_NotExpected
  <2> QED
    BY <1>6, <2>3, <2>4, <2>5, <2>6, <2>7, <2>8, <2>9, <2>10, <2>11 DEF Steps
<1> QED BY <1>1, <1>2, <1>3, <1>4, <1>5, <1>6 DEF Next

\* Whichever process commits, and whatever was rolled back or lost in a crash before,
\* the user PIN and CKF_USER_PIN_INITIALIZED change in one commit.
THEOREM PinWithFlag == Spec => PinAndFlagTogether
<1>1. Inv /\ [Next]_vars => [db'.userpin # db.userpin => db'.flag = db'.userpin]_vars
  BY PinStep
<1> QED BY <1>1, InvariantHolds, PTL DEF Spec, PinAndFlagTogether
=============================================================================
