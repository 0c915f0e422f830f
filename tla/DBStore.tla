------------------------------ MODULE DBStore ------------------------------
(***************************************************************************)
(* The SQLite object store: one database per token, one connection to it   *)
(* for each process (DBToken), and one DBObject in each process for each   *)
(* row of the object table, with a cache of its attributes.  The threads   *)
(* of a process share its connection and its DBObjects.                    *)
(*                                                                         *)
(* SQLite itself is external: a connection outside of a transaction sees   *)
(* and changes the database directly, one in a transaction has a view of   *)
(* its own until it commits; one connection writes at a time, and it       *)
(* commits when no other one reads.  A connection that has waited for the  *)
(* busy timeout gets SQLITE_BUSY: here it may give up whenever it waits.   *)
(*                                                                         *)
(* A method of a DBObject is one step, for it holds the object's mutex;    *)
(* the functions of DBToken and of P11Object that use several take as many *)
(* steps.  A token object is made anew for every call of DBToken and has   *)
(* no state between two of them.                                           *)
(***************************************************************************)
EXTENDS Naturals, FiniteSets

CONSTANTS
  Processes, Threads,
  ProcessOf,     \* the process of each thread
  Objects,       \* the rows of the object table, in the order of their ids
  Attributes,    \* the attributes of an object that are followed
  MaxTries,      \* the retry counter's maximum
  TokenFunctions,\* the functions that change the token object
  MaxCalls, MaxCrashes

ASSUME ProcessAssumption == ProcessOf \in [Threads -> Processes]
ASSUME AttributeAssumption == Attributes \subseteq STRING
ASSUME BoundAssumption == MaxTries \in Nat /\ MaxCalls \in Nat /\ MaxCrashes \in Nat

VARIABLES
  db,        \* what is committed
  conn,      \* the connection of each process
  object,    \* the DBObjects of each process
  call,      \* the call each thread is in the middle of
  calls, crashes,
  tried,     \* history: the wrong PINs counted since the last right one
  done,      \* history: how often the journal and the local PIN were changed
  past,      \* history: the values each attribute has had, committed
  read       \* history: the last value C_GetAttributeValue has returned

vars == <<db, conn, object, call, calls, crashes, tried, done, past, read>>

Values == {"default", "changed"}
Absent == "absent"     \* no such row, or a NULL pointer for one
Unread == "unread"     \* not in the map of attributes

Row     == [state : {"unborn", "there", "deleted"}, at : [Attributes -> Values \union {Absent}]]

\* The attributes of the token object that are followed: the retry counter of the PIN
\* policy, the counts in the journal and in a record of a local PIN, whether there is
\* a user PIN, and CKF_USER_PIN_INITIALIZED.
Data ==
  [row : [Objects -> Row], left : 0..MaxTries, journal : Nat, local : Nat,
   userpin : BOOLEAN, flag : BOOLEAN]
Cached  == [Attributes -> Values \union {Absent, Unread}]

TokenOps == {"advancePinPolicy", "advanceJournal", "updateLocalPIN", "setUserPIN",
             "setTokenFlags", "resetToken"}
CallOps  == {"none", "get", "set", "create", "destroy", "list"} \union TokenOps

ASSUME FunctionAssumption == TokenFunctions \subseteq TokenOps

NoRow   == [state |-> "unborn", at |-> [a \in Attributes |-> Absent]]
NoData  == [row |-> [o \in Objects |-> NoRow], left |-> MaxTries, journal |-> 0, local |-> 0,
            userpin |-> FALSE, flag |-> FALSE]
NoConn  == [tx |-> "none", data |-> NoData]
Nothing == [a \in Attributes |-> Unread]

\* known: in _allObjects; id: _objectId is not zero; trans: _transaction is not NULL.
DBObject ==
  [known : BOOLEAN, id : BOOLEAN, cache : Cached, trans : BOOLEAN, changes : Cached]
NoObject ==
  [known |-> FALSE, id |-> FALSE, cache |-> Nothing, trans |-> FALSE, changes |-> Nothing]
NewObject == [NoObject EXCEPT !.known = TRUE, !.id = TRUE]

\* known: what getLocalPIN and getTokenFlags have returned, in transactions of their own.
NoKnown == [local |-> 0, flag |-> FALSE]
\* reset: the call is part of resetToken.
NoCall  == [op |-> "none", phase |-> "none", object |-> "none", todo |-> {}, known |-> NoKnown,
            reset |-> FALSE]

Init ==
  /\ db = NoData
  /\ conn = [p \in Processes |-> NoConn]
  /\ object = [p \in Processes |-> [o \in Objects |-> NoObject]]
  /\ call = [t \in Threads |-> NoCall]
  /\ calls = 0
  /\ crashes = 0
  /\ tried = 0
  /\ done = [journal |-> 0, local |-> 0]
  /\ past = [o \in Objects |-> [a \in Attributes |-> {}]]
  /\ read = [attribute |-> "none", value |-> Absent, stored |-> Absent, trans |-> FALSE]
-----------------------------------------------------------------------------
(* Attributes *)

\* attributeKind: the attributes accessAttribute finds in one of the tables, other
\* than those of the token object.  It knows none of CKA_DESTROYABLE,
\* CKA_PUBLIC_KEY_INFO, CKA_ENCAPSULATE, CKA_DECAPSULATE, CKA_VENDOR_... and
\* CKA_OS_TOKENCREATED.
akBoolean ==
  {"CKA_TOKEN", "CKA_PRIVATE", "CKA_TRUSTED", "CKA_SENSITIVE", "CKA_ENCRYPT",
   "CKA_DECRYPT", "CKA_WRAP", "CKA_UNWRAP", "CKA_SIGN", "CKA_SIGN_RECOVER",
   "CKA_VERIFY", "CKA_VERIFY_RECOVER", "CKA_DERIVE", "CKA_EXTRACTABLE", "CKA_LOCAL",
   "CKA_NEVER_EXTRACTABLE", "CKA_ALWAYS_SENSITIVE", "CKA_MODIFIABLE", "CKA_COPYABLE",
   "CKA_SECONDARY_AUTH", "CKA_ALWAYS_AUTHENTICATE", "CKA_WRAP_WITH_TRUSTED"}
akInteger ==
  {"CKA_CLASS", "CKA_CERTIFICATE_TYPE", "CKA_CERTIFICATE_CATEGORY",
   "CKA_JAVA_MIDP_SECURITY_DOMAIN", "CKA_NAME_HASH_ALGORITHM", "CKA_KEY_TYPE",
   "CKA_MODULUS_BITS", "CKA_PRIME_BITS", "CKA_SUB_PRIME_BITS", "CKA_VALUE_BITS",
   "CKA_VALUE_LEN", "CKA_KEY_GEN_MECHANISM", "CKA_AUTH_PIN_FLAGS", "CKA_PARAMETER_SET"}
akBinary ==
  {"CKA_LABEL", "CKA_APPLICATION", "CKA_VALUE", "CKA_OBJECT_ID", "CKA_ISSUER",
   "CKA_SERIAL_NUMBER", "CKA_AC_ISSUER", "CKA_OWNER", "CKA_ATTR_TYPES", "CKA_URL",
   "CKA_HASH_OF_SUBJECT_PUBLIC_KEY", "CKA_HASH_OF_ISSUER_PUBLIC_KEY",
   "CKA_CHECK_VALUE", "CKA_SUBJECT", "CKA_ID", "CKA_START_DATE", "CKA_END_DATE",
   "CKA_MODULUS", "CKA_PUBLIC_EXPONENT", "CKA_PRIVATE_EXPONENT", "CKA_PRIME_1",
   "CKA_PRIME_2", "CKA_EXPONENT_1", "CKA_EXPONENT_2", "CKA_COEFFICIENT", "CKA_PRIME",
   "CKA_SUBPRIME", "CKA_BASE", "CKA_EC_PARAMS", "CKA_EC_POINT",
   "CKA_GOSTR3410_PARAMS", "CKA_GOSTR3411_PARAMS", "CKA_GOST28147_PARAMS", "CKA_SEED"}
akAttrMap == {"CKA_WRAP_TEMPLATE", "CKA_UNWRAP_TEMPLATE", "CKA_DERIVE_TEMPLATE"}
akMechSet == {"CKA_ALLOWED_MECHANISMS"}

attributeKind(a) ==
  CASE a \in akBoolean -> "akBoolean"
    [] a \in akInteger -> "akInteger"
    [] a \in akBinary  -> "akBinary"
    [] a \in akAttrMap -> "akAttrMap"
    [] a \in akMechSet -> "akMechSet"
    [] OTHER           -> "akUnknown"

\* Mutant: every attribute is taken from the cache.
isModifiable_Never(a) == FALSE

isModifiable(a) ==
  a \in {"CKA_LABEL", "CKA_TRUSTED", "CKA_ID", "CKA_ISSUER", "CKA_SERIAL_NUMBER",
         "CKA_START_DATE", "CKA_END_DATE", "CKA_DERIVE", "CKA_SUBJECT", "CKA_ENCRYPT",
         "CKA_VERIFY", "CKA_VERIFY_RECOVER", "CKA_WRAP", "CKA_SENSITIVE", "CKA_DECRYPT",
         "CKA_SIGN", "CKA_SIGN_RECOVER", "CKA_UNWRAP", "CKA_EXTRACTABLE"}

\* What the tables have: a SELECT from the table of the attribute's kind.
accessAttribute(row, a) ==
  IF attributeKind(a) = "akUnknown" \/ row.state # "there" THEN Absent ELSE row.at[a]

InTransaction(i, a) == i.trans /\ i.changes[a] # Unread
InCache(i, a)       == ~ isModifiable(a) /\ i.cache[a] # Unread

getAttributeDB(i, row, a) ==
  IF ~ i.id THEN Absent
  ELSE IF InTransaction(i, a) THEN i.changes[a]
  ELSE IF InCache(i, a) THEN i.cache[a]
  ELSE accessAttribute(row, a)

Remember(i, a, v) ==
  IF i.trans THEN [i EXCEPT !.changes[a] = v] ELSE [i EXCEPT !.cache[a] = v]

\* The object after getAttributeDB: it keeps what it has read from the tables.
Noticed(i, row, a) ==
  LET v == accessAttribute(row, a)
  IN  IF InTransaction(i, a) \/ InCache(i, a) \/ v = Absent THEN i ELSE Remember(i, a, v)

\* setAttribute: an UPDATE of an attribute that is there, which may find no row, or
\* an INSERT, which fails for an object that is not there (the foreign key).
CanSet(i, row, a) == i.id /\ (getAttributeDB(i, row, a) = Absent => row.state = "there")
SetRow(row, a, v) == IF row.state = "there" THEN [row EXCEPT !.at[a] = v] ELSE row
-----------------------------------------------------------------------------
(* The connection *)

View(p) == IF conn[p].tx = "none" THEN db ELSE conn[p].data

NobodyElse(p, txs) == \A q \in Processes \ {p} : conn[q].tx \notin txs

\* sqlite3_get_autocommit.
inTransaction(p) == conn[p].tx # "none"

\* The lock each statement has to wait for.
CanBegin(p, access) == access = "rw" => NobodyElse(p, {"rw"})
CanCommit(p) == conn[p].tx = "rw" => NobodyElse(p, {"ro"})
CanWrite(p)  == IF inTransaction(p) THEN NobodyElse(p, {"rw"})
                ELSE NobodyElse(p, {"ro", "rw"})

Seen(data) ==
  past' = [o \in Objects |-> [a \in Attributes |->
             past[o][a] \union (IF data.row[o].state = "there" THEN {data.row[o].at[a]} ELSE {})]]

\* A statement that changes the data, in a transaction of the connection or on its own.
Write(p, data) ==
  /\ CanWrite(p)
  /\ IF inTransaction(p)
     THEN /\ conn' = [conn EXCEPT ![p] = [tx |-> "rw", data |-> data]]
          /\ UNCHANGED <<db, past>>
     ELSE /\ db' = data
          /\ Seen(data)
          /\ UNCHANGED conn

\* beginTransactionRW, beginTransactionRO.
Begin(p, access) ==
  /\ CanBegin(p, access)
  /\ conn' = [conn EXCEPT ![p] = [tx |-> access, data |-> db]]

CommitData(p) ==
  /\ CanCommit(p)
  /\ db' = conn[p].data
  /\ Seen(conn[p].data)
  /\ conn' = [conn EXCEPT ![p] = NoConn]

Rollback(p) == conn' = [conn EXCEPT ![p] = NoConn]
-----------------------------------------------------------------------------
(* Steps of a call *)

Phase(t, phase) == call' = [call EXCEPT ![t].phase = phase]
Return(t)       == call' = [call EXCEPT ![t] = NoCall]

\* resetToken deletes every object, each in a transaction of its own, before it
\* changes the token object.
CleanUp(t, todo) ==
  \/ /\ todo = {}
     /\ call' = [call EXCEPT ![t] = [NoCall EXCEPT !.op = "resetToken", !.phase = "start"]]
  \/ \E o \in todo :
       call' = [call EXCEPT ![t] = [NoCall EXCEPT !.op = "destroy", !.phase = "start",
                                     !.object = o, !.todo = todo \ {o}, !.reset = TRUE]]

\* The DBObject that a call works on.
Its(t) == object[ProcessOf[t]][call[t].object]
Becomes(t, i) == object' = [object EXCEPT ![ProcessOf[t]][call[t].object] = i]
ItsRow(t) == View(ProcessOf[t]).row[call[t].object]

History == <<tried, done, past, read>>
Bounds  == <<calls, crashes>>

Enter(t, new) ==
  /\ call[t] = NoCall
  /\ calls < MaxCalls
  /\ calls' = calls + 1
  /\ call' = [call EXCEPT ![t] = new]
  /\ UNCHANGED <<db, conn, object, crashes, History>>

\* An object of which the application has the handle.
Usable(t, o) == object[ProcessOf[t]][o].known /\ object[ProcessOf[t]][o].id

Call(op, phase) == [NoCall EXCEPT !.op = op, !.phase = phase]
OnObject(op, o) == [Call(op, "init") EXCEPT !.object = o, !.todo = Attributes]

C_GetAttributeValue(t, o) == Usable(t, o) /\ Enter(t, OnObject("get", o))
C_SetAttributeValue(t, o) == Usable(t, o) /\ Enter(t, OnObject("set", o))
C_DestroyObject(t, o) ==
  Usable(t, o) /\ Enter(t, [Call("destroy", "start") EXCEPT !.object = o])

\* The bound on the rows: one is left for every call that creates an object.
C_CreateObject(t) ==
  /\ Cardinality({s \in Threads : call[s].op = "create"})
       < Cardinality({o \in Objects : db.row[o].state = "unborn"})
  /\ Enter(t, Call("create", "start"))
getObjects(t)        == Enter(t, Call("list", "start"))
TokenFunction(t, op) ==
  Enter(t, CASE op \in {"updateLocalPIN", "setTokenFlags"} -> Call(op, "know")
             [] op = "resetToken" -> [Call("list", "start") EXCEPT !.reset = TRUE]
             [] OTHER -> Call(op, "start"))

\* P11Attribute::init: an attribute that does not exist gets its default.
setDefault(t, a) ==
  LET p == ProcessOf[t]
      i == Its(t)
      row == ItsRow(t)
  IN  /\ call[t].phase = "init"
      /\ a \in call[t].todo
      /\ \/ /\ getAttributeDB(i, row, a) # Absent
            /\ Becomes(t, Noticed(i, row, a))
            /\ call' = [call EXCEPT ![t].todo = @ \ {a}]
            /\ UNCHANGED <<db, conn, past>>
         \/ /\ getAttributeDB(i, row, a) = Absent
            /\ CanSet(i, row, a)
            /\ Write(p, [View(p) EXCEPT !.row[call[t].object] = SetRow(row, a, "default")])
            /\ Becomes(t, Remember(i, a, "default"))
            /\ call' = [call EXCEPT ![t].todo = @ \ {a}]
         \/ /\ getAttributeDB(i, row, a) = Absent
            /\ ~ CanSet(i, row, a) \/ ~ CanWrite(p)
            /\ Return(t)
            /\ UNCHANGED <<db, conn, object, past>>
      /\ UNCHANGED <<Bounds, tried, done, read>>

Initialised(t) ==
  /\ call[t].phase = "init"
  /\ call[t].todo = {}
  /\ Phase(t, IF call[t].op = "get" THEN "read" ELSE "start")
  /\ UNCHANGED <<db, conn, object, Bounds, History>>

\* loadTemplate reads an attribute.
loadTemplate(t, a) ==
  LET i == Its(t)
      row == ItsRow(t)
  IN  /\ call[t].phase = "read"
      /\ read' = [attribute |-> a, value |-> getAttributeDB(i, row, a),
                  stored |-> accessAttribute(db.row[call[t].object], a), trans |-> i.trans]
      /\ Becomes(t, Noticed(i, row, a))
      /\ Return(t)
      /\ UNCHANGED <<db, conn, Bounds, tried, done, past>>
-----------------------------------------------------------------------------
(* Transactions *)

\* The calls whose transaction is one of a DBObject that outlives the call; the
\* others use an object of their own, or, in getObjects, the connection itself.
Lasting(t) == call[t].op \in {"set", "destroy"}
Access(t)  == IF call[t].op = "list" THEN "ro" ELSE "rw"

startTransaction(t) ==
  LET p == ProcessOf[t]
  IN  /\ call[t].phase = "start"
      /\ ~ (Lasting(t) /\ Its(t).trans)
      /\ ~ inTransaction(p)
      /\ Begin(p, Access(t))
      /\ IF Lasting(t) THEN Becomes(t, [Its(t) EXCEPT !.trans = TRUE, !.changes = Nothing])
         ELSE UNCHANGED object
      /\ Phase(t, "body")
      /\ UNCHANGED <<db, Bounds, History>>

\* "Transaction is already active.", "Transaction in database is already active.", or
\* the busy timeout: the last two leave _transaction behind, and no caller aborts.
startTransaction_Fails(t) ==
  LET p == ProcessOf[t]
  IN  /\ call[t].phase = "start"
      /\ (Lasting(t) /\ Its(t).trans) \/ inTransaction(p) \/ ~ CanBegin(p, Access(t))
      /\ IF Lasting(t) /\ ~ Its(t).trans
         THEN Becomes(t, [Its(t) EXCEPT !.trans = TRUE, !.changes = Nothing])
         ELSE UNCHANGED object
      /\ IF call[t].op = "list" /\ call[t].reset THEN CleanUp(t, {}) ELSE Return(t)
      /\ UNCHANGED <<db, conn, Bounds, History>>

\* P11Object::saveTemplate sets an attribute, and may set another one.
setAttribute(t, a, v) ==
  LET p == ProcessOf[t]
      i == Its(t)
      row == ItsRow(t)
  IN  /\ call[t].op = "set" /\ call[t].phase = "body"
      /\ CanSet(i, row, a)
      /\ Write(p, [View(p) EXCEPT !.row[call[t].object] = SetRow(row, a, v)])
      /\ Becomes(t, Remember(i, a, v))
      /\ UNCHANGED <<call, Bounds, tried, done, read>>

\* DBObject::insert: the id is one that has never been used.
insert(t, o) ==
  LET p == ProcessOf[t]
  IN  /\ call[t].op = "create" /\ call[t].phase = "body"
      /\ View(p).row[o].state = "unborn"
      /\ Write(p, [View(p) EXCEPT !.row[o].state = "there"])
      /\ call' = [call EXCEPT ![t].phase = "done", ![t].object = o]
      /\ UNCHANGED <<object, Bounds, tried, done, read>>

remove(t) ==
  LET p == ProcessOf[t]
      o == call[t].object
  IN  /\ call[t].op = "destroy" /\ call[t].phase = "body"
      /\ Write(p, [View(p) EXCEPT !.row[o] = IF @.state = "there" /\ Its(t).id
                                             THEN [NoRow EXCEPT !.state = "deleted"] ELSE @])
      /\ Becomes(t, [Its(t) EXCEPT !.id = FALSE])
      /\ Phase(t, "done")
      /\ UNCHANGED <<Bounds, tried, done, read>>

\* A statement on the token object, and what the call does next.
ChangeToken(t, op, phase, data, next) ==
  /\ call[t].op = op /\ call[t].phase = phase
  /\ Write(ProcessOf[t], data)
  /\ Phase(t, next)
  /\ UNCHANGED <<object, Bounds, tried, done, read>>

\* Token data before a call: getLocalPIN, getTokenFlags.
getTokenData(t) ==
  LET data == View(ProcessOf[t])
  IN  /\ call[t].phase = "know"
      /\ call' = [call EXCEPT ![t].phase = "start",
                   ![t].known = [local |-> data.local, flag |-> data.flag]]
      /\ UNCHANGED <<db, conn, object, Bounds, History>>

\* The counter of the policy, with the PIN right or wrong; at zero it stays there.
advancePinPolicy(t, success) ==
  LET data == View(ProcessOf[t])
  IN  ChangeToken(t, "advancePinPolicy", "body",
        [data EXCEPT !.left = IF @ = 0 THEN 0 ELSE IF success THEN MaxTries ELSE @ - 1],
        IF data.left = 0 THEN "done" ELSE IF success THEN "right" ELSE "wrong")

advanceJournal(t) ==
  ChangeToken(t, "advanceJournal", "body", [View(ProcessOf[t]) EXCEPT !.journal = @ + 1], "done")

\* Mutant: the record is replaced whatever it is.
updateLocalPIN_Always(t) ==
  ChangeToken(t, "updateLocalPIN", "body",
    [View(ProcessOf[t]) EXCEPT !.local = call[t].known.local + 1], "done")

\* The record is replaced if it is the expected one.
updateLocalPIN(t) ==
  LET data == View(ProcessOf[t])
  IN  /\ data.local = call[t].known.local
      /\ ChangeToken(t, "updateLocalPIN", "body", [data EXCEPT !.local = @ + 1], "done")

updateLocalPIN_NotExpected(t) ==
  /\ call[t].op = "updateLocalPIN" /\ call[t].phase = "body"
  /\ View(ProcessOf[t]).local # call[t].known.local
  /\ Rollback(ProcessOf[t])
  /\ Return(t)
  /\ UNCHANGED <<db, object, Bounds, History>>

\* The PIN, and then the flags: what they are now, with a bit changed.
setUserPIN(t) ==
  \/ ChangeToken(t, "setUserPIN", "body", [View(ProcessOf[t]) EXCEPT !.userpin = TRUE], "flags")
  \/ ChangeToken(t, "setUserPIN", "flags", [View(ProcessOf[t]) EXCEPT !.flag = TRUE], "done")

\* Mutant: the flag stays as it is.
resetToken_FlagKept(t) ==
  ChangeToken(t, "resetToken", "body", [View(ProcessOf[t]) EXCEPT !.userpin = FALSE], "done")

\* What resetToken does to the token object.
resetToken(t) ==
  \/ ChangeToken(t, "resetToken", "body",
       [View(ProcessOf[t]) EXCEPT !.userpin = FALSE, !.local = 0], "flags")
  \/ ChangeToken(t, "resetToken", "flags", [View(ProcessOf[t]) EXCEPT !.flag = FALSE], "done")

\* The flags the caller has read before, another bit changed.
setTokenFlags(t) ==
  ChangeToken(t, "setTokenFlags", "body",
              [View(ProcessOf[t]) EXCEPT !.flag = call[t].known.flag], "done")

\* getObjects: a DBObject for every row that has none yet.
list(t) ==
  LET p == ProcessOf[t]
  IN  /\ call[t].op = "list" /\ call[t].phase = "body"
      /\ object' = [object EXCEPT ![p] = [o \in Objects |->
           IF View(p).row[o].state = "there" /\ ~ @[o].known THEN NewObject ELSE @[o]]]
      /\ call' = [call EXCEPT ![t].phase = "done",
                   ![t].todo = {o \in Objects : View(p).row[o].state = "there"}]
      /\ UNCHANGED <<db, conn, Bounds, History>>

\* Where each call may commit, and where it may find itself refused.
MayCommit(t) ==
  \/ call[t].op = "set" /\ call[t].phase = "body"
  \/ call[t].phase \in {"done", "right", "wrong"}

Committed(i) ==
  [i EXCEPT !.cache = [a \in Attributes |->
                         IF i.changes[a] = Unread THEN @[a] ELSE i.changes[a]],
            !.trans = FALSE, !.changes = Nothing]

commitTransaction(t) ==
  LET p == ProcessOf[t]
      create == call[t].op = "create"
  IN  /\ MayCommit(t)
      /\ inTransaction(p)
      /\ CommitData(p)
      /\ IF Lasting(t) THEN Becomes(t, Committed(Its(t)))
         ELSE IF create THEN Becomes(t, NewObject)
         ELSE UNCHANGED object
      /\ IF create   \* CreateObject goes on with its template
         THEN call' = [call EXCEPT ![t].op = "set", ![t].phase = "init", ![t].todo = Attributes]
         ELSE IF call[t].reset THEN CleanUp(t, call[t].todo) ELSE Return(t)
      /\ tried' = CASE call[t].phase = "right" -> 0
                    [] call[t].phase = "wrong" -> tried + 1
                    [] OTHER -> tried
      /\ done' = CASE call[t].op = "advanceJournal" -> [done EXCEPT !.journal = @ + 1]
                   [] call[t].op = "updateLocalPIN" -> [done EXCEPT !.local = @ + 1]
                   [] call[t].op = "resetToken" -> [done EXCEPT !.local = 0]
                   [] OTHER -> done
      /\ UNCHANGED <<Bounds, read>>

\* The commit does not happen: saveTemplate returns and leaves the transaction as it
\* is; the functions of DBToken abort it, where remove has invalidated the object.
commitTransaction_Fails(t) ==
  LET p == ProcessOf[t]
  IN  /\ MayCommit(t)
      /\ ~ inTransaction(p) \/ ~ CanCommit(p)
      /\ IF call[t].op \in {"set", "list"} THEN UNCHANGED <<conn, object>>
         ELSE /\ Rollback(p)
              /\ IF Lasting(t) THEN Becomes(t, [Its(t) EXCEPT !.trans = FALSE, !.changes = Nothing])
                 ELSE UNCHANGED object
      /\ Return(t)
      /\ UNCHANGED <<db, Bounds, History>>

\* Mutant: the values of the transaction are kept.
abortTransaction_Kept(t) ==
  /\ call[t].op = "set" /\ call[t].phase = "body"
  /\ Becomes(t, Committed(Its(t)))
  /\ Rollback(ProcessOf[t])
  /\ Return(t)
  /\ UNCHANGED <<db, Bounds, History>>

\* An entry of the template is refused.
abortTransaction(t) ==
  /\ call[t].op = "set" /\ call[t].phase = "body"
  /\ Becomes(t, [Its(t) EXCEPT !.trans = FALSE, !.changes = Nothing])
  /\ Rollback(ProcessOf[t])
  /\ Return(t)
  /\ UNCHANGED <<db, Bounds, History>>
-----------------------------------------------------------------------------
\* A process dies and is started again: SQLite rolls its transaction back.
Crash(p) ==
  /\ crashes < MaxCrashes
  /\ crashes' = crashes + 1
  /\ conn' = [conn EXCEPT ![p] = NoConn]
  /\ object' = [object EXCEPT ![p] = [o \in Objects |-> NoObject]]
  /\ call' = [t \in Threads |-> IF ProcessOf[t] = p THEN NoCall ELSE call[t]]
  /\ UNCHANGED <<db, calls, History>>

Calls(t) ==
  \/ \E o \in Objects :
       \/ C_GetAttributeValue(t, o)
       \/ C_SetAttributeValue(t, o)
       \/ C_DestroyObject(t, o)
  \/ C_CreateObject(t)
  \/ getObjects(t)
  \/ \E op \in TokenFunctions : TokenFunction(t, op)

Steps(t) ==
  \/ \E a \in Attributes :
       \/ setDefault(t, a)
       \/ loadTemplate(t, a)
       \/ \E v \in Values : setAttribute(t, a, v)
  \/ Initialised(t)
  \/ startTransaction(t)
  \/ startTransaction_Fails(t)
  \/ \E o \in Objects : insert(t, o)
  \/ remove(t)
  \/ getTokenData(t)
  \/ \E success \in BOOLEAN : advancePinPolicy(t, success)
  \/ advanceJournal(t)
  \/ updateLocalPIN(t)
  \/ updateLocalPIN_NotExpected(t)
  \/ setUserPIN(t)
  \/ setTokenFlags(t)
  \/ resetToken(t)
  \/ list(t)
  \/ commitTransaction(t)
  \/ commitTransaction_Fails(t)
  \/ abortTransaction(t)

Next ==
  \/ \E t \in Threads : Calls(t) \/ Steps(t)
  \/ \E p \in Processes : Crash(p)

Spec == Init /\ [][Next]_vars
-----------------------------------------------------------------------------
(* Properties *)

\* The phases of a call, and those in which it has the transaction of its process.
Phases == {"none", "init", "read", "know", "start", "body", "flags", "done", "right", "wrong"}
InTx   == {"body", "flags", "done", "right", "wrong"}

CallType ==
  [op : CallOps, phase : Phases, object : Objects \union {"none"}, todo : SUBSET (Attributes \union Objects),
   known : [local : Nat, flag : BOOLEAN], reset : BOOLEAN]

\* The types; an object's changes are those of a transaction, and one in the middle
\* of being created is nobody's yet.
TypeOK ==
  /\ db \in Data
  /\ conn \in [Processes -> [tx : {"none", "ro", "rw"}, data : Data]]
  /\ object \in [Processes -> [Objects -> DBObject]]
  /\ \A p \in Processes, o \in Objects :
       LET i == object[p][o]
       IN  /\ ~ i.trans => i.changes = Nothing
           /\ i.known => db.row[o].state # "unborn"
  /\ call \in [Threads -> CallType]
  /\ tried \in Nat /\ done \in [journal : Nat, local : Nat]

\* The retry counter, the journal's count and the record of a local PIN are what the
\* calls that returned add up to: no process overwrites what another one counted.
NoUpdateLost ==
  /\ db.left = IF tried > MaxTries THEN 0 ELSE MaxTries - tried
  /\ db.journal = done.journal
  /\ db.local = done.local

\* The user PIN and CKF_USER_PIN_INITIALIZED are set, and reset, by one commit.
PinAndFlagTogether == [][db'.userpin # db.userpin => db'.flag = db'.userpin]_vars

\* What C_GetAttributeValue returns of an attribute is what is committed, whichever
\* process has changed it; but for the changeable attributes that isModifiable leaves
\* out, and an object that has been left with a transaction that never started.
LeftOut == {"CKA_WRAP_WITH_TRUSTED", "CKA_GOSTR3411_PARAMS"}

ReadsCommitted ==
  read.attribute \notin LeftOut /\ ~ read.trans => read.value = read.stored

\* A process keeps no value that has not been committed: not after an abort, a failed
\* commit, or the crash of another process.  (An UPDATE of an object that another
\* process has deleted changes nothing and does not fail.)
OnlyCommittedCached ==
  \A p \in Processes, o \in Objects, a \in Attributes :
    db.row[o].state = "there" => object[p][o].cache[a] \in past[o][a] \union {Unread}
-----------------------------------------------------------------------------
(* The invariant by which NoUpdateLost and PinAndFlagTogether are proved, in        *)
(* DBStore_proofs                                                                   *)

\* Which calls have an object, and which phases they go through.
CallOK(c) ==
  /\ c.op \in {"get", "set", "destroy"} => c.object \in Objects
  /\ c.op = "create" /\ c.phase = "done" => c.object \in Objects
  /\ c.phase = "init" => c.op \in {"get", "set"}
  /\ c.phase = "read" => c.op = "get"
  /\ c.phase = "flags" => c.op \in {"setUserPIN", "resetToken"}
  /\ c.phase \in {"right", "wrong"} => c.op = "advancePinPolicy"
  /\ c.phase = "know" => c.op \in {"updateLocalPIN", "setTokenFlags"}
  /\ c.phase \in InTx \union {"start"} => c.op \notin {"none", "get"}
  /\ c.reset => c.op \in {"list", "destroy"} /\ c.todo \subseteq Objects

CallsOK == \A t \in Threads : CallOK(call[t])

\* SQLite: one connection writes, and what the others have read is still so.
OneWriter ==
  \A p, q \in Processes : conn[p].tx = "rw" /\ conn[q].tx = "rw" => p = q
Snapshots ==
  \A p \in Processes :
    /\ conn[p].tx = "ro" => conn[p].data = db
    /\ conn[p].tx # "none" =>
         \A o \in Objects : db.row[o].state # "unborn" => conn[p].data.row[o].state # "unborn"

\* A call in its transaction is the only one of its process, and changes things in a
\* transaction that can write.
OwnersOK ==
  /\ \A t \in Threads : call[t].phase \in InTx =>
       /\ conn[ProcessOf[t]].tx # "none"
       /\ call[t].op # "list" => conn[ProcessOf[t]].tx = "rw"
  /\ \A s, t \in Threads :
       call[s].phase \in InTx /\ call[t].phase \in InTx /\ ProcessOf[s] = ProcessOf[t] => s = t

\* How far the data d of a call's transaction is ahead of the committed data e.
Ahead(c, d, e) ==
  /\ d.left = IF c.phase = "right" THEN MaxTries ELSE IF c.phase = "wrong" THEN e.left - 1 ELSE e.left
  /\ c.phase \in {"right", "wrong"} => e.left # 0
  /\ d.journal = IF c.op = "advanceJournal" /\ c.phase = "done" THEN e.journal + 1 ELSE e.journal
  /\ d.local = IF c.op = "updateLocalPIN" /\ c.phase = "done" THEN e.local + 1
               ELSE IF c.op = "resetToken" /\ c.phase \in {"flags", "done"} THEN 0 ELSE e.local
  /\ d.userpin = IF c.op = "setUserPIN" /\ c.phase \in {"flags", "done"} THEN TRUE
                 ELSE IF c.op = "resetToken" /\ c.phase \in {"flags", "done"} THEN FALSE ELSE e.userpin
  /\ c.op = "setUserPIN" /\ c.phase = "done" => d.flag = TRUE
  /\ c.op = "resetToken" /\ c.phase = "done" => d.flag = FALSE
  /\ c.op = "list" => \A o \in Objects : d.row[o].state = e.row[o].state
  /\ c.op = "create" /\ c.phase = "done" => d.row[c.object].state = "there"

TransactionsOK ==
  \A t \in Threads : call[t].phase \in InTx => Ahead(call[t], conn[ProcessOf[t]].data, db)

Inv ==
  /\ TypeOK /\ CallsOK /\ OneWriter /\ Snapshots /\ OwnersOK /\ TransactionsOK
  /\ NoUpdateLost

=============================================================================
