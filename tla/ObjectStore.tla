---------------------------- MODULE ObjectStore ----------------------------
(***************************************************************************)
(* src/lib/object_store: OSToken.cpp, ObjectFile.cpp and Generation.cpp.   *)
(* Several processes share a token directory: token.object, an object file *)
(* and a lock file for each object, and the file "generation".             *)
(*                                                                         *)
(* A process caches every object with the generation number it read.  An   *)
(* object file is read and written under an fcntl lock on it, so each      *)
(* reading and each writing is one action; a transaction spans several of  *)
(* them under the lock file.  Each process has one thread, the mutexes of  *)
(* the code are between threads.  A process has one ObjectFile for a name: *)
(* the code makes another one for a deleted object that comes back, of     *)
(* which nothing is claimed here.                                          *)
(*                                                                         *)
(* Of the attributes of an object only one is kept, a number that every    *)
(* transaction increases, as advancePinPolicy counts down the tries of a   *)
(* PIN: an update is lost when the number falls behind.  In an object the  *)
(* first increase stands for CKA_CLASS, without which it has no class and  *)
(* is refused an update.  A file is always written as a whole, with the    *)
(* writer's value of every attribute.                                      *)
(***************************************************************************)
EXTENDS Naturals

CONSTANTS
  Processes,
  Objects,     \* names of object files; a name is a UUID and used once
  Token,       \* token.object
  MaxWrites,   \* bound on the writings of each file
  MaxDirGen,   \* bound on the number in the file "generation"
  MaxCrashes   \* bound on crashes

Files == Objects \union {Token}

ASSUME ConstantsOK ==
  /\ Token \notin Objects
  /\ MaxWrites \in [Files -> Nat \ {0}] /\ MaxDirGen \in Nat \ {0} /\ MaxCrashes \in Nat

VARIABLES
  file,      \* the object files: NoFile, or a generation number and the attribute
  lockFile,  \* the inode of each lock file, 0 if there is none
  inodes,    \* inodes used for each lock file so far
  dirGen,    \* the number in the file "generation"
  known,     \* OSToken::gen->currentValue of each process
  current,   \* OSToken::currentFiles
  obj,       \* the ObjectFile of each file
  held,      \* inode of the lock file that transactionLockFile has locked
  call,      \* what each process is doing
  crashes,
  writes,    \* how often each file was written
  done,      \* history: transactions committed on each file
  deleted,   \* history: objects that were deleted
  early      \* history: objects that were updated while they were being created

disk    == <<file, lockFile, inodes, dirGen, writes>>
memory  == <<known, current, obj, held>>
history == <<done, deleted, early>>
vars    == <<disk, memory, call, crashes, history>>

NoFile == [gen |-> 0, n |-> 0, exists |-> FALSE]
Empty  == [gen |-> 0, n |-> 0, exists |-> TRUE]
Contents(g, v) == [gen |-> g, n |-> v, exists |-> TRUE]

NoObject == [valid |-> FALSE, gen |-> 0, n |-> 0, known |-> FALSE]
Cached(g, v) == [valid |-> TRUE, gen |-> g, n |-> v, known |-> TRUE]

Idle == [at |-> "idle", op |-> "none", f |-> Token, ino |-> 0, todo |-> {}]
Down == [at |-> "down", op |-> "none", f |-> Token, ino |-> 0, todo |-> {}]

At(p, point) == call[p].at = point
Goto(p, point) == call' = [call EXCEPT ![p].at = point]
Return(p) == call' = [call EXCEPT ![p] = Idle]
Start(p, op, f, point) ==
  /\ At(p, "idle")
  /\ call' = [call EXCEPT ![p] = [at |-> point, op |-> op, f |-> f, ino |-> 0, todo |-> {}]]

\* A token was created earlier; no process has it open.
Init ==
  /\ file     = [f \in Files |-> IF f = Token THEN Contents(1, 0) ELSE NoFile]
  /\ lockFile = [f \in Files |-> IF f = Token THEN 1 ELSE 0]
  /\ inodes   = lockFile
  /\ dirGen   = 1
  /\ writes   = [f \in Files |-> IF f = Token THEN 1 ELSE 0]
  /\ known    = [p \in Processes |-> 0]
  /\ current  = [p \in Processes |-> {}]
  /\ obj      = [p \in Processes |-> [f \in Files |-> NoObject]]
  /\ held     = [p \in Processes |-> 0]
  /\ call     = [p \in Processes |-> Down]
  /\ crashes  = 0
  /\ done     = [f \in Files |-> 0]
  /\ deleted  = {}
  /\ early    = {}
-----------------------------------------------------------------------------
(* Reading *)

\* ObjectFile::refresh once it has decided to read: o is the ObjectFile.
Reread(o, f) ==
  IF ~ file[f].exists THEN [o EXCEPT !.valid = FALSE]
  ELSE IF file[f] = Empty THEN o
  ELSE Cached(file[f].gen, file[f].n)

\* new ObjectFile for a file that exists
Loaded(f) == Reread(Cached(0, 0), f)

\* Generation::wasUpdated for an object file
wasUpdated(o, f) == ~ file[f].exists \/ file[f] = Empty \/ file[f].gen # o.gen

\* OSToken's constructor, up to index(true).
Open(p) ==
  /\ At(p, "down")
  /\ known' = [known EXCEPT ![p] = dirGen]
  /\ obj'   = [obj EXCEPT ![p][Token] = Loaded(Token)]
  /\ call'  = [call EXCEPT ![p] = [at |-> "list", op |-> "list", f |-> Token, ino |-> 0, todo |-> {}]]
  /\ UNCHANGED <<disk, current, held, crashes, history>>

getObjects(p) ==
  /\ Start(p, "list", Token, "index")
  /\ UNCHANGED <<disk, memory, crashes, history>>

\* OSToken::index: is the directory as it was?
index(p) ==
  /\ At(p, "index")
  /\ known' = [known EXCEPT ![p] = dirGen]
  /\ IF known[p] # dirGen THEN Goto(p, "list")
     ELSE IF call[p].op = "list" THEN Return(p) ELSE Goto(p, "refresh")
  /\ UNCHANGED <<disk, current, obj, held, crashes, history>>

\* Then list it, forget what is gone, and look at what is new.
List(p) ==
  LET present == {f \in Objects : file[f].exists}
  IN  /\ At(p, "list")
      /\ current' = [current EXCEPT ![p] = present]
      /\ obj' = [obj EXCEPT ![p] = [f \in Files |->
                   IF f \in current[p] \ present THEN [@[f] EXCEPT !.valid = FALSE] ELSE @[f]]]
      /\ call' = [call EXCEPT ![p].at = "load", ![p].todo = present \ current[p]]
      /\ UNCHANGED <<disk, known, held, crashes, history>>

Load(p) ==
  /\ At(p, "load")
  /\ \/ \E f \in call[p].todo :
          /\ obj'  = [obj EXCEPT ![p][f] = Loaded(f)]
          /\ call' = [call EXCEPT ![p].todo = @ \ {f}]
     \/ /\ call[p].todo = {}
        /\ IF call[p].op = "list" THEN Return(p) ELSE Goto(p, "refresh")
        /\ UNCHANGED obj
  /\ UNCHANGED <<disk, known, current, held, crashes, history>>

\* ObjectFile::refresh after the index, for isValid or getTokenFlags.  The check
\* of the generation and the reading lock the file separately; a change between
\* the two is read.
Refreshed(p, f) ==
  IF wasUpdated(obj[p][f], f) THEN Reread(obj[p][f], f) ELSE obj[p][f]

\* What the caller does next with a valid object.  C_SetAttributeValue refuses an
\* object without a class, and both it and C_DestroyObject may refuse for the
\* session's state or for CKA_MODIFIABLE and CKA_DESTROYABLE: they have then
\* read the object and no more.
NextPoints(op, o) ==
  IF ~ o.valid THEN {"refuse"}
  ELSE CASE op = "update" /\ o.n = 0 -> {"refuse"}
         [] op = "update" /\ o.n > 0 -> {"open", "refuse"}
         [] op = "delete"            -> {"delete", "refuse"}
         [] op = "flags"             -> {"store"}

BeingCreated(f) == \E q \in Processes : call[q].op = "create" /\ call[q].f = f

refresh(p) ==
  LET f == call[p].f
      o == Refreshed(p, f)
  IN  /\ At(p, "refresh")
      /\ obj' = [obj EXCEPT ![p][f] = o]
      /\ \E point \in NextPoints(call[p].op, o) :
           /\ IF point = "refuse" THEN Return(p) ELSE Goto(p, point)
           /\ early' = IF point = "open" /\ BeingCreated(f) THEN early \union {f} ELSE early
      /\ UNCHANGED <<disk, known, current, held, crashes, done, deleted>>
-----------------------------------------------------------------------------
(* Writing *)

\* Mutant: the number comes from the cache, not from the file.
Write_NoSync(p, f, v) ==
  /\ writes[f] < MaxWrites[f]
  /\ writes' = [writes EXCEPT ![f] = @ + 1]
  /\ file' = [file EXCEPT ![f] = Contents(obj[p][f].gen + 1, v)]
  /\ obj'  = [obj EXCEPT ![p][f] = Cached(obj[p][f].gen + 1, v)]

\* store: the whole cache, with the next number after the one in the file; a
\* file that has disappeared is made again.
Write(p, f, v) ==
  /\ writes[f] < MaxWrites[f]
  /\ writes' = [writes EXCEPT ![f] = @ + 1]
  /\ file' = [file EXCEPT ![f] = Contents(file[f].gen + 1, v)]
  /\ obj'  = [obj EXCEPT ![p][f] = Cached(file[f].gen + 1, v)]

\* Opening a lock file makes it if there is none.
LockFileFor(f) == IF lockFile[f] = 0 THEN inodes[f] + 1 ELSE lockFile[f]
OpenLockFile(f) ==
  /\ lockFile' = [lockFile EXCEPT ![f] = LockFileFor(f)]
  /\ inodes'   = [inodes EXCEPT ![f] = IF LockFileFor(f) > @ THEN LockFileFor(f) ELSE @]

\* setAttribute outside of a transaction: the lock file is opened, not locked.
Store(p, f, v) == Write(p, f, v) /\ OpenLockFile(f)

\* C_SetAttributeValue: isValid, then saveTemplate's transaction.
Update(p, f) ==
  /\ f \in Objects /\ obj[p][f].known
  /\ Start(p, "update", f, "index")
  /\ UNCHANGED <<disk, memory, crashes, history>>

\* Token::pinResult: advancePinPolicy's transaction, then the flags.
pinResult(p) ==
  /\ Start(p, "pin", Token, "open")
  /\ UNCHANGED <<disk, memory, crashes, history>>

\* startTransaction opens the lock file ...
startTransaction(p) ==
  LET f == call[p].f
  IN  /\ At(p, "open")
      /\ OpenLockFile(f)
      /\ call' = [call EXCEPT ![p].at = "lock", ![p].ino = LockFileFor(f)]
      /\ UNCHANGED <<file, dirGen, writes, memory, crashes, history>>

\* ... waits for the lock on it ...
Lock(p) ==
  /\ At(p, "lock")
  /\ \A q \in Processes : call[q].f = call[p].f => held[q] # call[p].ino
  /\ held' = [held EXCEPT ![p] = call[p].ino]
  /\ Goto(p, "reload")
  /\ UNCHANGED <<disk, known, current, obj, crashes, history>>

\* Mutant: the cache is not read again under the lock.
Reload_Cached(p) ==
  /\ At(p, "reload")
  /\ Goto(p, "commit")
  /\ UNCHANGED <<disk, memory, crashes, history>>

\* Mutant: the lock stays when the object turns out to be gone.
Reload_NoUnlock(p) ==
  LET f == call[p].f  o == Reread(obj[p][f], f)
  IN  /\ At(p, "reload")
      /\ obj' = [obj EXCEPT ![p][f] = o]
      /\ IF o.valid THEN Goto(p, "commit") ELSE Return(p)
      /\ UNCHANGED <<disk, known, current, held, crashes, history>>

\* ... and reads the object again.
Reload(p) ==
  LET f == call[p].f  o == Reread(obj[p][f], f)
  IN  /\ At(p, "reload")
      /\ obj' = [obj EXCEPT ![p][f] = o]
      /\ IF o.valid THEN Goto(p, "commit") /\ UNCHANGED held
                    ELSE Return(p) /\ held' = [held EXCEPT ![p] = 0]
      /\ UNCHANGED <<disk, known, current, crashes, history>>

\* setAttribute changes the cache, commitTransaction writes it and unlocks.
commitTransaction(p) ==
  LET f == call[p].f
  IN  /\ At(p, "commit")
      /\ Write(p, f, obj[p][f].n + 1)
      /\ held' = [held EXCEPT ![p] = 0]
      /\ done' = [done EXCEPT ![f] = @ + 1]
      /\ IF call[p].op = "pin"
           THEN call' = [call EXCEPT ![p].at = "index", ![p].op = "flags"]
           ELSE Return(p)
      /\ UNCHANGED <<lockFile, inodes, dirGen, known, current, crashes, deleted, early>>

\* A value that saveTemplate refuses: unlock, then refresh(true).  An object that
\* was being created stays as it is.
abortTransaction(p) ==
  /\ At(p, "commit") /\ call[p].op \in {"update", "create"}
  /\ held' = [held EXCEPT ![p] = 0]
  /\ Goto(p, "reread")
  /\ UNCHANGED <<disk, known, current, obj, crashes, history>>

RereadAfterAbort(p) ==
  LET f == call[p].f
  IN  /\ At(p, "reread")
      /\ obj' = [obj EXCEPT ![p][f] = Reread(@, f)]
      /\ Return(p)
      /\ UNCHANGED <<disk, known, current, held, crashes, history>>

\* setTokenFlags, outside of the transaction.
setTokenFlags(p) ==
  /\ At(p, "store")
  /\ Store(p, Token, obj[p][Token].n)
  /\ Return(p)
  /\ UNCHANGED <<dirGen, known, current, held, crashes, history>>
-----------------------------------------------------------------------------
(* Creating and deleting objects *)

\* CreateObject: createObject opens the new file, then locks and writes it ...
createObject(p, f) ==
  /\ f \in Objects /\ inodes[f] = 0 /\ ~ file[f].exists
  /\ Start(p, "create", f, "create")
  /\ file' = [file EXCEPT ![f] = Empty]
  /\ UNCHANGED <<lockFile, inodes, dirGen, writes, memory, crashes, history>>

CreateStore(p) ==
  LET f == call[p].f
  IN  /\ At(p, "create")
      /\ Store(p, f, 0)
      /\ current'  = [current EXCEPT ![p] = @ \union {f}]
      /\ Goto(p, "generation")
      /\ UNCHANGED <<dirGen, known, held, crashes, history>>

\* ... then P11Object::init gives it a class and the defaults of the class, each
\* stored outside of a transaction; then saveTemplate's transaction.
P11Object_init(p) ==
  LET f == call[p].f
  IN  /\ \/ /\ At(p, "class")
            /\ Store(p, f, obj[p][f].n + 1)
            /\ done' = [done EXCEPT ![f] = @ + 1]
            /\ Goto(p, "defaults")
         \/ /\ At(p, "defaults")
            /\ Store(p, f, obj[p][f].n)
            /\ UNCHANGED done
            /\ Goto(p, "open")
      /\ UNCHANGED <<dirGen, known, current, held, crashes, deleted, early>>

\* deleteObject removes the object and its lock file.  It fails where one of them
\* is gone already.
Delete(p, f) ==
  /\ f \in Objects /\ obj[p][f].known
  /\ Start(p, "delete", f, "index")
  /\ UNCHANGED <<disk, memory, crashes, history>>

deleteObject(p) ==
  LET f == call[p].f
  IN  /\ At(p, "delete")
      /\ obj'  = [obj EXCEPT ![p][f].valid = FALSE]
      /\ file' = [file EXCEPT ![f] = NoFile]
      /\ deleted' = deleted \union {f}
      /\ IF file[f].exists THEN Goto(p, "delete.lock") ELSE Return(p)
      /\ UNCHANGED <<lockFile, inodes, dirGen, writes, known, current, held, crashes, done, early>>

DeleteLock(p) ==
  LET f == call[p].f
  IN  /\ At(p, "delete.lock")
      /\ lockFile' = [lockFile EXCEPT ![f] = 0]
      /\ IF lockFile[f] # 0 THEN Goto(p, "generation") ELSE Return(p)
      /\ UNCHANGED <<file, inodes, dirGen, writes, memory, crashes, history>>

\* Both end with gen->update() and gen->commit(), which count the number in the
\* file up and take the result for the one that was last seen.
commitGeneration(p) ==
  /\ At(p, "generation")
  /\ dirGen < MaxDirGen
  /\ dirGen' = dirGen + 1
  /\ known'  = [known EXCEPT ![p] = dirGen + 1]
  /\ IF call[p].op = "create" THEN Goto(p, "class") ELSE Return(p)
  /\ UNCHANGED <<file, lockFile, inodes, writes, current, obj, held, crashes, history>>

\* A process ends, anywhere but while it writes a file.  Its locks are gone.
Crash(p) ==
  /\ ~ At(p, "down") /\ crashes < MaxCrashes
  /\ crashes' = crashes + 1
  /\ call'    = [call EXCEPT ![p] = Down]
  /\ known'   = [known EXCEPT ![p] = 0]
  /\ current' = [current EXCEPT ![p] = {}]
  /\ obj'     = [obj EXCEPT ![p] = [f \in Files |-> NoObject]]
  /\ held'    = [held EXCEPT ![p] = 0]
  /\ UNCHANGED <<disk, history>>

Next == \E p \in Processes :
  \/ Open(p) \/ getObjects(p) \/ index(p) \/ List(p) \/ Load(p) \/ refresh(p)
  \/ \E f \in Files : Update(p, f) \/ Delete(p, f) \/ createObject(p, f)
  \/ pinResult(p) \/ startTransaction(p) \/ Lock(p) \/ Reload(p)
  \/ commitTransaction(p) \/ abortTransaction(p) \/ RereadAfterAbort(p)
  \/ setTokenFlags(p)
  \/ CreateStore(p) \/ P11Object_init(p) \/ deleteObject(p) \/ DeleteLock(p) \/ commitGeneration(p)
  \/ Crash(p)

Spec == Init /\ [][Next]_vars
-----------------------------------------------------------------------------
FileStates == [gen : Nat, n : Nat, exists : BOOLEAN]
ObjectStates == [valid : BOOLEAN, gen : Nat, n : Nat, known : BOOLEAN]

\* Types; an object is valid only with a generation number that was read or
\* written, or before its file was first written.
TypeOK ==
  /\ file \in [Files -> FileStates]
  /\ lockFile \in [Files -> Nat] /\ inodes \in [Files -> Nat]
  /\ dirGen \in 1..MaxDirGen /\ known \in [Processes -> 0..MaxDirGen]
  /\ current \in [Processes -> SUBSET Objects]
  /\ obj \in [Processes -> [Files -> ObjectStates]]
  /\ held \in [Processes -> Nat]
  /\ writes \in [Files -> Nat] /\ crashes \in 0..MaxCrashes
  /\ done \in [Files -> Nat] /\ deleted \subseteq Objects /\ early \subseteq Objects
  /\ \A f \in Files : /\ file[f].gen <= writes[f] /\ writes[f] <= MaxWrites[f]
                      /\ \A p \in Processes : obj[p][f].gen <= writes[f]

\* "The Generation object that is used to detect changes in the object file from
\* other SoftHSM instances": a cache with the number of the file has the contents
\* of the file, so that a stale one is always found out.
StaleCacheNoticed ==
  \A p \in Processes, f \in Files \ deleted :
    obj[p][f].valid /\ file[f].exists /\ obj[p][f].gen = file[f].gen => obj[p][f].n = file[f].n

\* "The lock protects a read-modify-write transaction across processes": no
\* transaction on an object overwrites another one, unless it began while the
\* object was still being created.
NoLostUpdate ==
  \A f \in Objects \ (deleted \union early) : file[f].n = done[f]

\* The lock of a transaction is held exactly while it is open, whichever way it
\* ends: it never keeps another process waiting for ever.
LocksReleased ==
  \A p \in Processes : held[p] # 0 <=> At(p, "reload") \/ At(p, "commit")

\* The same of the retry counters of the token: one process's attempt "must not
\* overwrite the counter of another process" (docs/RUTOKEN-EXTENSIONS.md).
AttemptsKept == file[Token].n = done[Token]
-----------------------------------------------------------------------------
(* The invariant by which these are proved, in ObjectStore_proofs *)

\* Where a call can be, and the files it can be about.
PointsOf(op) ==
  CASE op = "none"   -> {"idle", "down"}
    [] op = "list"   -> {"index", "list", "load"}
    [] op = "flags"  -> {"index", "list", "load", "refresh", "store"}
    [] op = "pin"    -> {"open", "lock", "reload", "commit"}
    [] op = "update" -> {"index", "list", "load", "refresh", "open", "lock", "reload", "commit", "reread"}
    [] op = "delete" -> {"index", "list", "load", "refresh", "delete", "delete.lock", "generation"}
    [] op = "create" -> {"create", "generation", "class", "defaults", "open", "lock", "reload", "commit", "reread"}

Ops == {"none", "list", "flags", "pin", "update", "delete", "create"}
Calls == {c \in [at : UNION {PointsOf(op) : op \in Ops}, op : Ops, f : Files, ino : Nat, todo : SUBSET Objects] :
            /\ c.at \in PointsOf(c.op)
            /\ c.op \in {"update", "delete", "create"} <=> c.f \in Objects}

CallsOK == call \in [Processes -> Calls]

\* What is on the disk of a file that was not deleted: every writing has another
\* number, the lock file stays once the file has been written.
FilesOK ==
  \A f \in Files \ deleted :
    /\ file[f].gen = writes[f]
    /\ ~ file[f].exists => file[f] = NoFile
    /\ lockFile[f] = inodes[f]
    /\ inodes[f] = 0 <=> file[f].gen = 0
    /\ file[f].gen = 0 => file[f].n = 0
    /\ f = Token => file[f].gen # 0

\* A transaction begins only on a file that was written before.
WrittenOK ==
  \A p \in Processes :
    /\ call[p].f \notin deleted
    /\ \/ At(p, "open")
       \/ call[p].op = "create" /\ call[p].at \in {"generation", "class", "defaults"}
    => file[call[p].f].gen # 0

\* No cache is ahead of the file, nor differs from it at the same number.
CachesOK ==
  \A p \in Processes, f \in Files \ deleted :
    /\ obj[p][f].gen <= file[f].gen
    /\ obj[p][f].gen = file[f].gen => obj[p][f].n = file[f].n

\* A transaction holds the lock it opened, two on the same file different ones, and
\* the lock is that of the lock file unless the object was deleted.
LocksOK ==
  /\ \A p \in Processes :
       /\ At(p, "lock") \/ At(p, "reload") \/ At(p, "commit") =>
            /\ call[p].ino # 0
            /\ call[p].f \notin deleted => call[p].ino = lockFile[call[p].f]
       /\ At(p, "reload") \/ At(p, "commit") => held[p] = call[p].ino
       /\ At(p, "delete.lock") => call[p].f \in deleted
  /\ \A p, q \in Processes :
       p # q /\ held[p] # 0 /\ call[p].f = call[q].f => held[p] # held[q]

\* One process creates an object, which is there as long as it is not deleted.
CreatorsOK ==
  \A p \in Processes : call[p].op = "create" /\ call[p].f \notin deleted =>
    /\ file[call[p].f].exists
    /\ At(p, "create") => file[call[p].f].gen = 0
    /\ \A q \in Processes : call[q].op = "create" /\ call[q].f = call[p].f => q = p

\* Others begin transactions only after the creator has finished, or ended.
UpdatersOK ==
  \A p \in Processes :
    /\ call[p].op = "update" /\ call[p].at \in {"open", "lock", "reload", "commit"}
    /\ call[p].f \notin deleted \union early
    => file[call[p].f].exists /\ ~ BeingCreated(call[p].f)

\* The value about to be written was read from the file, and no one wrote since.
WritersOK ==
  \A p \in Processes :
    /\ call[p].f \in Objects \ (deleted \union early)
    /\ \/ call[p].op = "create" /\ call[p].at \in {"generation", "class", "defaults"}
       \/ At(p, "commit")
    => obj[p][call[p].f].gen = file[call[p].f].gen

Inv ==
  /\ TypeOK /\ CallsOK /\ FilesOK /\ WrittenOK /\ CachesOK /\ LocksReleased /\ LocksOK
  /\ CreatorsOK /\ UpdatersOK /\ WritersOK /\ NoLostUpdate

=============================================================================
