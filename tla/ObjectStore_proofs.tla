------------------------ MODULE ObjectStore_proofs ------------------------
(***************************************************************************)
(* Proofs about ObjectStore for any processes, objects and bounds.         *)
(***************************************************************************)
EXTENDS ObjectStore, TLAPS

\* The fields of a call.
LEMMA CallFields ==
  ASSUME NEW at, NEW op \in Ops, NEW f \in Files, NEW ino \in Nat, NEW todo \in SUBSET Objects,
         at \in PointsOf(op), op \in {"update", "delete", "create"} <=> f \in Objects
  PROVE  [at |-> at, op |-> op, f |-> f, ino |-> ino, todo |-> todo] \in Calls
BY DEF Calls

\* The values of PointsOf.
LEMMA Points ==
  /\ PointsOf("none")   = {"idle", "down"}
  /\ PointsOf("list")   = {"index", "list", "load"}
  /\ PointsOf("flags")  = {"index", "list", "load", "refresh", "store"}
  /\ PointsOf("pin")    = {"open", "lock", "reload", "commit"}
  /\ PointsOf("update") = {"index", "list", "load", "refresh", "open", "lock", "reload", "commit", "reread"}
  /\ PointsOf("delete") = {"index", "list", "load", "refresh", "delete", "delete.lock", "generation"}
  /\ PointsOf("create") = {"create", "generation", "class", "defaults", "open", "lock", "reload", "commit", "reread"}
BY DEF PointsOf

\* What a call that goes to another point, or returns, is.
LEMMA CallMoves ==
  ASSUME NEW c \in Calls, NEW at \in PointsOf(c.op)
  PROVE  /\ c \in [at : UNION {PointsOf(op) : op \in Ops}, op : Ops, f : Files, ino : Nat, todo : SUBSET Objects]
         /\ [c EXCEPT !.at = at] \in Calls
         /\ [c EXCEPT !.at = at].at = at /\ [c EXCEPT !.at = at].op = c.op
         /\ [c EXCEPT !.at = at].f = c.f /\ [c EXCEPT !.at = at].ino = c.ino
BY DEF Calls

LEMMA CallReturns == Idle \in Calls /\ Down \in Calls
<1>1. "none" \in Ops /\ Token \in Files /\ Token \notin Objects /\ 0 \in Nat /\ {} \in SUBSET Objects
  BY ConstantsOK DEF Ops, Files
<1> QED BY <1>1, Points, CallFields DEF Idle, Down

\* What the invariant says of one cache of a file.
CacheOK(o, f) ==
  /\ o \in ObjectStates
  /\ o.gen <= writes[f]
  /\ f \notin deleted => o.gen <= file[f].gen /\ (o.gen = file[f].gen => o.n = file[f].n)

LEMMA CachedOK ==
  ASSUME Inv, NEW p \in Processes
  PROVE  /\ obj[p] \in [Files -> ObjectStates]
         /\ \A f \in Files : CacheOK(obj[p][f], f)
BY DEF Inv, TypeOK, CachesOK, CacheOK

\* The parts of the invariant other than the types, when the files do not change and
\* a process moves to a point where it neither holds a lock nor creates anything new.
LEMMA QuietStep ==
  ASSUME Inv, NEW p \in Processes, NEW c \in Calls, NEW o \in [Files -> ObjectStates],
         call' = [call EXCEPT ![p] = c], obj' = [obj EXCEPT ![p] = o],
         held' = [held EXCEPT ![p] = 0],
         UNCHANGED <<file, lockFile, inodes, writes, done, deleted, early>>,
         dirGen' \in 1..MaxDirGen, known' \in [Processes -> 0..MaxDirGen],
         current' \in [Processes -> SUBSET Objects], crashes' \in 0..MaxCrashes,
         c.at \notin {"lock", "reload", "commit", "delete.lock"},
         ~ (c.op = "update" /\ c.at = "open"),
         c.op = "create" => call[p].op = "create" /\ c.f = call[p].f /\ c.at = "reread",
         \A f \in Files : CacheOK(o[f], f)
  PROVE  Inv'
<1>1. TypeOK'
  BY DEF Inv, TypeOK, CacheOK
<1>2. CallsOK'
  BY DEF Inv, CallsOK
<1>3. FilesOK' /\ NoLostUpdate'
  BY DEF Inv, FilesOK, NoLostUpdate
<1>4. CachesOK'
  BY DEF Inv, TypeOK, CachesOK, CacheOK
<1>a. call'[p] = c /\ held'[p] = 0 /\ obj'[p] = o
  BY DEF Inv, TypeOK, CallsOK
<1>b. \A q \in Processes : q # p => call'[q] = call[q] /\ held'[q] = held[q] /\ obj'[q] = obj[q]
  BY DEF Inv, TypeOK, CallsOK
<1>e. WrittenOK'
  <2>1. c.at = "open" => c.op = "pin"
    BY Points DEF Calls, Ops
  <2>2. c.at = "open" => c.f = Token
    BY <2>1 DEF Calls, Files
  <2>3. Token \in Files
    BY DEF Files
  <2>4. c.at = "open" /\ c.f \notin deleted => file[c.f].gen # 0
    BY <2>2, <2>3 DEF Inv, FilesOK
  <2> QED BY <2>4, <1>a, <1>b DEF Inv, WrittenOK, At
<1>5. LocksReleased'
  BY <1>a, <1>b DEF Inv, LocksReleased, At
<1>6. LocksOK'
  BY <1>a, <1>b DEF Inv, LocksReleased, LocksOK, At
<1>c. \A q \in Processes : call'[q].op = "create" => call[q].op = "create" /\ call[q].f = call'[q].f
  BY <1>a, <1>b
<1>7. CreatorsOK'
  BY <1>a, <1>b, <1>c DEF Inv, CreatorsOK, At
<1>d. UpdatersOK'
  BY <1>a, <1>b, <1>c DEF Inv, UpdatersOK, BeingCreated
<1>8. WritersOK'
  BY <1>a, <1>b DEF Inv, WritersOK, At
<1> QED
  BY <1>1, <1>2, <1>3, <1>4, <1>5, <1>6, <1>7, <1>8, <1>d, <1>e DEF Inv
\* The same where the caches do not change either.
LEMMA QuietCall ==
  ASSUME Inv, NEW p \in Processes, NEW c \in Calls,
         call' = [call EXCEPT ![p] = c],
         held' = [held EXCEPT ![p] = 0],
         UNCHANGED <<file, lockFile, inodes, writes, done, deleted, early, obj>>,
         dirGen' \in 1..MaxDirGen, known' \in [Processes -> 0..MaxDirGen],
         UNCHANGED <<current, crashes>>,
         c.at \notin {"lock", "reload", "commit", "delete.lock"},
         ~ (c.op = "update" /\ c.at = "open"),
         c.op = "create" => call[p].op = "create" /\ c.f = call[p].f /\ c.at = "reread"
  PROVE  Inv'
<1>1. obj' = [obj EXCEPT ![p] = obj[p]]
  BY DEF Inv, TypeOK
<1>2. current' \in [Processes -> SUBSET Objects] /\ crashes' \in 0..MaxCrashes
  BY DEF Inv, TypeOK
<1> QED BY <1>1, <1>2, CachedOK, QuietStep

\* A process that is not in a transaction holds no lock.
LEMMA NothingHeld ==
  ASSUME Inv, NEW p \in Processes, ~ At(p, "reload"), ~ At(p, "commit")
  PROVE  held = [held EXCEPT ![p] = 0]
BY DEF Inv, TypeOK, LocksReleased

\* The call of a process.
LEMMA CallTyped ==
  ASSUME Inv, NEW p \in Processes
  PROVE  /\ call[p] \in Calls /\ call[p].op \in Ops /\ call[p].f \in Files /\ call[p].ino \in Nat
         /\ call[p].todo \in SUBSET Objects
         /\ call[p].at \in PointsOf(call[p].op)
         /\ call[p].op \in {"update", "delete", "create"} <=> call[p].f \in Objects
BY DEF Inv, CallsOK, Calls

\* Idle and Down are where every call may go.
LEMMA IdleFields ==
  /\ Idle.at = "idle" /\ Idle.op = "none" /\ Down.at = "down" /\ Down.op = "none"
BY DEF Idle, Down

-----------------------------------------------------------------------------
(* Reading *)

\* Reading a file again gives a cache of it, and if it is there a current one.
LEMMA RereadOK ==
  ASSUME Inv, NEW f \in Files, NEW o, CacheOK(o, f)
  PROVE  /\ CacheOK(Reread(o, f), f)
         /\ Reread(o, f).valid /\ f \notin deleted => file[f].exists /\ Reread(o, f).gen = file[f].gen
<1> DEFINE d == file[f]
<1>1. d \in FileStates /\ d.gen <= writes[f] /\ writes[f] \in Nat
  BY DEF Inv, TypeOK
<1>2. f \notin deleted => (~ d.exists => d = NoFile) /\ (d.gen = 0 => d.n = 0)
  BY DEF Inv, FilesOK
<1>3. d.gen \in Nat /\ d.n \in Nat /\ d.exists \in BOOLEAN
  BY <1>1 DEF FileStates
<1>4. o \in ObjectStates /\ o.gen \in Nat
  BY DEF CacheOK, ObjectStates
<1>5. CASE ~ d.exists
  <2>1. /\ [o EXCEPT !.valid = FALSE] \in ObjectStates
        /\ [o EXCEPT !.valid = FALSE].gen = o.gen /\ [o EXCEPT !.valid = FALSE].n = o.n
        /\ [o EXCEPT !.valid = FALSE].valid = FALSE
    BY <1>4 DEF ObjectStates
  <2> QED BY <2>1, <1>5 DEF CacheOK, Reread
<1>6. CASE d = Empty
  BY <1>4, <1>6 DEF CacheOK, Reread, Empty
<1>7. CASE d.exists /\ d # Empty
  <2>1. Reread(o, f) = Cached(d.gen, d.n)
    BY <1>7 DEF Reread
  <2>2. /\ Cached(d.gen, d.n) \in ObjectStates
        /\ Cached(d.gen, d.n).gen = d.gen /\ Cached(d.gen, d.n).n = d.n
    BY <1>3 DEF Cached, ObjectStates
  <2> QED BY <2>1, <2>2, <1>1, <1>3, <1>7 DEF CacheOK
<1> QED BY <1>5, <1>6, <1>7

LEMMA LoadedOK ==
  ASSUME Inv, NEW f \in Files
  PROVE  CacheOK(Loaded(f), f)
<1>1. Cached(0, 0) \in ObjectStates /\ Cached(0, 0).gen = 0 /\ Cached(0, 0).n = 0
  BY DEF Cached, ObjectStates
<1>2. CacheOK(Cached(0, 0), f)
  BY <1>1 DEF Inv, TypeOK, FilesOK, CacheOK, FileStates
<1> QED BY <1>2, RereadOK DEF Loaded

LEMMA OpenKeeps ==
  ASSUME Inv, NEW p \in Processes, Open(p)
  PROVE  Inv'
<1> DEFINE c == [at |-> "list", op |-> "list", f |-> Token, ino |-> 0, todo |-> {}]
           o == [obj[p] EXCEPT ![Token] = Loaded(Token)]
<1>1. c \in Calls /\ c.at = "list" /\ c.op = "list" /\ Token \in Files
  BY ConstantsOK, Points, CallFields DEF Ops, Files
<1>2. o \in [Files -> ObjectStates] /\ \A f \in Files : CacheOK(o[f], f)
  BY <1>1, CachedOK, LoadedOK DEF CacheOK
<1>3. /\ call' = [call EXCEPT ![p] = c] /\ obj' = [obj EXCEPT ![p] = o]
      /\ held' = [held EXCEPT ![p] = 0]
  BY DEF Open, At, Inv, TypeOK, LocksReleased, memory
<1>4. UNCHANGED <<file, lockFile, inodes, writes, done, deleted, early, dirGen, current, crashes>>
  BY DEF Open, disk, history
<1>5. dirGen' \in 1..MaxDirGen /\ known' \in [Processes -> 0..MaxDirGen]
  BY <1>4, ConstantsOK DEF Open, Inv, TypeOK
<1> HIDE DEF c, o
<1> QED BY <1>1, <1>2, <1>3, <1>4, <1>5, QuietStep DEF Inv, TypeOK

\* Starting a call that reads first, or the transaction of a PIN.
LEMMA StartKeeps ==
  ASSUME Inv, NEW p \in Processes, NEW op \in Ops, NEW f \in Files, NEW point \in PointsOf(op),
         op \in {"update", "delete"} <=> f \in Objects,
         point = "index" \/ (op = "pin" /\ point = "open"), op # "create",
         Start(p, op, f, point), UNCHANGED <<disk, memory, crashes, history>>
  PROVE  Inv'
<1> DEFINE c == [at |-> point, op |-> op, f |-> f, ino |-> 0, todo |-> {}]
<1>1. c \in Calls /\ c.at = point /\ c.op = op
  BY CallFields
<1>2. call' = [call EXCEPT ![p] = c] /\ held' = [held EXCEPT ![p] = 0]
  BY NothingHeld DEF Start, At, memory
<1>3. /\ UNCHANGED <<file, lockFile, inodes, writes, done, deleted, early, obj, current, crashes>>
      /\ dirGen' \in 1..MaxDirGen /\ known' \in [Processes -> 0..MaxDirGen]
  BY DEF Inv, TypeOK, disk, memory, history
<1> HIDE DEF c
<1> QED BY <1>1, <1>2, <1>3, QuietCall

LEMMA CallsKeep ==
  ASSUME Inv, NEW p \in Processes, NEW f \in Files,
         getObjects(p) \/ Update(p, f) \/ Delete(p, f) \/ pinResult(p)
  PROVE  Inv'
<1>1. {"list", "update", "delete", "pin"} \subseteq Ops /\ Token \in Files /\ Token \notin Objects
  BY ConstantsOK DEF Ops, Files
<1>a. /\ "index" \in PointsOf("list") /\ "index" \in PointsOf("update")
      /\ "index" \in PointsOf("delete") /\ "open" \in PointsOf("pin")
  BY Points
<1>2. CASE getObjects(p)
  BY <1>1, <1>2, <1>a, StartKeeps DEF getObjects
<1>3. CASE Update(p, f)
  BY <1>1, <1>3, <1>a, StartKeeps DEF Update
<1>4. CASE Delete(p, f)
  BY <1>1, <1>4, <1>a, StartKeeps DEF Delete
<1>5. CASE pinResult(p)
  BY <1>1, <1>5, <1>a, StartKeeps DEF pinResult
<1> QED BY <1>2, <1>3, <1>4, <1>5

LEMMA indexKeeps ==
  ASSUME Inv, NEW p \in Processes, index(p)
  PROVE  Inv'
<1>1. held' = [held EXCEPT ![p] = 0]
  BY NothingHeld DEF index, At
<1>2. /\ UNCHANGED <<file, lockFile, inodes, writes, done, deleted, early, obj, current, crashes>>
      /\ dirGen' \in 1..MaxDirGen /\ known' \in [Processes -> 0..MaxDirGen]
  BY ConstantsOK DEF index, Inv, TypeOK, disk, history
<1>3. call[p].op \in {"list", "flags", "update", "delete"}
  BY CallTyped, Points DEF index, At, Ops
<1>4. CASE Goto(p, "list")
  <2> DEFINE c == [call[p] EXCEPT !.at = "list"]
  <2>1. c \in Calls /\ c.at = "list" /\ c.op = call[p].op
    BY <1>3, CallTyped, Points, CallMoves
  <2>2. call' = [call EXCEPT ![p] = c]
    BY <1>4 DEF Goto
  <2> HIDE DEF c
  <2> QED BY <2>1, <2>2, <1>1, <1>2, <1>3, QuietCall
<1>5. CASE Goto(p, "refresh") /\ call[p].op # "list"
  <2> DEFINE c == [call[p] EXCEPT !.at = "refresh"]
  <2>1. c \in Calls /\ c.at = "refresh" /\ c.op = call[p].op
    BY <1>3, <1>5, CallTyped, Points, CallMoves
  <2>2. call' = [call EXCEPT ![p] = c]
    BY <1>5 DEF Goto
  <2> HIDE DEF c
  <2> QED BY <2>1, <2>2, <1>1, <1>2, <1>3, QuietCall
<1>6. CASE Return(p)
  BY <1>1, <1>2, <1>6, IdleFields, CallReturns, QuietCall DEF Return
<1> QED BY <1>4, <1>5, <1>6 DEF index

LEMMA ListKeeps ==
  ASSUME Inv, NEW p \in Processes, List(p)
  PROVE  Inv'
<1> DEFINE present == {f \in Objects : file[f].exists}
           o == [f \in Files |->
                   IF f \in current[p] \ present THEN [obj[p][f] EXCEPT !.valid = FALSE] ELSE obj[p][f]]
           c == [call[p] EXCEPT !.at = "load", !.todo = present \ current[p]]
<1>1. call[p].op \in {"list", "flags", "update", "delete"}
  BY CallTyped, Points DEF List, At, Ops
<1>2. c \in Calls /\ c.at = "load" /\ c.op = call[p].op
  <2>1. "load" \in PointsOf(call[p].op)
    BY <1>1, Points
  <2> QED BY <2>1, CallTyped DEF Calls
<1>3. o \in [Files -> ObjectStates] /\ \A f \in Files : CacheOK(o[f], f)
  <2>1. ASSUME NEW x \in ObjectStates, NEW f \in Files, CacheOK(x, f)
        PROVE  CacheOK([x EXCEPT !.valid = FALSE], f)
    BY <2>1 DEF CacheOK, ObjectStates
  <2>2. \A f \in Files : CacheOK(o[f], f)
    BY <2>1, CachedOK
  <2> QED BY <2>2 DEF CacheOK
<1>4. /\ call' = [call EXCEPT ![p] = c] /\ obj' = [obj EXCEPT ![p] = o]
      /\ held' = [held EXCEPT ![p] = 0]
  BY NothingHeld DEF List, At
<1>5. /\ UNCHANGED <<file, lockFile, inodes, writes, done, deleted, early, dirGen, known, crashes>>
      /\ current' \in [Processes -> SUBSET Objects]
  BY DEF List, disk, history, Inv, TypeOK
<1> HIDE DEF c, o
<1> QED BY <1>1, <1>2, <1>3, <1>4, <1>5, QuietStep DEF Inv, TypeOK

LEMMA LoadKeeps ==
  ASSUME Inv, NEW p \in Processes, Load(p)
  PROVE  Inv'
<1>1. held' = [held EXCEPT ![p] = 0]
  BY NothingHeld DEF Load, At
<1>2. /\ UNCHANGED <<file, lockFile, inodes, writes, done, deleted, early, current, crashes>>
      /\ dirGen' \in 1..MaxDirGen /\ known' \in [Processes -> 0..MaxDirGen]
      /\ current' \in [Processes -> SUBSET Objects] /\ crashes' \in 0..MaxCrashes
  BY DEF Load, Inv, TypeOK, disk, history
<1>3. call[p].op \in {"list", "flags", "update", "delete"} /\ call[p].at = "load"
  BY CallTyped, Points DEF Load, At, Ops
<1>4. ASSUME NEW f \in call[p].todo, obj' = [obj EXCEPT ![p][f] = Loaded(f)],
             call' = [call EXCEPT ![p].todo = @ \ {f}]
      PROVE  Inv'
  <2> DEFINE c == [call[p] EXCEPT !.todo = @ \ {f}]
             o == [obj[p] EXCEPT ![f] = Loaded(f)]
  <2>1. c \in Calls /\ c.at = "load" /\ c.op = call[p].op
    BY CallTyped, <1>3 DEF Calls
  <2>2. f \in Files
    BY CallTyped, <1>4 DEF Files
  <2>3. o \in [Files -> ObjectStates] /\ \A g \in Files : CacheOK(o[g], g)
    BY <2>2, CachedOK, LoadedOK DEF CacheOK
  <2>4. call' = [call EXCEPT ![p] = c] /\ obj' = [obj EXCEPT ![p] = o]
    BY <1>4
  <2> HIDE DEF c, o
  <2> QED BY <2>1, <2>3, <2>4, <1>1, <1>2, <1>3, QuietStep
<1>5. CASE Goto(p, "refresh") /\ call[p].op # "list" /\ UNCHANGED obj
  <2> DEFINE c == [call[p] EXCEPT !.at = "refresh"]
  <2>1. c \in Calls /\ c.at = "refresh" /\ c.op = call[p].op
    BY <1>3, <1>5, CallTyped, Points, CallMoves
  <2>2. call' = [call EXCEPT ![p] = c]
    BY <1>5 DEF Goto
  <2> HIDE DEF c
  <2> QED BY <2>1, <2>2, <1>1, <1>2, <1>3, <1>5, QuietCall
<1>6. CASE Return(p) /\ UNCHANGED obj
  BY <1>1, <1>2, <1>6, IdleFields, CallReturns, QuietCall DEF Return
<1> QED BY <1>4, <1>5, <1>6 DEF Load

LEMMA CrashKeeps ==
  ASSUME Inv, NEW p \in Processes, Crash(p)
  PROVE  Inv'
<1> DEFINE o == [f \in Files |-> NoObject]
<1>1. o \in [Files -> ObjectStates] /\ \A f \in Files : CacheOK(o[f], f)
  <2>1. NoObject \in ObjectStates /\ NoObject.gen = 0 /\ NoObject.n = 0
    BY DEF NoObject, ObjectStates
  <2>2. \A f \in Files : CacheOK(NoObject, f)
    BY <2>1 DEF Inv, TypeOK, FilesOK, CacheOK, FileStates
  <2> QED BY <2>1, <2>2
<1>2. /\ call' = [call EXCEPT ![p] = Down] /\ obj' = [obj EXCEPT ![p] = o]
      /\ held' = [held EXCEPT ![p] = 0]
  BY DEF Crash
<1>3. UNCHANGED <<file, lockFile, inodes, writes, done, deleted, early, dirGen>>
  BY DEF Crash, disk, history
<1>4. /\ known' \in [Processes -> 0..MaxDirGen] /\ current' \in [Processes -> SUBSET Objects]
      /\ crashes' \in 0..MaxCrashes
  BY ConstantsOK DEF Crash, Inv, TypeOK
<1> HIDE DEF o
<1> QED BY <1>1, <1>2, <1>3, <1>4, CallReturns, IdleFields, QuietStep DEF Inv, TypeOK

\* refresh: to a point outside of a transaction, or to the transaction of an update.
LEMMA refreshKeeps ==
  ASSUME Inv, NEW p \in Processes, refresh(p)
  PROVE  Inv'
<1> DEFINE f == call[p].f
           x == Refreshed(p, f)
           o == [obj[p] EXCEPT ![f] = x]
<1>1. f \in Files /\ call[p].op \in {"flags", "update", "delete"} /\ call[p] \in Calls
      /\ (call[p].op \in {"update", "delete", "create"} <=> f \in Objects)
  BY CallTyped, Points DEF refresh, At, Ops
<1>2. held' = [held EXCEPT ![p] = 0] /\ obj' = [obj EXCEPT ![p] = o]
  BY NothingHeld DEF refresh, At
<1>3. /\ UNCHANGED <<file, lockFile, inodes, writes, done, deleted, dirGen, known, current, crashes>>
      /\ dirGen' \in 1..MaxDirGen /\ known' \in [Processes -> 0..MaxDirGen]
      /\ current' \in [Processes -> SUBSET Objects] /\ crashes' \in 0..MaxCrashes
  BY DEF refresh, Inv, TypeOK, disk
<1>4. /\ CacheOK(x, f)
      /\ x.valid /\ f \notin deleted => file[f].exists
  <2>1. CacheOK(obj[p][f], f)
    BY <1>1, CachedOK
  <2>2. CASE wasUpdated(obj[p][f], f)
    BY <1>1, <2>1, <2>2, RereadOK DEF Refreshed
  <2>3. CASE ~ wasUpdated(obj[p][f], f)
    BY <2>1, <2>3 DEF Refreshed, wasUpdated
  <2> QED BY <2>2, <2>3
<1>5. o \in [Files -> ObjectStates] /\ \A g \in Files : CacheOK(o[g], g)
  BY <1>1, <1>4, CachedOK DEF CacheOK
<1>6. PICK point \in NextPoints(call[p].op, x) :
        /\ IF point = "refuse" THEN Return(p) ELSE Goto(p, point)
        /\ early' = IF point = "open" /\ BeingCreated(f) THEN early \union {f} ELSE early
  BY DEF refresh
<1>7. \/ point = "refuse"
      \/ point = "open" /\ call[p].op = "update" /\ x.valid /\ x.n # 0
      \/ point = "delete" /\ call[p].op = "delete"
      \/ point = "store" /\ call[p].op = "flags"
  <2>1. x.n \in Nat
    BY <1>4 DEF CacheOK, ObjectStates
  <2> HIDE DEF x
  <2>2. CASE call[p].op = "flags"
    BY <1>6, <2>2 DEF NextPoints
  <2>3. CASE call[p].op = "update"
    <3>1. CASE ~ x.valid
      BY <1>6, <3>1 DEF NextPoints
    <3>2. CASE x.valid /\ x.n = 0
      BY <1>6, <2>3, <3>2 DEF NextPoints
    <3>3. CASE x.valid /\ x.n > 0
      BY <1>6, <2>3, <3>3 DEF NextPoints
    <3> QED BY <2>1, <3>1, <3>2, <3>3
  <2>4. CASE call[p].op = "delete"
    BY <1>6, <2>4 DEF NextPoints
  <2> QED BY <1>1, <2>2, <2>3, <2>4
<1>8. CASE point = "refuse"
  <2>1. call' = [call EXCEPT ![p] = Idle] /\ UNCHANGED early
    BY <1>6, <1>8 DEF Return
  <2> HIDE DEF o
  <2> QED BY <2>1, <1>2, <1>3, <1>5, IdleFields, CallReturns, QuietStep
<1>9. CASE (point = "delete" /\ call[p].op = "delete") \/ (point = "store" /\ call[p].op = "flags")
  <2> DEFINE c == [call[p] EXCEPT !.at = point]
  <2>1. c \in Calls /\ c.at = point /\ c.op = call[p].op
    BY <1>1, <1>9, Points, CallMoves
  <2>2. call' = [call EXCEPT ![p] = c] /\ UNCHANGED early
    BY <1>6, <1>9 DEF Goto
  <2> HIDE DEF o, c
  <2> QED BY <2>1, <2>2, <1>1, <1>2, <1>3, <1>5, <1>9, QuietStep
<1>10. CASE point = "open" /\ call[p].op = "update" /\ x.valid /\ x.n # 0
  <2> DEFINE c == [call[p] EXCEPT !.at = "open"]
  <2>1. c \in Calls /\ c.at = "open" /\ c.op = "update" /\ c.f = f
    BY <1>1, <1>10, Points, CallMoves
  <2>2. call' = [call EXCEPT ![p] = c]
    BY <1>6, <1>10 DEF Goto
  <2>3. early \subseteq early' /\ early' \subseteq Objects /\ (f \notin early' => ~ BeingCreated(f))
    BY <1>1, <1>6, <1>10 DEF Inv, TypeOK
  <2>4. /\ call'[p] = c /\ held'[p] = 0 /\ obj'[p] = o
        /\ \A q \in Processes : q # p => call'[q] = call[q] /\ held'[q] = held[q] /\ obj'[q] = obj[q]
    BY <1>2, <2>2 DEF Inv, TypeOK, CallsOK
  <2> HIDE DEF o, c, x
  <2>5. TypeOK' /\ CachesOK'
    BY <1>2, <1>3, <1>5, <2>3 DEF Inv, TypeOK, CachesOK, CacheOK
  <2>6. CallsOK' /\ FilesOK' /\ NoLostUpdate'
    BY <2>1, <2>2, <2>3, <1>3 DEF Inv, CallsOK, FilesOK, NoLostUpdate
  <2>7. LocksReleased' /\ LocksOK'
    BY <2>1, <2>4, <1>3 DEF Inv, LocksReleased, LocksOK, At
  <2>8. CreatorsOK'
    BY <2>1, <2>4, <1>3 DEF Inv, CreatorsOK, At
  <2>9. UpdatersOK'
    BY <2>1, <2>3, <2>4, <1>3, <1>4, <1>10 DEF Inv, UpdatersOK, BeingCreated
  <2>11. WrittenOK'
    <3>1. f \notin deleted => file[f].gen # 0
      BY <1>1, <1>4, <1>10 DEF CacheOK, Inv, TypeOK, FilesOK, ObjectStates, FileStates
    <3> QED BY <3>1, <2>1, <2>4, <1>3 DEF Inv, WrittenOK, At
  <2>10. WritersOK'
    BY <2>1, <2>3, <2>4, <1>3 DEF Inv, WritersOK, At
  <2> QED BY <2>5, <2>6, <2>7, <2>8, <2>9, <2>10, <2>11 DEF Inv
<1> QED BY <1>7, <1>8, <1>9, <1>10
-----------------------------------------------------------------------------
(* Transactions *)

LEMMA startTransactionKeeps ==
  ASSUME Inv, NEW p \in Processes, startTransaction(p)
  PROVE  Inv'
<1> DEFINE f == call[p].f
           i == LockFileFor(f)
           c == [call[p] EXCEPT !.at = "lock", !.ino = i]
<1>1. f \in Files /\ call[p] \in Calls /\ call[p].op \in {"pin", "update", "create"} /\ call[p].at = "open"
  BY CallTyped, Points DEF startTransaction, At, Ops
<1>2. /\ i \in Nat /\ i # 0
      /\ lockFile[f] # 0 => i = lockFile[f]
  BY <1>1 DEF Inv, TypeOK, LockFileFor
<1>3. "lock" \in PointsOf(call[p].op)
  BY <1>1, Points
<1>4. c \in Calls /\ c.at = "lock" /\ c.op = call[p].op /\ c.f = f /\ c.ino = i
  BY <1>1, <1>2, <1>3 DEF Calls
<1>5. call' = [call EXCEPT ![p] = c] /\ lockFile' = [lockFile EXCEPT ![f] = i]
  BY DEF startTransaction, OpenLockFile
<1>6. UNCHANGED <<file, dirGen, writes, known, current, obj, held, crashes, done, deleted, early>>
  BY DEF startTransaction, memory, history
<1>7. /\ call'[p] = c
      /\ \A q \in Processes : q # p => call'[q] = call[q]
  BY <1>5 DEF Inv, CallsOK
<1>8. f \notin deleted => lockFile[f] # 0 /\ inodes[f] = lockFile[f]
  BY <1>1 DEF Inv, TypeOK, FilesOK, WrittenOK, FileStates, At
<1>9. /\ inodes' \in [Files -> Nat] /\ \A g \in Files : g # f => inodes'[g] = inodes[g]
      /\ f \notin deleted => UNCHANGED <<inodes, lockFile>>
  BY <1>1, <1>2, <1>8 DEF Inv, TypeOK, startTransaction, OpenLockFile, LockFileFor
<1> HIDE DEF c, i
<1>10. TypeOK' /\ CachesOK' /\ CallsOK' /\ NoLostUpdate'
  BY <1>1, <1>2, <1>4, <1>5, <1>6, <1>9 DEF Inv, TypeOK, CachesOK, CallsOK, NoLostUpdate
<1>11. FilesOK'
  BY <1>1, <1>5, <1>6, <1>9 DEF Inv, TypeOK, FilesOK
<1>12. LocksReleased'
  BY <1>1, <1>4, <1>6, <1>7 DEF Inv, LocksReleased, At
<1>13. LocksOK'
  <2>1. /\ c.ino # 0 /\ c.at = "lock" /\ held[p] = 0
        /\ f \notin deleted => c.ino = lockFile[f]
    BY <1>1, <1>2, <1>4, <1>8 DEF Inv, LocksReleased, At
  <2>2. \A q \in Processes : call[q].f \notin deleted => lockFile'[call[q].f] = lockFile[call[q].f]
    BY <1>5, <1>8, <1>2, CallTyped DEF Inv, TypeOK
  <2>3. held' = held /\ deleted' = deleted /\ call'[p].f = call[p].f
    BY <1>4, <1>6, <1>7
  <2> QED BY <2>1, <2>2, <2>3, <1>7, <1>4 DEF Inv, LocksOK, At
<1>14. CreatorsOK' /\ UpdatersOK'
  BY <1>1, <1>4, <1>6, <1>7 DEF Inv, CreatorsOK, UpdatersOK, BeingCreated, At
<1>15. WritersOK' /\ WrittenOK'
  BY <1>1, <1>4, <1>6, <1>7 DEF Inv, WritersOK, WrittenOK, At
<1> QED BY <1>10, <1>11, <1>12, <1>13, <1>14, <1>15 DEF Inv

LEMMA LockKeeps ==
  ASSUME Inv, NEW p \in Processes, Lock(p)
  PROVE  Inv'
<1> DEFINE c == [call[p] EXCEPT !.at = "reload"]
<1>1. call[p] \in Calls /\ call[p].op \in {"pin", "update", "create"} /\ call[p].at = "lock"
  BY CallTyped, Points DEF Lock, At, Ops
<1>2. c \in Calls /\ c.at = "reload" /\ c.op = call[p].op /\ c.f = call[p].f /\ c.ino = call[p].ino
  BY <1>1, Points, CallMoves
<1>3. call' = [call EXCEPT ![p] = c] /\ held' = [held EXCEPT ![p] = call[p].ino]
  BY DEF Lock, Goto
<1>4. /\ call'[p] = c /\ held'[p] = call[p].ino
      /\ \A q \in Processes : q # p => call'[q] = call[q] /\ held'[q] = held[q]
  BY <1>3 DEF Inv, CallsOK, TypeOK
<1>5. UNCHANGED <<file, lockFile, inodes, dirGen, writes, known, current, obj, crashes, done, deleted, early>>
  BY DEF Lock, disk, history
<1>6. call[p].ino \in Nat /\ call[p].ino # 0
  BY <1>1, CallTyped DEF Inv, LocksOK, At
<1> HIDE DEF c
<1>7. TypeOK' /\ CachesOK' /\ CallsOK' /\ NoLostUpdate' /\ FilesOK'
  BY <1>2, <1>3, <1>5, <1>6 DEF Inv, TypeOK, CachesOK, CallsOK, NoLostUpdate, FilesOK
<1>8. LocksReleased'
  BY <1>2, <1>4, <1>6 DEF Inv, LocksReleased, At
<1>9. LocksOK'
  <2>1. \A q \in Processes : call[q].f = call[p].f => held[q] # call[p].ino
    BY DEF Lock
  <2> QED BY <2>1, <1>1, <1>2, <1>4, <1>5, <1>6 DEF Inv, LocksOK, At
<1>10. CreatorsOK' /\ UpdatersOK'
  BY <1>1, <1>2, <1>4, <1>5 DEF Inv, CreatorsOK, UpdatersOK, BeingCreated, At
<1>11. WritersOK' /\ WrittenOK'
  BY <1>1, <1>2, <1>4, <1>5 DEF Inv, WritersOK, WrittenOK, At
<1> QED BY <1>7, <1>8, <1>9, <1>10, <1>11 DEF Inv

LEMMA ReloadKeeps ==
  ASSUME Inv, NEW p \in Processes, Reload(p)
  PROVE  Inv'
<1> DEFINE f == call[p].f
           x == Reread(obj[p][f], f)
           o == [obj[p] EXCEPT ![f] = x]
           c == [call[p] EXCEPT !.at = "commit"]
<1>1. /\ f \in Files /\ call[p] \in Calls /\ call[p].op \in {"pin", "update", "create"}
      /\ call[p].at = "reload"
  BY CallTyped, Points DEF Reload, At, Ops
<1>2. /\ CacheOK(x, f)
      /\ x.valid /\ f \notin deleted => x.gen = file[f].gen
  BY <1>1, CachedOK, RereadOK
<1>3. o \in [Files -> ObjectStates] /\ \A g \in Files : CacheOK(o[g], g)
  BY <1>1, <1>2, CachedOK DEF CacheOK
<1>4. /\ UNCHANGED <<file, lockFile, inodes, dirGen, writes, known, current, crashes, done, deleted, early>>
      /\ obj' = [obj EXCEPT ![p] = o]
  BY DEF Reload, disk, history
<1>5. CASE ~ x.valid
  <2>1. call' = [call EXCEPT ![p] = Idle] /\ held' = [held EXCEPT ![p] = 0]
    BY <1>5 DEF Reload, Return
  <2> HIDE DEF o
  <2> QED BY <2>1, <1>3, <1>4, IdleFields, CallReturns, QuietStep DEF Inv, TypeOK
<1>6. CASE x.valid
  <2>1. c \in Calls /\ c.at = "commit" /\ c.op = call[p].op /\ c.f = f /\ c.ino = call[p].ino
    BY <1>1, Points, CallMoves
  <2>2. call' = [call EXCEPT ![p] = c] /\ UNCHANGED held
    BY <1>6 DEF Reload, Goto
  <2>3. /\ call'[p] = c /\ obj'[p] = o
        /\ \A q \in Processes : q # p => call'[q] = call[q] /\ obj'[q] = obj[q]
    BY <1>4, <2>2 DEF Inv, CallsOK, TypeOK
  <2>4. o[f] = x
    BY <1>1, CachedOK
  <2> HIDE DEF c, o, x
  <2>5. TypeOK' /\ CachesOK' /\ CallsOK'
    BY <1>3, <1>4, <2>1, <2>2 DEF Inv, TypeOK, CachesOK, CallsOK, CacheOK
  <2>6. NoLostUpdate' /\ FilesOK'
    BY <1>4 DEF Inv, NoLostUpdate, FilesOK
  <2>7. LocksReleased' /\ LocksOK'
    BY <1>1, <1>4, <2>1, <2>2, <2>3 DEF Inv, LocksReleased, LocksOK, At
  <2>8. CreatorsOK' /\ UpdatersOK'
    BY <1>1, <1>4, <2>1, <2>3 DEF Inv, CreatorsOK, UpdatersOK, BeingCreated, At
  <2>9. WritersOK' /\ WrittenOK'
    BY <1>1, <1>2, <1>4, <1>6, <2>1, <2>3, <2>4 DEF Inv, WritersOK, WrittenOK, At
  <2> QED BY <2>5, <2>6, <2>7, <2>8, <2>9 DEF Inv
<1> QED BY <1>5, <1>6 DEF CacheOK, ObjectStates

LEMMA AbortKeeps ==
  ASSUME Inv, NEW p \in Processes, abortTransaction(p)
  PROVE  Inv'
<1> DEFINE c == [call[p] EXCEPT !.at = "reread"]
<1>1. c \in Calls /\ c.at = "reread" /\ c.op = call[p].op /\ c.f = call[p].f
  BY CallTyped, Points, CallMoves DEF abortTransaction
<1>2. call' = [call EXCEPT ![p] = c] /\ held' = [held EXCEPT ![p] = 0]
  BY DEF abortTransaction, Goto
<1>3. /\ UNCHANGED <<file, lockFile, inodes, dirGen, writes, known, current, obj, crashes, done, deleted, early>>
  BY DEF abortTransaction, disk, history
<1> HIDE DEF c
<1> QED BY <1>1, <1>2, <1>3, QuietCall DEF Inv, TypeOK

LEMMA RereadAfterAbortKeeps ==
  ASSUME Inv, NEW p \in Processes, RereadAfterAbort(p)
  PROVE  Inv'
<1> DEFINE f == call[p].f
           o == [obj[p] EXCEPT ![f] = Reread(@, f)]
<1>1. f \in Files
  BY CallTyped
<1>2. o \in [Files -> ObjectStates] /\ \A g \in Files : CacheOK(o[g], g)
  BY <1>1, CachedOK, RereadOK DEF CacheOK
<1>3. /\ call' = [call EXCEPT ![p] = Idle] /\ obj' = [obj EXCEPT ![p] = o]
      /\ held' = [held EXCEPT ![p] = 0]
  BY NothingHeld DEF RereadAfterAbort, Return, At
<1>4. /\ UNCHANGED <<file, lockFile, inodes, dirGen, writes, known, current, crashes, done, deleted, early>>
  BY DEF RereadAfterAbort, disk, history
<1> HIDE DEF o
<1> QED BY <1>2, <1>3, <1>4, IdleFields, CallReturns, QuietStep DEF Inv, TypeOK
-----------------------------------------------------------------------------
(* Writing *)

\* What a writing does, and the parts of the invariant that it keeps by itself.
LEMMA WriteFacts ==
  ASSUME Inv, NEW p \in Processes, NEW f \in Files, NEW v \in Nat, Write(p, f, v)
  PROVE  /\ file' \in [Files -> FileStates] /\ obj' \in [Processes -> [Files -> ObjectStates]]
         /\ writes' \in [Files -> Nat]
         /\ file'[f].gen = file[f].gen + 1 /\ file'[f].n = v /\ file'[f].exists
         /\ file'[f].gen # 0
         /\ writes'[f] = writes[f] + 1 /\ writes[f] < MaxWrites[f]
         /\ \A g \in Files : g # f => file'[g] = file[g] /\ writes'[g] = writes[g]
         /\ obj'[p][f].gen = file'[f].gen /\ obj'[p][f].n = v
         /\ \A q \in Processes, g \in Files : q # p \/ g # f => obj'[q][g] = obj[q][g]
         /\ file'[f].gen \in Nat /\ file[f].gen \in Nat /\ writes[f] \in Nat
         /\ MaxWrites[f] \in Nat
<1>1. file[f].gen \in Nat /\ writes[f] \in Nat /\ MaxWrites[f] \in Nat
  BY ConstantsOK DEF Inv, TypeOK, FileStates
<1> DEFINE d == Contents(file[f].gen + 1, v)
           o == Cached(file[f].gen + 1, v)
<1>2. d \in FileStates /\ d.gen = file[f].gen + 1 /\ d.n = v /\ d.exists
  BY <1>1 DEF Contents, FileStates
<1>3. o \in ObjectStates /\ o.gen = file[f].gen + 1 /\ o.n = v
  BY <1>1 DEF Cached, ObjectStates
<1>4. /\ file' = [file EXCEPT ![f] = d] /\ obj' = [obj EXCEPT ![p][f] = o]
      /\ writes' = [writes EXCEPT ![f] = @ + 1] /\ writes[f] < MaxWrites[f]
  BY DEF Write
<1> HIDE DEF d, o
<1> QED BY <1>1, <1>2, <1>3, <1>4 DEF Inv, TypeOK

LEMMA WriteKeeps ==
  ASSUME Inv, NEW p \in Processes, NEW f \in Files, NEW v \in Nat, Write(p, f, v),
         UNCHANGED <<dirGen, known, crashes, deleted, early>>,
         current' \in [Processes -> SUBSET Objects],
         held' \in [Processes -> Nat], done' \in [Files -> Nat],
         lockFile' \in [Files -> Nat], inodes' \in [Files -> Nat]
  PROVE  TypeOK' /\ CachesOK'
<1>1. TypeOK'
  <2>1. ASSUME NEW g \in Files
        PROVE  /\ file'[g].gen <= writes'[g] /\ writes'[g] <= MaxWrites[g]
               /\ \A q \in Processes : obj'[q][g].gen <= writes'[g]
    <3>1. CASE g # f
      BY <3>1, WriteFacts DEF Inv, TypeOK
    <3>2. CASE g = f
      <4>1. file[f].gen <= writes[f] /\ \A q \in Processes : obj[q][f].gen \in Nat /\ obj[q][f].gen <= writes[f]
        BY DEF Inv, TypeOK, ObjectStates
      <4>2. file'[f].gen <= writes'[f] /\ writes'[f] <= MaxWrites[f]
        BY <4>1, WriteFacts
      <4>3. \A q \in Processes : q # p => obj'[q][f].gen <= writes'[f]
        <5>1. \A q \in Processes : q # p => obj'[q][f] = obj[q][f]
          BY WriteFacts
        <5>2. writes'[f] = writes[f] + 1 /\ writes[f] \in Nat
          BY WriteFacts
        <5> QED BY <5>1, <5>2, <4>1
      <4>4. obj'[p][f].gen <= writes'[f]
        BY <4>2, WriteFacts
      <4> QED BY <3>2, <4>2, <4>3, <4>4
    <3> QED BY <3>1, <3>2
  <2> QED BY <2>1, WriteFacts DEF Inv, TypeOK
<1>2. CachesOK'
  <2> SUFFICES ASSUME NEW q \in Processes, NEW g \in Files \ deleted
               PROVE  /\ obj'[q][g].gen <= file'[g].gen
                      /\ obj'[q][g].gen = file'[g].gen => obj'[q][g].n = file'[g].n
    BY DEF CachesOK
  <2>1. obj[q][g].gen \in Nat /\ obj[q][g].gen <= file[g].gen
    BY DEF Inv, CachesOK, TypeOK, ObjectStates
  <2>2. CASE g # f
    <3>1. file'[g] = file[g] /\ obj'[q][g] = obj[q][g]
      BY <2>2, WriteFacts
    <3> QED BY <3>1 DEF Inv, CachesOK
  <2>3. CASE g = f /\ q = p
    BY <2>3, WriteFacts
  <2>4. CASE g = f /\ q # p
    BY <2>1, <2>4, WriteFacts
  <2> QED BY <2>2, <2>3, <2>4
<1> QED BY <1>1, <1>2

LEMMA commitTransactionKeeps ==
  ASSUME Inv, NEW p \in Processes, commitTransaction(p)
  PROVE  Inv'
<1> DEFINE f == call[p].f
           v == obj[p][f].n + 1
           c == IF call[p].op = "pin" THEN [call[p] EXCEPT !.at = "index", !.op = "flags"] ELSE Idle
<1>1. /\ f \in Files /\ call[p] \in Calls /\ call[p].op \in {"pin", "update", "create"}
      /\ call[p].at = "commit" /\ (call[p].op \in {"update", "create"} <=> f \in Objects)
  BY CallTyped, Points DEF commitTransaction, At, Ops
<1>2. v \in Nat /\ Write(p, f, v) /\ obj[p][f].n \in Nat
  BY <1>1, CachedOK DEF commitTransaction, ObjectStates
<1>3. c \in Calls /\ c.at \in {"index", "idle"} /\ c.op \in {"flags", "none"}
  <2>1. CASE call[p].op = "pin"
    <3>1. "index" \in PointsOf("flags") /\ "flags" \in Ops
      BY Points DEF Ops
    <3>2. call[p].f \notin Objects
      BY <1>1, <2>1
    <3> QED BY <3>1, <3>2, <2>1, <1>1 DEF Calls
  <2>2. CASE call[p].op # "pin"
    BY <2>2, CallReturns, IdleFields
  <2> QED BY <2>1, <2>2
<1>4. /\ call' = [call EXCEPT ![p] = c] /\ held' = [held EXCEPT ![p] = 0]
      /\ done' = [done EXCEPT ![f] = @ + 1]
      /\ UNCHANGED <<lockFile, inodes, dirGen, known, current, crashes, deleted, early>>
  BY DEF commitTransaction, Return
<1>5. /\ call'[p] = c /\ held'[p] = 0
      /\ \A q \in Processes : q # p => call'[q] = call[q] /\ held'[q] = held[q]
  BY <1>4 DEF Inv, CallsOK, TypeOK
<1> HIDE DEF c, v
<1>6. TypeOK' /\ CachesOK'
  <2>1. /\ current' \in [Processes -> SUBSET Objects] /\ held' \in [Processes -> Nat]
        /\ done' \in [Files -> Nat] /\ lockFile' \in [Files -> Nat] /\ inodes' \in [Files -> Nat]
    BY <1>1, <1>4 DEF Inv, TypeOK
  <2> QED BY <2>1, <1>1, <1>2, <1>4, WriteKeeps
<1>7. CallsOK'
  BY <1>3, <1>4 DEF Inv, CallsOK
<1>a. f \notin deleted => lockFile[f] # 0 /\ inodes[f] # 0 /\ file[f].gen # 0
  BY <1>1 DEF Inv, LocksOK, FilesOK, At
<1>8. FilesOK'
  BY <1>1, <1>2, <1>4, <1>a, WriteFacts DEF Inv, FilesOK
<1>9. WrittenOK'
  BY <1>1, <1>2, <1>3, <1>4, <1>5, WriteFacts, CallTyped DEF Inv, WrittenOK, At
<1>10. LocksReleased' /\ LocksOK'
  BY <1>1, <1>3, <1>4, <1>5 DEF Inv, LocksReleased, LocksOK, At
<1>b. \A g \in Files : g \notin deleted => (file[g].exists => file'[g].exists)
  BY <1>1, <1>2, WriteFacts
<1>11. CreatorsOK'
  <2>1. ASSUME NEW q \in Processes, call[q].op = "create", call[q].at = "create", call[q].f \notin deleted
        PROVE  call[q].f # f
    BY <1>1, <1>a, <2>1 DEF Inv, CreatorsOK, At
  <2> QED BY <2>1, <1>1, <1>2, <1>3, <1>4, <1>5, <1>b, WriteFacts, CallTyped DEF Inv, CreatorsOK, At
<1>12. UpdatersOK'
  BY <1>3, <1>4, <1>5, <1>b, CallTyped DEF Inv, UpdatersOK, BeingCreated
<1>13. WritersOK'
  <2> SUFFICES ASSUME NEW q \in Processes, q # p, call[q].f \in Objects \ (deleted \union early),
                      \/ call[q].op = "create" /\ call[q].at \in {"generation", "class", "defaults"}
                      \/ At(q, "commit")
               PROVE  obj'[q][call[q].f].gen = file'[call[q].f].gen
    BY <1>3, <1>4, <1>5 DEF WritersOK, At
  <2>1. call[q].f # f
    <3> SUFFICES ASSUME call[q].f = f PROVE FALSE
      OBVIOUS
    <3>1. CASE At(q, "commit")
      BY <3>1, <1>1 DEF Inv, LocksOK, LocksReleased, At
    <3>2. CASE call[q].op = "create" /\ call[q].at \in {"generation", "class", "defaults"}
      BY <3>2, <1>1 DEF Inv, CreatorsOK, UpdatersOK, BeingCreated
    <3> QED BY <3>1, <3>2
  <2> QED BY <2>1, <1>1, <1>2, WriteFacts, CallTyped DEF Inv, WritersOK
<1>14. NoLostUpdate'
  <2>1. f \in Objects \ (deleted \union early) => obj[p][f].n = file[f].n
    BY <1>1 DEF Inv, WritersOK, CachesOK, At
  <2>2. f \in Objects \ (deleted \union early) => file'[f].n = done'[f]
    BY <2>1, <1>1, <1>2, <1>4, WriteFacts DEF v, Inv, NoLostUpdate, TypeOK
  <2>3. \A g \in Files : g # f => file'[g] = file[g] /\ done'[g] = done[g]
    BY <1>1, <1>2, <1>4, WriteFacts DEF Inv, TypeOK
  <2> QED BY <2>2, <2>3, <1>4 DEF Inv, NoLostUpdate, Files
<1> QED BY <1>6, <1>7, <1>8, <1>9, <1>10, <1>11, <1>12, <1>13, <1>14 DEF Inv

\* Opening a lock file keeps the one that is there.
LEMMA LockFileFacts ==
  ASSUME Inv, NEW f \in Files, OpenLockFile(f)
  PROVE  /\ lockFile' \in [Files -> Nat] /\ inodes' \in [Files -> Nat]
         /\ \A g \in Files : g # f => lockFile'[g] = lockFile[g] /\ inodes'[g] = inodes[g]
         /\ lockFile'[f] # 0 /\ (lockFile[f] # 0 => lockFile'[f] = lockFile[f])
         /\ f \notin deleted => inodes'[f] = lockFile'[f]
BY DEF Inv, TypeOK, FilesOK, OpenLockFile, LockFileFor

\* The parts about files and locks after a writing that opens the lock file.
LEMMA StoreKeeps ==
  ASSUME Inv, NEW p \in Processes, NEW f \in Files, NEW v \in Nat, Store(p, f, v),
         UNCHANGED <<dirGen, known, crashes, deleted, early, held>>,
         current' \in [Processes -> SUBSET Objects], done' \in [Files -> Nat],
         NEW c \in Calls, call' = [call EXCEPT ![p] = c],
         ~ At(p, "reload"), ~ At(p, "commit"),
         c.at \notin {"lock", "reload", "commit", "delete.lock"}
  PROVE  TypeOK' /\ CachesOK' /\ FilesOK' /\ CallsOK' /\ LocksReleased' /\ LocksOK'
<1>1. Write(p, f, v) /\ OpenLockFile(f)
  BY DEF Store
<1>2. TypeOK' /\ CachesOK'
  BY <1>1, LockFileFacts, WriteKeeps DEF Inv, TypeOK
<1>3. FilesOK'
  <2>1. ASSUME NEW g \in Files, g # f
        PROVE  /\ file'[g] = file[g] /\ writes'[g] = writes[g]
               /\ lockFile'[g] = lockFile[g] /\ inodes'[g] = inodes[g]
    BY <1>1, <2>1, LockFileFacts, WriteFacts
  <2>2. f \notin deleted => lockFile'[f] = inodes'[f] /\ inodes'[f] # 0
    BY <1>1, LockFileFacts
  <2>3. /\ file'[f].gen = file[f].gen + 1 /\ writes'[f] = writes[f] + 1
        /\ file'[f].gen # 0 /\ file'[f].exists
    BY <1>1, WriteFacts
  <2>4. f \notin deleted => file[f].gen = writes[f]
    BY DEF Inv, FilesOK
  <2> QED BY <2>1, <2>2, <2>3, <2>4 DEF Inv, FilesOK
<1>4. CallsOK'
  BY DEF Inv, CallsOK
<1>5. call'[p] = c /\ \A q \in Processes : q # p => call'[q] = call[q]
  BY DEF Inv, CallsOK
<1>6. LocksReleased'
  BY <1>5 DEF Inv, LocksReleased, At
<1>7. LocksOK'
  <2>1. \A g \in Files : lockFile[g] # 0 => lockFile'[g] = lockFile[g]
    BY <1>1, LockFileFacts
  <2>2. held[p] = 0
    BY DEF Inv, LocksReleased
  <2> QED BY <2>1, <2>2, <1>5, CallTyped DEF Inv, LocksOK, At
<1> QED BY <1>2, <1>3, <1>4, <1>6, <1>7

LEMMA setTokenFlagsKeeps ==
  ASSUME Inv, NEW p \in Processes, setTokenFlags(p)
  PROVE  Inv'
<1> DEFINE v == obj[p][Token].n
<1>1. Token \in Files /\ Token \notin Objects /\ v \in Nat
  BY ConstantsOK, CachedOK DEF Files, ObjectStates
<1>2. /\ call' = [call EXCEPT ![p] = Idle] /\ Store(p, Token, v)
      /\ UNCHANGED <<dirGen, known, crashes, deleted, early, held, current, done>>
      /\ ~ At(p, "reload") /\ ~ At(p, "commit")
  BY DEF setTokenFlags, Return, history, At
<1>3. Write(p, Token, v) /\ OpenLockFile(Token)
  BY <1>2 DEF Store
<1> HIDE DEF v
<1>4. TypeOK' /\ CachesOK' /\ FilesOK' /\ CallsOK' /\ LocksReleased' /\ LocksOK'
  <2>1. current' \in [Processes -> SUBSET Objects] /\ done' \in [Files -> Nat]
    BY <1>2 DEF Inv, TypeOK
  <2>2. Idle \in Calls /\ Idle.at \notin {"lock", "reload", "commit", "delete.lock"}
    BY CallReturns, IdleFields
  <2> QED BY <2>1, <2>2, <1>1, <1>2, StoreKeeps
<1>5. call'[p] = Idle /\ \A q \in Processes : q # p => call'[q] = call[q]
  BY <1>2 DEF Inv, CallsOK
<1>6. /\ \A g \in Objects : g \in Files /\ g # Token /\ file'[g] = file[g]
      /\ \A q \in Processes, g \in Objects : obj'[q][g] = obj[q][g]
      /\ file'[Token].gen # 0
  <2>1. \A g \in Objects : g \in Files /\ g # Token
    BY <1>1 DEF Files
  <2> QED BY <2>1, <1>1, <1>3, WriteFacts
<1>7. CreatorsOK' /\ UpdatersOK'
  BY <1>2, <1>5, <1>6, IdleFields, CallTyped DEF Inv, CreatorsOK, UpdatersOK, BeingCreated, At
<1>8. WritersOK' /\ NoLostUpdate'
  BY <1>2, <1>5, <1>6, IdleFields DEF Inv, WritersOK, NoLostUpdate, At
<1>9. WrittenOK'
  BY <1>2, <1>5, <1>6, IdleFields, CallTyped DEF Inv, WrittenOK, At, Files
<1> QED BY <1>4, <1>7, <1>8, <1>9 DEF Inv
-----------------------------------------------------------------------------
(* Creating and deleting *)

\* The creator's writings outside of a transaction.
LEMMA CreatorStores ==
  ASSUME Inv, NEW p \in Processes, NEW v \in Nat, call[p].op = "create",
         call[p].at \in {"create", "class", "defaults"},
         Store(p, call[p].f, v),
         NEW point \in {"generation", "defaults", "open"}, Goto(p, point),
         UNCHANGED <<dirGen, known, held, crashes, deleted, early>>,
         current' \in [Processes -> SUBSET Objects], done' \in [Files -> Nat],
         \A g \in Files : g # call[p].f => done'[g] = done[g],
         call[p].f \notin deleted \union early => v = done'[call[p].f]
  PROVE  Inv'
<1> DEFINE f == call[p].f
           c == [call[p] EXCEPT !.at = point]
<1>1. f \in Files /\ f \in Objects /\ c \in Calls /\ c.at = point /\ c.op = "create" /\ c.f = f
  BY CallTyped, Points, CallMoves
<1>2. call' = [call EXCEPT ![p] = c] /\ ~ At(p, "reload") /\ ~ At(p, "commit")
  BY DEF Goto, At
<1>3. call'[p] = c /\ \A q \in Processes : q # p => call'[q] = call[q]
  BY <1>2 DEF Inv, CallsOK
<1> HIDE DEF c
<1>4. TypeOK' /\ CachesOK' /\ FilesOK' /\ CallsOK' /\ LocksReleased' /\ LocksOK'
  BY <1>1, <1>2, StoreKeeps
<1>5. Write(p, f, v)
  BY DEF Store
<1>6. /\ \A g \in Files : g # f => file'[g] = file[g]
      /\ \A q \in Processes, g \in Files : q # p \/ g # f => obj'[q][g] = obj[q][g]
      /\ file'[f].exists /\ file'[f].gen # 0 /\ file'[f].n = v /\ obj'[p][f].gen = file'[f].gen
  <2>1. /\ file'[f].exists /\ file'[f].gen # 0 /\ file'[f].n = v /\ obj'[p][f].gen = file'[f].gen
    BY <1>1, <1>5, WriteFacts
  <2>2. /\ \A g \in Files : g # f => file'[g] = file[g]
        /\ \A q \in Processes, g \in Files : q # p \/ g # f => obj'[q][g] = obj[q][g]
    BY <1>1, <1>5, WriteFacts
  <2> QED BY <2>1, <2>2
<1>7. \A q \in Processes : call[q].op = "create" /\ call[q].f = f /\ f \notin deleted => q = p
  BY DEF Inv, CreatorsOK
<1>8. CreatorsOK'
  BY <1>1, <1>3, <1>6, <1>7, CallTyped DEF Inv, CreatorsOK, At
<1>9. UpdatersOK'
  BY <1>1, <1>3, <1>6, CallTyped DEF Inv, UpdatersOK, BeingCreated
<1>10. WrittenOK'
  BY <1>1, <1>3, <1>6, CallTyped DEF Inv, WrittenOK, At
<1>11. WritersOK'
  <2> SUFFICES ASSUME NEW q \in Processes, q # p, call[q].f \in Objects \ (deleted \union early),
                      \/ call[q].op = "create" /\ call[q].at \in {"generation", "class", "defaults"}
                      \/ At(q, "commit")
               PROVE  obj'[q][call[q].f].gen = file'[call[q].f].gen
    BY <1>1, <1>3, <1>6 DEF WritersOK, At
  <2>1. call[q].f # f
    <3> SUFFICES ASSUME call[q].f = f PROVE FALSE
      OBVIOUS
    <3>1. call[q].op # "create"
      BY <1>7
    <3>2. call[q].op = "update" /\ At(q, "commit")
      BY <3>1, CallTyped, Points DEF At, Ops
    <3> QED BY <3>2 DEF Inv, UpdatersOK, BeingCreated, At
  <2> QED BY <2>1, <1>6, CallTyped DEF Inv, WritersOK
<1>12. NoLostUpdate'
  BY <1>1, <1>6 DEF Inv, NoLostUpdate, Files
<1> QED BY <1>4, <1>8, <1>9, <1>10, <1>11, <1>12 DEF Inv

LEMMA CreateStoreKeeps ==
  ASSUME Inv, NEW p \in Processes, CreateStore(p)
  PROVE  Inv'
<1>1. call[p].op = "create" /\ call[p].at = "create" /\ call[p].f \in Objects /\ call[p].f \in Files
  BY CallTyped, Points DEF CreateStore, At, Ops
<1>2. /\ Store(p, call[p].f, 0) /\ Goto(p, "generation")
      /\ UNCHANGED <<dirGen, known, held, crashes, deleted, early, done>>
      /\ current' = [current EXCEPT ![p] = @ \union {call[p].f}]
  BY DEF CreateStore, history
<1>3. current' \in [Processes -> SUBSET Objects] /\ done' \in [Files -> Nat]
  BY <1>1, <1>2 DEF Inv, TypeOK
<1>4. call[p].f \notin deleted \union early => done[call[p].f] = 0
  BY <1>1 DEF Inv, CreatorsOK, FilesOK, NoLostUpdate, At
<1> QED BY <1>1, <1>2, <1>3, <1>4, CreatorStores

LEMMA P11Object_initKeeps ==
  ASSUME Inv, NEW p \in Processes, P11Object_init(p)
  PROVE  Inv'
<1> DEFINE f == call[p].f
<1>1. call[p].op = "create" /\ call[p].at \in {"class", "defaults"} /\ f \in Objects /\ f \in Files
  BY CallTyped, Points DEF P11Object_init, At, Ops
<1>2. obj[p][f].n \in Nat /\ done[f] \in Nat
  BY <1>1, CachedOK DEF ObjectStates, Inv, TypeOK
<1>3. f \notin deleted \union early => obj[p][f].n = done[f]
  BY <1>1 DEF Inv, WritersOK, CachesOK, NoLostUpdate
<1>4. /\ UNCHANGED <<dirGen, known, current, held, crashes, deleted, early>>
      /\ current' \in [Processes -> SUBSET Objects]
  BY DEF P11Object_init, Inv, TypeOK
<1>5. CASE At(p, "class") /\ Store(p, f, obj[p][f].n + 1) /\ done' = [done EXCEPT ![f] = @ + 1]
           /\ Goto(p, "defaults")
  <2>1. /\ done' \in [Files -> Nat] /\ done'[f] = done[f] + 1
        /\ \A g \in Files : g # f => done'[g] = done[g]
    BY <1>1, <1>5 DEF Inv, TypeOK
  <2> DEFINE v == obj[p][f].n + 1
  <2>2. v \in Nat /\ (f \notin deleted \union early => v = done'[f]) /\ Store(p, f, v)
    BY <1>2, <1>3, <1>5, <2>1
  <2> HIDE DEF v
  <2> QED BY <2>1, <2>2, <1>1, <1>4, <1>5, CreatorStores DEF At
<1>6. CASE At(p, "defaults") /\ Store(p, f, obj[p][f].n) /\ UNCHANGED done /\ Goto(p, "open")
  <2>1. done' \in [Files -> Nat] /\ \A g \in Files : done'[g] = done[g]
    BY <1>6 DEF Inv, TypeOK
  <2> QED BY <2>1, <1>1, <1>2, <1>3, <1>4, <1>6, CreatorStores DEF At
<1> QED BY <1>5, <1>6 DEF P11Object_init

LEMMA createObjectKeeps ==
  ASSUME Inv, NEW p \in Processes, NEW f \in Files, createObject(p, f)
  PROVE  Inv'
<1> DEFINE c == [at |-> "create", op |-> "create", f |-> f, ino |-> 0, todo |-> {}]
<1>1. c \in Calls /\ c.at = "create" /\ c.op = "create" /\ c.f = f /\ f \in Objects
  BY Points, CallFields DEF createObject, Ops
<1>2. /\ call' = [call EXCEPT ![p] = c] /\ file' = [file EXCEPT ![f] = Empty]
      /\ UNCHANGED <<lockFile, inodes, dirGen, writes, known, current, obj, held, crashes, done, deleted, early>>
      /\ At(p, "idle") /\ inodes[f] = 0 /\ ~ file[f].exists
  BY DEF createObject, Start, memory, history
<1>3. /\ call'[p] = c /\ held[p] = 0
      /\ \A q \in Processes : q # p => call'[q] = call[q]
  BY <1>2 DEF Inv, CallsOK, LocksReleased, At
<1>4. f \notin deleted => file[f].gen = 0 /\ file[f].n = 0
  BY DEF Inv, FilesOK, NoFile, createObject
<1>5. /\ Empty \in FileStates /\ Empty.gen = 0 /\ Empty.n = 0 /\ Empty.exists
  BY DEF Empty, FileStates
<1>6. /\ file'[f] = Empty /\ file' \in [Files -> FileStates]
      /\ \A g \in Files : g # f => file'[g] = file[g]
  BY <1>2, <1>5 DEF Inv, TypeOK
<1> HIDE DEF c
<1>7. TypeOK' /\ CallsOK'
  <2>1. \A g \in Files : file'[g].gen <= writes[g]
    <3>1. writes[f] \in Nat /\ \A g \in Files : file[g].gen <= writes[g]
      BY DEF Inv, TypeOK
    <3> QED BY <3>1, <1>5, <1>6
  <2> QED BY <2>1, <1>1, <1>2, <1>6 DEF Inv, TypeOK, CallsOK
<1>8. FilesOK' /\ CachesOK'
  BY <1>1, <1>2, <1>4, <1>5, <1>6, ConstantsOK DEF Inv, FilesOK, CachesOK
<1>9. NoLostUpdate'
  BY <1>1, <1>2, <1>4, <1>5, <1>6 DEF Inv, NoLostUpdate, Files
<1>10. LocksReleased' /\ LocksOK'
  BY <1>1, <1>2, <1>3 DEF Inv, LocksReleased, LocksOK, At
<1>11. \A q \in Processes : call[q].op = "create" /\ call[q].f \notin deleted => call[q].f # f
  BY <1>2 DEF Inv, CreatorsOK
<1>12. CreatorsOK'
  BY <1>1, <1>2, <1>3, <1>5, <1>6, <1>11, CallTyped DEF Inv, CreatorsOK, At
<1>13. UpdatersOK'
  <2>1. \A q \in Processes :
          call[q].op = "update" /\ call[q].at \in {"open", "lock", "reload", "commit"}
          /\ call[q].f \notin deleted \union early => call[q].f # f
    BY <1>2 DEF Inv, UpdatersOK
  <2> QED BY <2>1, <1>1, <1>2, <1>3, <1>6, CallTyped DEF Inv, UpdatersOK, BeingCreated
<1>14. WrittenOK'
  BY <1>1, <1>2, <1>3, <1>4, <1>6, CallTyped DEF Inv, WrittenOK, At
<1>15. WritersOK'
  BY <1>1, <1>2, <1>3, <1>4, <1>5, <1>6, CallTyped DEF Inv, WritersOK, At
<1> QED BY <1>7, <1>8, <1>9, <1>10, <1>12, <1>13, <1>14, <1>15 DEF Inv

LEMMA deleteObjectKeeps ==
  ASSUME Inv, NEW p \in Processes, deleteObject(p)
  PROVE  Inv'
<1> DEFINE f == call[p].f
           c == IF file[f].exists THEN [call[p] EXCEPT !.at = "delete.lock"] ELSE Idle
           o == [obj[p] EXCEPT ![f].valid = FALSE]
<1>1. /\ f \in Files /\ f \in Objects /\ call[p].op = "delete" /\ call[p].at = "delete"
      /\ call[p] \in Calls
  BY CallTyped, Points DEF deleteObject, At, Ops
<1>2. /\ c \in Calls /\ c.at \in {"delete.lock", "idle"} /\ c.op \in {"delete", "none"}
      /\ c.at = "delete.lock" => c.f = f
  <2>1. "delete.lock" \in PointsOf(call[p].op)
    BY <1>1, Points
  <2> QED BY <1>1, <2>1, CallMoves, CallReturns, IdleFields
<1>3. /\ call' = [call EXCEPT ![p] = c] /\ file' = [file EXCEPT ![f] = NoFile]
      /\ obj' = [obj EXCEPT ![p] = o] /\ deleted' = deleted \union {f}
      /\ UNCHANGED <<lockFile, inodes, dirGen, writes, known, current, held, crashes, done, early>>
  BY DEF deleteObject, Goto, Return
<1>4. /\ call'[p] = c /\ held[p] = 0 /\ obj'[p] = o
      /\ \A q \in Processes : q # p => call'[q] = call[q] /\ obj'[q] = obj[q]
  BY <1>1, <1>3 DEF Inv, CallsOK, TypeOK, LocksReleased, At
<1>5. /\ NoFile \in FileStates /\ NoFile.gen = 0
  BY DEF NoFile, FileStates
<1>6. /\ file' \in [Files -> FileStates] /\ file'[f] = NoFile
      /\ \A g \in Files : g # f => file'[g] = file[g]
  BY <1>1, <1>3, <1>5 DEF Inv, TypeOK
<1>7. /\ o \in [Files -> ObjectStates]
      /\ \A g \in Files : o[g].gen = obj[p][g].gen /\ o[g].n = obj[p][g].n
  <2> DEFINE x == [obj[p][f] EXCEPT !.valid = FALSE]
  <2>1. x \in ObjectStates /\ x.gen = obj[p][f].gen /\ x.n = obj[p][f].n
    <3>1. obj[p][f] \in ObjectStates
      BY <1>1, CachedOK
    <3>2. ASSUME NEW y \in ObjectStates
          PROVE  LET z == [y EXCEPT !.valid = FALSE] IN z \in ObjectStates /\ z.gen = y.gen /\ z.n = y.n
      BY DEF ObjectStates
    <3> QED BY <3>1, <3>2
  <2>2. o = [obj[p] EXCEPT ![f] = x] /\ obj[p] \in [Files -> ObjectStates]
    BY CachedOK
  <2> HIDE DEF x, o
  <2> QED BY <2>1, <2>2, <1>1
<1> HIDE DEF c, o
<1>8. TypeOK'
  <2>1. \A g \in Files : file'[g].gen <= writes[g]
    <3>1. writes[f] \in Nat /\ \A g \in Files : file[g].gen <= writes[g]
      BY <1>1 DEF Inv, TypeOK
    <3> QED BY <3>1, <1>5, <1>6
  <2>2. \A q \in Processes, g \in Files : obj'[q][g].gen <= writes[g]
    BY <1>4, <1>7 DEF Inv, TypeOK
  <2>3. obj' \in [Processes -> [Files -> ObjectStates]]
    BY <1>3, <1>7 DEF Inv, TypeOK
  <2> QED BY <2>1, <2>2, <2>3, <1>1, <1>3, <1>6 DEF Inv, TypeOK
<1>9. CallsOK'
  BY <1>2, <1>3 DEF Inv, CallsOK
<1>10. FilesOK' /\ NoLostUpdate'
  BY <1>3, <1>6 DEF Inv, FilesOK, NoLostUpdate, Files
<1>11. CachesOK'
  BY <1>3, <1>4, <1>6, <1>7 DEF Inv, CachesOK
<1>12. LocksReleased' /\ LocksOK'
  BY <1>1, <1>2, <1>3, <1>4 DEF Inv, LocksReleased, LocksOK, At
<1>13. CreatorsOK'
  BY <1>2, <1>3, <1>4, <1>6, CallTyped DEF Inv, CreatorsOK, At
<1>14. UpdatersOK'
  BY <1>2, <1>3, <1>4, <1>6, CallTyped DEF Inv, UpdatersOK, BeingCreated
<1>15. WrittenOK'
  BY <1>2, <1>3, <1>4, <1>6, CallTyped DEF Inv, WrittenOK, At
<1>16. WritersOK'
  BY <1>2, <1>3, <1>4, <1>6, CallTyped DEF Inv, WritersOK, At
<1> QED BY <1>8, <1>9, <1>10, <1>11, <1>12, <1>13, <1>14, <1>15, <1>16 DEF Inv

LEMMA DeleteLockKeeps ==
  ASSUME Inv, NEW p \in Processes, DeleteLock(p)
  PROVE  Inv'
<1> DEFINE f == call[p].f
           c == IF lockFile[f] # 0 THEN [call[p] EXCEPT !.at = "generation"] ELSE Idle
<1>1. /\ f \in Files /\ f \in Objects /\ call[p].op = "delete" /\ call[p].at = "delete.lock"
      /\ call[p] \in Calls
  BY CallTyped, Points DEF DeleteLock, At, Ops
<1>2. c \in Calls /\ c.at \in {"generation", "idle"} /\ c.op \in {"delete", "none"}
  BY <1>1, Points, CallMoves, CallReturns, IdleFields
<1>3. /\ call' = [call EXCEPT ![p] = c] /\ lockFile' = [lockFile EXCEPT ![f] = 0]
      /\ UNCHANGED <<file, inodes, dirGen, writes, known, current, obj, held, crashes, done, deleted, early>>
  BY DEF DeleteLock, Goto, Return, memory, history
<1>4. /\ call'[p] = c /\ held[p] = 0 /\ f \in deleted
      /\ \A q \in Processes : q # p => call'[q] = call[q]
  BY <1>1, <1>3 DEF Inv, CallsOK, LocksReleased, LocksOK, At
<1>5. \A g \in Files : g \notin deleted => lockFile'[g] = lockFile[g]
  BY <1>3, <1>4 DEF Inv, TypeOK
<1> HIDE DEF c
<1>6. TypeOK' /\ CallsOK'
  BY <1>1, <1>2, <1>3 DEF Inv, TypeOK, CallsOK
<1>7. FilesOK' /\ CachesOK' /\ NoLostUpdate'
  BY <1>3, <1>5 DEF Inv, FilesOK, CachesOK, NoLostUpdate
<1>8. LocksReleased' /\ LocksOK'
  BY <1>1, <1>2, <1>3, <1>4, <1>5, CallTyped DEF Inv, LocksReleased, LocksOK, At
<1>9. CreatorsOK' /\ UpdatersOK'
  BY <1>2, <1>3, <1>4 DEF Inv, CreatorsOK, UpdatersOK, BeingCreated, At
<1>10. WrittenOK' /\ WritersOK'
  BY <1>2, <1>3, <1>4 DEF Inv, WrittenOK, WritersOK, At
<1> QED BY <1>6, <1>7, <1>8, <1>9, <1>10 DEF Inv

LEMMA commitGenerationKeeps ==
  ASSUME Inv, NEW p \in Processes, commitGeneration(p)
  PROVE  Inv'
<1> DEFINE c == IF call[p].op = "create" THEN [call[p] EXCEPT !.at = "class"] ELSE Idle
<1>1. call[p] \in Calls /\ call[p].at = "generation" /\ call[p].op \in {"create", "delete"}
  BY CallTyped, Points DEF commitGeneration, At, Ops
<1>2. /\ c \in Calls /\ c.at \in {"class", "idle"}
      /\ c.at = "class" => c.op = "create" /\ call[p].op = "create" /\ c.f = call[p].f
      /\ c.at = "idle" => c.op = "none"
  BY <1>1, Points, CallMoves, CallReturns, IdleFields
<1>3. /\ call' = [call EXCEPT ![p] = c]
      /\ UNCHANGED <<file, lockFile, inodes, writes, current, obj, held, crashes, done, deleted, early>>
  BY DEF commitGeneration, Goto, Return, history
<1>4. dirGen' \in 1..MaxDirGen /\ known' \in [Processes -> 0..MaxDirGen]
  BY ConstantsOK DEF commitGeneration, Inv, TypeOK
<1>5. /\ call'[p] = c /\ held[p] = 0
      /\ \A q \in Processes : q # p => call'[q] = call[q]
  BY <1>1, <1>3 DEF Inv, CallsOK, LocksReleased, At
<1> HIDE DEF c
<1>6. TypeOK' /\ CallsOK'
  BY <1>2, <1>3, <1>4 DEF Inv, TypeOK, CallsOK
<1>7. FilesOK' /\ CachesOK' /\ NoLostUpdate'
  BY <1>3 DEF Inv, FilesOK, CachesOK, NoLostUpdate
<1>8. LocksReleased' /\ LocksOK'
  BY <1>1, <1>2, <1>3, <1>5 DEF Inv, LocksReleased, LocksOK, At
<1>9. CreatorsOK' /\ UpdatersOK'
  BY <1>1, <1>2, <1>3, <1>5 DEF Inv, CreatorsOK, UpdatersOK, BeingCreated, At
<1>10. WrittenOK' /\ WritersOK'
  BY <1>1, <1>2, <1>3, <1>5 DEF Inv, WrittenOK, WritersOK, At
<1> QED BY <1>6, <1>7, <1>8, <1>9, <1>10 DEF Inv
-----------------------------------------------------------------------------
LEMMA InitInv == Init => Inv
<1> SUFFICES ASSUME Init PROVE Inv
  OBVIOUS
<1>1. /\ Contents(1, 0) \in FileStates /\ NoFile \in FileStates /\ NoObject \in ObjectStates
      /\ Contents(1, 0).gen = 1 /\ Contents(1, 0).n = 0 /\ Contents(1, 0).exists
      /\ NoFile.gen = 0 /\ NoFile.n = 0 /\ NoObject.gen = 0 /\ NoObject.n = 0
  BY DEF Contents, NoFile, NoObject, FileStates, ObjectStates
<1>2. /\ file \in [Files -> FileStates] /\ writes \in [Files -> Nat]
      /\ lockFile \in [Files -> Nat] /\ inodes = lockFile
      /\ obj \in [Processes -> [Files -> ObjectStates]]
      /\ \A f \in Files : f = Token => file[f] = Contents(1, 0) /\ writes[f] = 1 /\ lockFile[f] = 1
      /\ \A f \in Files : f # Token => file[f] = NoFile /\ writes[f] = 0 /\ lockFile[f] = 0
      /\ \A p \in Processes, f \in Files : obj[p][f] = NoObject
      /\ \A p \in Processes : call[p] = Down /\ held[p] = 0
      /\ \A f \in Files : done[f] = 0
  BY <1>1 DEF Init
<1>3. TypeOK
  BY <1>1, <1>2, ConstantsOK DEF Init, TypeOK
<1>4. CallsOK
  BY CallReturns DEF Init, CallsOK
<1>5. FilesOK /\ CachesOK /\ NoLostUpdate
  BY <1>1, <1>2, ConstantsOK DEF FilesOK, CachesOK, NoLostUpdate, Files
<1>6. LocksReleased /\ LocksOK /\ CreatorsOK /\ UpdatersOK /\ WrittenOK /\ WritersOK
  BY <1>2, IdleFields DEF LocksReleased, LocksOK, CreatorsOK, UpdatersOK, WrittenOK, WritersOK, At
<1> QED BY <1>3, <1>4, <1>5, <1>6 DEF Inv

LEMMA NextKeeps == Inv /\ [Next]_vars => Inv'
<1> SUFFICES ASSUME Inv, [Next]_vars PROVE Inv'
  OBVIOUS
<1>1. CASE UNCHANGED vars
  <2>1. UNCHANGED <<file, lockFile, inodes, dirGen, writes, known, current, obj, held, call, crashes,
                    done, deleted, early>>
    BY <1>1 DEF vars, disk, memory, history
  <2> QED BY <2>1 DEF Inv, TypeOK, CallsOK, FilesOK, WrittenOK, CachesOK, LocksReleased, LocksOK,
                      CreatorsOK, UpdatersOK, BeingCreated, WritersOK, NoLostUpdate, At
<1>2. ASSUME NEW p \in Processes, NEW f \in Files,
             Update(p, f) \/ Delete(p, f) \/ createObject(p, f)
      PROVE  Inv'
  BY <1>2, CallsKeep, createObjectKeeps
<1>3. ASSUME NEW p \in Processes, getObjects(p) \/ pinResult(p)
      PROVE  Inv'
  <2>1. Token \in Files
    BY DEF Files
  <2> QED BY <1>3, <2>1, CallsKeep
<1>4. ASSUME NEW p \in Processes,
             Open(p) \/ index(p) \/ List(p) \/ Load(p) \/ refresh(p) \/ Crash(p)
      PROVE  Inv'
  BY <1>4, OpenKeeps, indexKeeps, ListKeeps, LoadKeeps, refreshKeeps, CrashKeeps
<1>5. ASSUME NEW p \in Processes,
             \/ startTransaction(p) \/ Lock(p) \/ Reload(p)
             \/ commitTransaction(p) \/ abortTransaction(p) \/ RereadAfterAbort(p)
      PROVE  Inv'
  BY <1>5, startTransactionKeeps, LockKeeps, ReloadKeeps, commitTransactionKeeps, AbortKeeps,
     RereadAfterAbortKeeps
<1>6. ASSUME NEW p \in Processes,
             \/ setTokenFlags(p) \/ CreateStore(p) \/ P11Object_init(p)
             \/ deleteObject(p) \/ DeleteLock(p) \/ commitGeneration(p)
      PROVE  Inv'
  BY <1>6, setTokenFlagsKeeps, CreateStoreKeeps, P11Object_initKeeps, deleteObjectKeeps, DeleteLockKeeps,
     commitGenerationKeeps
<1> QED BY <1>1, <1>2, <1>3, <1>4, <1>5, <1>6 DEF Next

\* The inductive invariant holds in every state of the object store.
THEOREM InvariantHolds == Spec => []Inv
BY InitInv, NextKeeps, PTL DEF Spec

\* Type correctness: numbers of generations stay within what was written.
THEOREM TypeCorrect == Spec => []TypeOK
<1>1. Inv => TypeOK
  BY DEF Inv
<1> QED BY <1>1, InvariantHolds, PTL

\* OSToken and ObjectFile: a cache with the generation number of the file has the
\* contents of the file, for any number of processes, writings and crashes.
THEOREM StaleIsNoticed == Spec => []StaleCacheNoticed
<1>1. Inv => StaleCacheNoticed
  BY DEF Inv, CachesOK, StaleCacheNoticed
<1> QED BY <1>1, InvariantHolds, PTL

\* startTransaction and commitTransaction: no update of an object is lost, unless
\* it began while the object was being created or the object was deleted.
THEOREM UpdatesKept == Spec => []NoLostUpdate
<1>1. Inv => NoLostUpdate
  BY DEF Inv
<1> QED BY <1>1, InvariantHolds, PTL

\* Every way out of a transaction releases the lock file.
THEOREM LocksAreReleased == Spec => []LocksReleased
<1>1. Inv => LocksReleased
  BY DEF Inv
<1> QED BY <1>1, InvariantHolds, PTL

=============================================================================
