------------------------- MODULE ReplaceStoreProofs -------------------------
(***************************************************************************)
(* The store that replaces a record by rename, one file-system operation   *)
(* at a time (ReplaceStore), for any IDs, records and number of calls:     *)
(* what was acknowledged is found complete after any crash                 *)
(* (AcknowledgedLoads), and at the granularity of calls the directory is   *)
(* the store of RecordStore (ImplementsRecordStore).                       *)
(*                                                                         *)
(* FileInv speaks of names and inodes: which names the inode of the call   *)
(* in progress has in each state a crash may bring back.  It tells what    *)
(* each step does to the entry of an ID, and EntryInv, from there on,      *)
(* speaks of entries only: how far those of the ID of the call have come   *)
(* from the state the call began in, and that no other ID is touched.      *)
(***************************************************************************)
EXTENDS ReplaceStore, FiniteSetTheorems, TLAPS

-----------------------------------------------------------------------------
(* Names and inodes                                                        *)

FileNames == [kind : {"final", "temp"}, id : Ids, call : Nat]
Inodes    == [call : Nat, record : Records \cup {None}]
Dirs      == UNION {[D -> Inodes] : D \in SUBSET FileNames}

(* The directories a crash may leave, with the one in place.               *)
Stored == {log[i] : i \in DOMAIN log}

LogType == log \in Seq(Dirs) /\ log # <<>>

(* Inodes are numbered by calls, a temporary file by its own, and no two   *)
(* IDs share one.                                                          *)
Numbered(d) ==
  \A x \in DOMAIN d :
    /\ d[x].call <= calls
    /\ x.kind = "temp" => d[x].call = x.call
    /\ \A y \in DOMAIN d : d[x].call = d[y].call => x.id = y.id

(* The names of the file the call is making.                               *)
Mine(d) ==
  \A x \in DOMAIN d : d[x].call = calls =>
    /\ call.step # "create"
    /\ x = MyTemp \/ (call.step \in {"unlink", "sync"} /\ x = Final(call.id))
    /\ call.step # "write" => d[x].record = call.record

(* Where it is in the directory.                                           *)
Placed ==
  /\ call.step \in {"write", "link", "rename", "unlink"} =>
       MyTemp \in DOMAIN dir
  /\ call.step = "sync" => MyTemp \notin DOMAIN dir
  /\ call.step \in {"unlink", "sync"} =>
       /\ Final(call.id) \in DOMAIN dir
       /\ dir[Final(call.id)].call = calls

CallInv ==
  call # None =>
    /\ call \in Calls
    /\ call.number = calls
    /\ call.step = "rename" => call.replace
    /\ call.step \in {"link", "unlink"} => ~call.replace

FileInv ==
  /\ LogType
  /\ calls \in Nat
  /\ CallInv
  /\ \A d \in Stored : Numbered(d)
  /\ call # None => Placed /\ \A d \in Stored : Mine(d)

-----------------------------------------------------------------------------
(* Entries                                                                 *)

Once(r)  == [record |-> r, names |-> 1]
Twice(r) == [record |-> r, names |-> 2]

(* What a reader may find of an ID after a crash, or finds now.            *)
Kept(id) == {Entry(d, id) : d \in Stored}

(* The entries of an ID are those the call in progress found.              *)
AsFound(id) ==
  /\ Entry(dir, id) = call.base.file[id]
  /\ Kept(id) = call.base.undo[id] \cup {call.base.file[id]}

(* The record was replaced.                                                *)
Renamed(id) ==
  /\ Entry(dir, id) = Once(call.record)
  /\ Kept(id) = call.base.undo[id] \cup {call.base.file[id]}
                  \cup {Once(call.record)}

(* The new record has its name, and the temporary one too.                 *)
Linked(id) ==
  /\ Entry(dir, id) = Twice(call.record)
  /\ Kept(id) = {None, Twice(call.record)}

Unlinked(id) ==
  /\ Entry(dir, id) = Once(call.record)
  /\ Kept(id) = {None, Twice(call.record), Once(call.record)}

(* How far the call has come with its own ID.                              *)
Advanced(id) ==
  IF call.replace
  THEN /\ call.base.file[id] # None
       /\ call.base.file[id].names = 1
       /\ IF call.step = "sync" THEN Renamed(id) ELSE AsFound(id)
  ELSE /\ call.base.file[id] = None
       /\ call.base.undo[id] = {}
       /\ CASE call.step = "unlink" -> Linked(id)
            [] call.step = "sync"   -> Unlinked(id)
            [] OTHER                -> AsFound(id)

BaseInv ==
  call # None =>
    /\ \A id \in Ids : call.base.file[id] \notin call.base.undo[id]
    /\ \A id \in Ids \ {call.id} : AsFound(id)
    /\ Advanced(call.id)

(* The acknowledged records.                                               *)
AckInv ==
  /\ \A id \in Ids : allowed[id] # {} =>
       Kept(id) \subseteq {Once(r) : r \in allowed[id]}
  /\ call # None /\ allowed[call.id] # {} => call.record \in allowed[call.id]

EntryInv ==
  /\ allowed \in [Ids -> SUBSET Records]
  /\ \A id \in Ids : Kept(id) \subseteq Entries \cup {None}
  /\ \A id \in Ids : Entry(dir, id) = None => Kept(id) = {None}
  /\ AckInv
  /\ BaseInv

RInv == FileInv /\ EntryInv

-----------------------------------------------------------------------------
(* What an entry depends on                                                *)

(* The names of the record's inode are all that an entry counts.           *)
LEMMA EntrySame ==
  ASSUME NEW d, NEW e, NEW id,
         Final(id) \in DOMAIN d <=> Final(id) \in DOMAIN e,
         Final(id) \in DOMAIN d =>
           /\ e[Final(id)] = d[Final(id)]
           /\ \A x : (x \in DOMAIN d /\ d[x] = d[Final(id)])
                       <=> (x \in DOMAIN e /\ e[x] = d[Final(id)])
  PROVE  Entry(e, id) = Entry(d, id)
<1>1. CASE Final(id) \notin DOMAIN d
  BY <1>1 DEF Entry
<1>2. CASE Final(id) \in DOMAIN d
  <2>1. {x \in DOMAIN d : d[x] = d[Final(id)]}
          = {x \in DOMAIN e : e[x] = e[Final(id)]}
    BY <1>2
  <2> QED BY <1>2, <2>1 DEF Entry, Names
<1> QED BY <1>1, <1>2

(* A record with no other name.                                            *)
LEMMA EntryOnce ==
  ASSUME NEW d, NEW id, Final(id) \in DOMAIN d,
         \A x \in DOMAIN d : d[x] = d[Final(id)] => x = Final(id)
  PROVE  Entry(d, id) = Once(d[Final(id)].record)
<1>1. {x \in DOMAIN d : d[x] = d[Final(id)]} = {Final(id)}
  OBVIOUS
<1>2. Cardinality({Final(id)}) = 1
  BY FS_Singleton
<1> QED BY <1>1, <1>2 DEF Entry, Names, Once

(* A record with the name of a temporary file besides its own.             *)
LEMMA EntryTwice ==
  ASSUME NEW d, NEW id, NEW t, Final(id) \in DOMAIN d, t \in DOMAIN d,
         t # Final(id), d[t] = d[Final(id)],
         \A x \in DOMAIN d : d[x] = d[Final(id)] => x \in {t, Final(id)}
  PROVE  Entry(d, id) = Twice(d[Final(id)].record)
<1>1. {x \in DOMAIN d : d[x] = d[Final(id)]} = {t} \cup {Final(id)}
  OBVIOUS
<1>2. Cardinality({t}) = 1 /\ IsFiniteSet({t})
  BY FS_Singleton
<1>3. Cardinality({t} \cup {Final(id)}) = 2
  BY <1>2, FS_AddElement
<1> QED BY <1>1, <1>3 DEF Entry, Names, Twice

(* A change of the names of one file leaves every ID alone whose record is *)
(* another file.                                                           *)
Elsewhere(d, e, n) ==
  \A x : /\ (x \in DOMAIN d /\ d[x].call # n)
              <=> (x \in DOMAIN e /\ e[x].call # n)
         /\ x \in DOMAIN d /\ d[x].call # n => e[x] = d[x]

(* Linking, unlinking or writing one file is such a change.                *)
LEMMA EntryElsewhere ==
  ASSUME NEW d, NEW e, NEW n, NEW id, Elsewhere(d, e, n),
         Final(id) \in DOMAIN d => d[Final(id)].call # n,
         Final(id) \in DOMAIN e => e[Final(id)].call # n
  PROVE  Entry(e, id) = Entry(d, id)
<1>1. Final(id) \in DOMAIN d <=> Final(id) \in DOMAIN e
  BY DEF Elsewhere
<1>2. ASSUME Final(id) \in DOMAIN d
      PROVE  e[Final(id)] = d[Final(id)]
  BY <1>2 DEF Elsewhere
<1>3. ASSUME Final(id) \in DOMAIN d, NEW x
      PROVE  (x \in DOMAIN d /\ d[x] = d[Final(id)])
               <=> (x \in DOMAIN e /\ e[x] = d[Final(id)])
  <2>1. d[Final(id)].call # n
    BY <1>3
  <2> QED BY <2>1 DEF Elsewhere
<1> QED BY <1>1, <1>2, <1>3, EntrySame

-----------------------------------------------------------------------------
(* The directories of the log                                              *)

(* The names of the program are names of files, and a record's own name is *)
(* no temporary one.                                                       *)
LEMMA NameTypes ==
  ASSUME NEW id \in Ids, NEW n \in Nat
  PROVE  /\ Final(id) \in FileNames /\ Temp(id, n) \in FileNames
         /\ Final(id).kind = "final" /\ Final(id).id = id
         /\ Temp(id, n).kind = "temp" /\ Temp(id, n).id = id
         /\ Temp(id, n).call = n
         /\ \A other \in Ids : Final(other) # Temp(id, n)
         /\ \A other \in Ids : Final(other) = Final(id) => other = id
BY DEF Final, Temp, FileNames

(* A directory maps names of files to inodes.                              *)
LEMMA DirTypes ==
  ASSUME NEW d \in Dirs
  PROVE  /\ DOMAIN d \subseteq FileNames
         /\ \A x \in DOMAIN d :
              /\ d[x] \in Inodes
              /\ d[x].call \in Nat
              /\ d[x] = [call |-> d[x].call, record |-> d[x].record]
         /\ d \in [DOMAIN d -> Inodes]
<1>1. PICK D \in SUBSET FileNames : d \in [D -> Inodes]
  BY DEF Dirs
<1> QED BY <1>1 DEF Inodes

(* With and Without, at every name.                                        *)
LEMMA WithTypes ==
  ASSUME NEW d \in Dirs, NEW name \in FileNames, NEW inode \in Inodes
  PROVE  /\ With(d, name, inode) \in Dirs
         /\ DOMAIN With(d, name, inode) = DOMAIN d \cup {name}
         /\ With(d, name, inode)[name] = inode
         /\ \A x \in DOMAIN d :
              x # name => With(d, name, inode)[x] = d[x]
<1>1. DOMAIN d \cup {name} \in SUBSET FileNames
  BY DirTypes
<1>2. With(d, name, inode) \in [DOMAIN d \cup {name} -> Inodes]
  BY DirTypes DEF With
<1>3. With(d, name, inode) \in Dirs
  BY <1>1, <1>2 DEF Dirs
<1> QED BY <1>3 DEF With

(* remove_file takes one name away.                                        *)
LEMMA WithoutTypes ==
  ASSUME NEW d \in Dirs, NEW name
  PROVE  /\ Without(d, name) \in Dirs
         /\ DOMAIN Without(d, name) = DOMAIN d \ {name}
         /\ \A x \in DOMAIN d \ {name} : Without(d, name)[x] = d[x]
<1>1. DOMAIN d \ {name} \in SUBSET FileNames
  BY DirTypes
<1>2. Without(d, name) \in [DOMAIN d \ {name} -> Inodes]
  BY DirTypes DEF Without
<1>3. Without(d, name) \in Dirs
  BY <1>1, <1>2 DEF Dirs
<1> QED BY <1>3 DEF Without

(* The directory in place is one of those a crash may leave.               *)
LEMMA LogTypes ==
  ASSUME LogType
  PROVE  /\ dir \in Stored /\ Stored \subseteq Dirs
         /\ DOMAIN log = 1 .. Len(log) /\ Len(log) \in Nat \ {0}
<1>1. DOMAIN log = 1 .. Len(log) /\ Len(log) \in Nat \ {0}
  BY DEF LogType
<1>2. \A i \in DOMAIN log : log[i] \in Dirs
  BY DEF LogType
<1> QED BY <1>1, <1>2 DEF dir, Stored

(* A file-system operation adds a directory that a crash may leave.        *)
LEMMA LogAppend ==
  ASSUME LogType, NEW d \in Dirs, log' = Append(log, d)
  PROVE  /\ LogType' /\ dir' = d /\ Stored' = Stored \cup {d}
         /\ \A id : Kept(id)' = Kept(id) \cup {Entry(d, id)}
<1>1. /\ log' \in Seq(Dirs) /\ Len(log') = Len(log) + 1
      /\ \A i \in 1 .. Len(log) : log'[i] = log[i]
      /\ log'[Len(log) + 1] = d
  BY DEF LogType
<1>2. DOMAIN log = 1 .. Len(log) /\ Len(log) \in Nat
  BY DEF LogType
<1>3. DOMAIN log' = 1 .. Len(log) + 1
  BY <1>1
<1>4. Stored' \subseteq Stored \cup {d}
  <2>1. SUFFICES ASSUME NEW i \in DOMAIN log'
                 PROVE  log'[i] \in Stored \cup {d}
    BY DEF Stored
  <2> QED BY <1>1, <1>2, <1>3 DEF Stored
<1>5. Stored \cup {d} \subseteq Stored'
  <2>1. d \in Stored'
    BY <1>1, <1>2, <1>3 DEF Stored
  <2>2. ASSUME NEW i \in DOMAIN log PROVE log[i] \in Stored'
    BY <1>1, <1>2, <1>3 DEF Stored
  <2> QED BY <2>1, <2>2 DEF Stored
<1>6. Stored' = Stored \cup {d}
  BY <1>4, <1>5
<1>7. \A id : Kept(id)' = Kept(id) \cup {Entry(d, id)}
  BY <1>6 DEF Kept
<1>8. LogType' /\ dir' = d
  BY <1>1, <1>2 DEF LogType, dir
<1> QED BY <1>6, <1>7, <1>8

(* fsync, and a crash: one directory is left.                              *)
LEMMA LogSettled ==
  ASSUME NEW d \in Dirs, log' = <<d>>
  PROVE  /\ LogType' /\ dir' = d /\ Stored' = {d}
         /\ \A id : Kept(id)' = {Entry(d, id)}
<1>1. /\ log' \in Seq(Dirs) /\ Len(log') = 1 /\ DOMAIN log' = {1}
      /\ log'[1] = d /\ log' # <<>>
  OBVIOUS
<1>2. Stored' = {d}
  BY <1>1 DEF Stored
<1> QED BY <1>1, <1>2 DEF LogType, dir, Kept
-----------------------------------------------------------------------------
(* The call in progress and its file                                       *)

Steps == {"create", "write", "link", "unlink", "rename", "sync"}

InCall == FileInv /\ call # None

(* What every step of a call may use.                                      *)
LEMMA CallTypes ==
  ASSUME InCall
  PROVE  /\ call \in Calls /\ call.number = calls /\ calls \in Nat
         /\ call.id \in Ids /\ call.record \in Records
         /\ call.replace \in BOOLEAN /\ call.step \in Steps
         /\ LogType /\ dir \in Stored /\ dir \in Dirs
         /\ Stored \subseteq Dirs /\ Placed
         /\ \A d \in Stored : Numbered(d) /\ Mine(d)
         /\ MyTemp \in FileNames /\ MyTemp.kind = "temp"
         /\ MyTemp.id = call.id /\ MyTemp.call = calls
         /\ Final(call.id) \in FileNames /\ Final(call.id).id = call.id
         /\ Final(call.id).kind = "final"
         /\ \A id \in Ids : Final(id) # MyTemp
<1>1. call \in Calls /\ call.number = calls /\ calls \in Nat
  BY DEF InCall, FileInv, CallInv
<1>2. /\ call.id \in Ids /\ call.record \in Records
      /\ call.replace \in BOOLEAN /\ call.step \in Steps
  BY <1>1 DEF Calls, Steps
<1>3. /\ LogType /\ dir \in Stored /\ dir \in Dirs
      /\ Stored \subseteq Dirs /\ Placed
      /\ \A d \in Stored : Numbered(d) /\ Mine(d)
  BY LogTypes DEF InCall, FileInv
<1>4. MyTemp = Temp(call.id, calls)
  BY <1>1 DEF MyTemp
<1> QED BY <1>1, <1>2, <1>3, <1>4, NameTypes

(* A call goes on with everything but its step as it was.                  *)
LEMMA StepOn ==
  ASSUME InCall, NEW s \in Steps, Goto(s), UNCHANGED calls
  PROVE  /\ call' \in Calls /\ call' # None
         /\ call'.step = s /\ call'.number = calls'
         /\ call'.id = call.id /\ call'.record = call.record
         /\ call'.replace = call.replace /\ call'.base = call.base
         /\ MyTemp' = MyTemp /\ calls' = calls
<1>1. call \in Calls /\ call.number = calls
  BY CallTypes
<1>2. call' = [call EXCEPT !.step = s]
  BY DEF Goto
<1>3. call' \in Calls
  BY <1>1, <1>2 DEF Calls, Steps
<1>4. /\ call'.step = s /\ call'.number = calls
      /\ call'.id = call.id /\ call'.record = call.record
      /\ call'.replace = call.replace /\ call'.base = call.base
  BY <1>1, <1>2 DEF Calls
<1>5. call' # None
  BY <1>3, NoneAssumption
<1> QED BY <1>1, <1>3, <1>4, <1>5 DEF MyTemp

(* The temporary name stands for the call's own file.                      *)
LEMMA OwnTemp ==
  ASSUME InCall, NEW d \in Stored, MyTemp \in DOMAIN d
  PROVE  d[MyTemp].call = calls
<1>1. MyTemp.kind = "temp" /\ MyTemp.call = calls /\ Numbered(d)
  BY CallTypes
<1> QED BY <1>1 DEF Numbered

(* The record of another ID, or of any before the new one has its name, is *)
(* another file.                                                           *)
LEMMA OtherFinal ==
  ASSUME InCall, NEW d \in Stored, NEW id \in Ids, Final(id) \in DOMAIN d,
         id # call.id \/ call.step \notin {"unlink", "sync"}
  PROVE  d[Final(id)].call # calls
<1>1. Mine(d) /\ Final(id) # MyTemp /\ call.id \in Ids /\ calls \in Nat
  BY CallTypes
<1>2. Final(id) = Final(call.id) => id = call.id
  BY <1>1, NameTypes
<1> QED BY <1>1, <1>2 DEF Mine

(* Nothing of the ID changed, or one entry was added.                      *)
Same(id) == Entry(dir, id)' = Entry(dir, id) /\ Kept(id)' = Kept(id)

Adds(id, v) == Entry(dir, id)' = v /\ Kept(id)' = Kept(id) \cup {v}

(* The same of all IDs: an entry of the ID of the call was added.          *)
AddsOwn(v) ==
  \A id \in Ids : IF id = call.id THEN Adds(id, v) ELSE Same(id)

(* An operation that changes no entry of an ID leaves its outcomes alone.  *)
LEMMA AppendSame ==
  ASSUME LogType, NEW d \in Dirs, log' = Append(log, d), NEW id,
         Entry(d, id) = Entry(dir, id)
  PROVE  Same(id)
<1>1. dir' = d /\ Kept(id)' = Kept(id) \cup {Entry(d, id)}
  BY LogAppend
<1>2. Entry(dir, id) \in Kept(id)
  BY LogTypes DEF Kept
<1>3. Entry(dir, id)' = Entry(d, id)
  BY <1>1
<1> QED BY <1>1, <1>2, <1>3 DEF Same

(* An operation adds an outcome for the ID whose record it concerns.       *)
LEMMA AppendAdds ==
  ASSUME LogType, NEW d \in Dirs, log' = Append(log, d), NEW id
  PROVE  Adds(id, Entry(d, id))
<1>1. dir' = d /\ Kept(id)' = Kept(id) \cup {Entry(d, id)}
  BY LogAppend
<1>2. Entry(dir, id)' = Entry(d, id)
  BY <1>1
<1> QED BY <1>1, <1>2 DEF Adds

(* The log is not touched.                                                 *)
LEMMA LogSame ==
  ASSUME UNCHANGED log
  PROVE  /\ LogType' = LogType /\ dir' = dir /\ Stored' = Stored
         /\ \A id : Same(id)
<1>1. dir' = dir /\ Stored' = Stored
  BY DEF dir, Stored
<1> QED BY <1>1 DEF LogType, Same, Kept

(* FileInv after a step that adds a directory.                             *)
LEMMA AppendFileInv ==
  ASSUME FileInv, NEW d \in Dirs, log' = Append(log, d), UNCHANGED calls,
         CallInv', Numbered(d),
         call' # None =>
           Placed' /\ Mine(d)' /\ \A e \in Stored : Mine(e)'
  PROVE  FileInv'
<1>1. LogType' /\ Stored' = Stored \cup {d} /\ calls' \in Nat
  BY LogAppend DEF FileInv
<1>2. \A e \in Stored' : Numbered(e)'
  BY <1>1 DEF FileInv, Numbered
<1>3. call' # None => \A e \in Stored' : Mine(e)'
  BY <1>1
<1> QED BY <1>1, <1>2, <1>3 DEF FileInv

-----------------------------------------------------------------------------
(* The steps of a call, one file-system operation each                     *)

(* PersistNew and Persist: nothing on disk changes, and the number of the  *)
(* call is a fresh one.                                                    *)
LEMMA CalledFile ==
  ASSUME FileInv, View \in Views, NEW id \in Ids, NEW r \in Records,
         NEW replace \in BOOLEAN, Called(id, r, replace)
  PROVE  /\ FileInv' /\ call' # None /\ \A other : Same(other)
         /\ call'.id = id /\ call'.record = r /\ call'.replace = replace
         /\ call'.base = View /\ call'.step = "create"
<1>1. call' = [id |-> id, record |-> r, replace |-> replace,
               number |-> calls + 1, base |-> View, step |-> "create"]
  BY DEF Called
<1>2. calls' = calls + 1 /\ calls \in Nat /\ calls' \in Nat
  BY DEF Called, FileInv
<1>3. call' \in Calls /\ call'.number = calls'
  BY <1>1, <1>2 DEF Calls
<1>4. call' # None
  BY <1>3, NoneAssumption
<1>5. LogType' /\ Stored' = Stored /\ Stored \subseteq Dirs
  BY LogSame, LogTypes DEF Called, FileInv
<1>6. \A d \in Stored : Numbered(d)' /\ Mine(d)'
  <2>1. SUFFICES ASSUME NEW d \in Stored
                 PROVE  Numbered(d)' /\ Mine(d)'
    OBVIOUS
  <2>2. \A x \in DOMAIN d : d[x].call \in Nat /\ d[x].call <= calls
    BY <1>5, DirTypes DEF FileInv, Numbered
  <2>3. Numbered(d)'
    BY <1>2, <2>2 DEF FileInv, Numbered
  <2>4. Mine(d)'
    <3>1. \A x \in DOMAIN d : d[x].call # calls'
      BY <1>2, <2>2
    <3> QED BY <3>1 DEF Mine
  <2> QED BY <2>3, <2>4
<1>7. Placed'
  BY <1>1 DEF Placed
<1>8. CallInv'
  BY <1>1, <1>3 DEF CallInv
<1>9. FileInv'
  BY <1>2, <1>5, <1>6, <1>7, <1>8 DEF FileInv
<1> QED BY <1>1, <1>4, <1>9, LogSame DEF Called

(* CreateTemp: the new file has no name a reader knows.                    *)
LEMMA CreateTempFile ==
  ASSUME InCall, CreateTemp
  PROVE  FileInv' /\ \A id \in Ids : Same(id)
<1>a. PICK inode : inode = [call |-> call.number, record |-> None]
  OBVIOUS
<1>b. PICK d : d = With(dir, MyTemp, inode)
  OBVIOUS
<1>1. /\ call.step = "create" /\ Goto("write") /\ UNCHANGED calls
      /\ log' = Append(log, d)
  BY <1>a, <1>b DEF CreateTemp, At
<1>2. inode \in Inodes /\ inode.call = calls
  BY <1>a, CallTypes DEF Inodes
<1>3. /\ d \in Dirs /\ DOMAIN d = DOMAIN dir \cup {MyTemp}
      /\ d[MyTemp] = inode
      /\ \A x \in DOMAIN dir : x # MyTemp => d[x] = dir[x]
  <2>1. dir \in Dirs /\ MyTemp \in FileNames
    BY CallTypes
  <2> QED BY <1>b, <1>2, <2>1, WithTypes
<1>4. /\ call' \in Calls /\ call'.step = "write" /\ call'.number = calls'
      /\ MyTemp' = MyTemp /\ calls' = calls
  BY <1>1, StepOn DEF Steps
<1>5. \A e \in Stored : \A x \in DOMAIN e : e[x].call # calls
  BY <1>1, CallTypes DEF Mine
<1>6. \A x \in DOMAIN d : d[x].call = calls => x = MyTemp
  BY <1>3, <1>5, CallTypes
<1>7. Numbered(d)
  <2>1. Numbered(dir) /\ calls \in Nat /\ MyTemp.call = calls
    BY CallTypes
  <2>2. \A x \in DOMAIN d :
          d[x].call <= calls /\ (x.kind = "temp" => d[x].call = x.call)
    BY <1>2, <1>3, <2>1 DEF Numbered
  <2>3. ASSUME NEW x \in DOMAIN d, NEW y \in DOMAIN d,
               d[x].call = d[y].call
        PROVE  x.id = y.id
    <3>1. CASE d[x].call = calls
      BY <1>6, <2>3, <3>1
    <3>2. CASE d[x].call # calls
      <4>1. x \in DOMAIN dir /\ y \in DOMAIN dir
            /\ dir[x].call = dir[y].call
        BY <1>2, <1>3, <2>3, <3>2
      <4> QED BY <2>1, <4>1 DEF Numbered
    <3> QED BY <3>1, <3>2
  <2> QED BY <2>2, <2>3 DEF Numbered
<1>8. Placed' /\ Mine(d)' /\ \A e \in Stored : Mine(e)'
  <2>1. dir' = d
    BY <1>1, <1>3, CallTypes, LogAppend
  <2> QED BY <1>3, <1>4, <1>5, <1>6, <2>1 DEF Placed, Mine
<1>9. FileInv'
  BY <1>1, <1>3, <1>4, <1>7, <1>8, AppendFileInv DEF InCall, CallInv
<1>10. ASSUME NEW id \in Ids PROVE Same(id)
  <2>1. Elsewhere(dir, d, calls)
    <3>1. \A x \in DOMAIN dir : x # MyTemp
      BY <1>5, CallTypes, OwnTemp
    <3> QED BY <1>2, <1>3, <1>5, <3>1, CallTypes DEF Elsewhere
  <2>2. Final(id) # MyTemp
    BY CallTypes
  <2>3. Entry(d, id) = Entry(dir, id)
    BY <1>3, <1>5, <1>6, <2>1, <2>2, CallTypes, EntryElsewhere
  <2> QED BY <1>1, <1>3, <2>3, CallTypes, AppendSame
<1> QED BY <1>9, <1>10
(* WriteTemp: the record of the new file is there in every directory that  *)
(* names it, and no other file is written.                                 *)
Written(d, name, r) ==
  IF name \in DOMAIN d THEN [d EXCEPT ![name].record = r] ELSE d

(* write_all changes the record of the inode and no name.                  *)
LEMMA WrittenTypes ==
  ASSUME NEW d \in Dirs, NEW name, NEW r \in Records
  PROVE  /\ Written(d, name, r) \in Dirs
         /\ DOMAIN Written(d, name, r) = DOMAIN d
         /\ \A x \in DOMAIN d :
              /\ Written(d, name, r)[x].call = d[x].call
              /\ x # name => Written(d, name, r)[x] = d[x]
              /\ x = name => Written(d, name, r)[x].record = r
<1>1. CASE name \notin DOMAIN d
  BY <1>1 DEF Written
<1>2. CASE name \in DOMAIN d
  <2>1. PICK inode : inode = [d[name] EXCEPT !.record = r]
    OBVIOUS
  <2>2. /\ inode \in Inodes /\ inode.call = d[name].call
        /\ inode.record = r
    BY <1>2, <2>1, DirTypes DEF Inodes
  <2>3. Written(d, name, r) = [d EXCEPT ![name] = inode]
    BY <1>2, <2>1 DEF Written
  <2>4. PICK D \in SUBSET FileNames : d \in [D -> Inodes]
    BY DEF Dirs
  <2>5. Written(d, name, r) \in [D -> Inodes] /\ D = DOMAIN d
    BY <2>2, <2>3, <2>4
  <2>6. Written(d, name, r) \in Dirs
    BY <2>5 DEF Dirs
  <2>7. \A x \in DOMAIN d :
          Written(d, name, r)[x] = IF x = name THEN inode ELSE d[x]
    BY <2>3, <2>4
  <2> QED BY <2>2, <2>5, <2>6, <2>7
<1> QED BY <1>1, <1>2

(* sync_all makes it the record in every directory of the log.             *)
LEMMA WriteTempLog ==
  ASSUME InCall, WriteTemp
  PROVE  /\ LogType' /\ dir' = Written(dir, MyTemp, call.record)
         /\ Stored' = {Written(d, MyTemp, call.record) : d \in Stored}
<1>1. LogType /\ Stored \subseteq Dirs /\ DOMAIN log = 1 .. Len(log)
      /\ Len(log) \in Nat \ {0} /\ call.record \in Records
  BY CallTypes, LogTypes
<1>2. log' = [i \in DOMAIN log |-> Written(log[i], MyTemp, call.record)]
  BY DEF WriteTemp, Written
<1>3. \A i \in DOMAIN log : Written(log[i], MyTemp, call.record) \in Dirs
  BY <1>1, WrittenTypes DEF Stored
<1>4. log' \in [1 .. Len(log) -> Dirs]
  BY <1>1, <1>2, <1>3
<1>5. log' \in Seq(Dirs) /\ Len(log') = Len(log)
  BY <1>1, <1>4
<1>6. Stored' = {Written(d, MyTemp, call.record) : d \in Stored}
  BY <1>1, <1>2 DEF Stored
<1> QED BY <1>1, <1>2, <1>5, <1>6 DEF LogType, dir

(* One directory of them.                                                  *)
LEMMA WriteTempDir ==
  ASSUME InCall, WriteTemp, NEW d \in Stored, NEW e,
         e = Written(d, MyTemp, call.record)
  PROVE  /\ e \in Dirs /\ DOMAIN e = DOMAIN d
         /\ Numbered(e)' /\ Mine(e)'
         /\ \A id \in Ids : Entry(e, id) = Entry(d, id)
<1>1. /\ d \in Dirs /\ Numbered(d) /\ Mine(d) /\ call.record \in Records
      /\ call.step = "write" /\ calls' = calls
  BY CallTypes DEF WriteTemp, At
<1>2. /\ e \in Dirs /\ DOMAIN e = DOMAIN d
      /\ \A x \in DOMAIN d :
           /\ e[x].call = d[x].call
           /\ x # MyTemp => e[x] = d[x]
           /\ x = MyTemp => e[x].record = call.record
  BY <1>1, WrittenTypes
<1>3. \E s \in Steps : Goto(s) /\ s \notin {"create", "write"}
  BY DEF WriteTemp, Steps
<1>4. /\ call'.step \notin {"create", "write"} /\ MyTemp' = MyTemp
      /\ call'.record = call.record /\ call'.id = call.id
  BY <1>1, <1>3, StepOn
<1>5. Numbered(e)'
  BY <1>1, <1>2 DEF Numbered
<1>6. Mine(e)'
  BY <1>1, <1>2, <1>4 DEF Mine
<1>7. ASSUME NEW id \in Ids PROVE Entry(e, id) = Entry(d, id)
  <2>1. Elsewhere(d, e, calls)
    <3>1. MyTemp \in DOMAIN d => d[MyTemp].call = calls
      BY OwnTemp
    <3> QED BY <1>2, <3>1 DEF Elsewhere
  <2>2. Final(id) \in DOMAIN d => d[Final(id)].call # calls
    BY <1>1, OtherFinal
  <2> QED BY <1>2, <2>1, <2>2, EntryElsewhere
<1> QED BY <1>2, <1>5, <1>6, <1>7

(* No reader sees a difference, as no record's name is on the file yet.    *)
LEMMA WriteTempFile ==
  ASSUME InCall, WriteTemp
  PROVE  FileInv' /\ \A id \in Ids : Same(id)
<1>1. /\ call.step = "write" /\ UNCHANGED calls
      /\ Goto(IF call.replace THEN "rename" ELSE "link")
  BY DEF WriteTemp, At
<1>2. PICK s \in {"rename", "link"} :
        Goto(s) /\ s = IF call.replace THEN "rename" ELSE "link"
  BY <1>1
<1>3. /\ call' \in Calls /\ call'.step = s /\ call'.number = calls'
      /\ call'.replace = call.replace /\ MyTemp' = MyTemp
      /\ calls' = calls
  BY <1>1, <1>2, StepOn DEF Steps
<1>4. CallInv'
  BY <1>2, <1>3 DEF CallInv
<1>5. \A e \in Stored' : Numbered(e)' /\ Mine(e)'
  BY WriteTempLog, WriteTempDir
<1>6. Placed'
  <2>1. DOMAIN dir' = DOMAIN dir /\ MyTemp \in DOMAIN dir
    BY <1>1, WriteTempLog, WriteTempDir, CallTypes DEF Placed
  <2> QED BY <1>3, <2>1 DEF Placed
<1>7. FileInv'
  <2>1. LogType' /\ calls' \in Nat
    BY <1>3, WriteTempLog, CallTypes
  <2> QED BY <1>4, <1>5, <1>6, <2>1 DEF FileInv
<1>8. ASSUME NEW id \in Ids PROVE Same(id)
  <2>1. Entry(dir, id)' = Entry(dir, id)
    BY WriteTempLog, WriteTempDir, CallTypes
  <2>2. Kept(id)' = Kept(id)
    <3>1. \A d \in Stored :
            Entry(Written(d, MyTemp, call.record), id) = Entry(d, id)
      BY WriteTempDir
    <3> QED BY <3>1, WriteTempLog DEF Kept
  <2> QED BY <2>1, <2>2 DEF Same
<1> QED BY <1>7, <1>8

(* LinkFinal: the record has two names; no other ID is concerned.          *)
LEMMA LinkFinalFile ==
  ASSUME InCall, LinkFinal
  PROVE  FileInv' /\ AddsOwn(Twice(call.record))
<1>1. PICK name : name = Final(call.id)
  OBVIOUS
<1>2. PICK inode : inode = dir[MyTemp]
  OBVIOUS
<1>3. PICK d : d = With(dir, name, inode)
  OBVIOUS
<1>4. /\ call.step = "link" /\ Goto("unlink") /\ UNCHANGED calls
      /\ name \notin DOMAIN dir /\ log' = Append(log, d)
  BY <1>1, <1>2, <1>3 DEF LinkFinal, At
<1>5. /\ MyTemp \in DOMAIN dir /\ inode \in Inodes
      /\ inode.call = calls /\ inode.record = call.record
  <2>1. MyTemp \in DOMAIN dir
    BY <1>4, CallTypes DEF Placed
  <2> QED BY <1>2, <1>4, <2>1, CallTypes, DirTypes, OwnTemp DEF Mine
<1>6. /\ d \in Dirs /\ DOMAIN d = DOMAIN dir \cup {name}
      /\ d[name] = inode
      /\ \A x \in DOMAIN dir : d[x] = dir[x]
  <2>1. dir \in Dirs /\ name \in FileNames
    BY <1>1, CallTypes
  <2>2. /\ d \in Dirs /\ DOMAIN d = DOMAIN dir \cup {name}
        /\ d[name] = inode
        /\ \A x \in DOMAIN dir : x # name => d[x] = dir[x]
    BY <1>3, <1>5, <2>1, WithTypes
  <2> QED BY <1>4, <2>2
<1>7. /\ call' \in Calls /\ call'.step = "unlink" /\ call'.number = calls'
      /\ call'.id = call.id /\ call'.record = call.record
      /\ call'.replace = call.replace /\ MyTemp' = MyTemp
      /\ calls' = calls
  BY <1>4, StepOn DEF Steps
<1>8. \A e \in Stored : \A x \in DOMAIN e :
        e[x].call = calls => x = MyTemp /\ e[x].record = call.record
  BY <1>4, CallTypes DEF Mine
<1>9. \A x \in DOMAIN d : d[x].call = calls =>
        x \in {MyTemp, name} /\ d[x].record = call.record
  BY <1>5, <1>6, <1>8, CallTypes
<1>10. /\ MyTemp.id = call.id /\ name.id = call.id /\ name.kind = "final"
       /\ name # MyTemp /\ Numbered(dir) /\ calls \in Nat
  BY <1>1, CallTypes
<1>11. Numbered(d)
  <2>1. \A x \in DOMAIN d :
          d[x].call <= calls /\ (x.kind = "temp" => d[x].call = x.call)
    BY <1>5, <1>6, <1>10 DEF Numbered
  <2>2. ASSUME NEW x \in DOMAIN d, NEW y \in DOMAIN d,
               d[x].call = d[y].call
        PROVE  x.id = y.id
    <3>1. CASE d[x].call = calls
      BY <1>9, <1>10, <2>2, <3>1
    <3>2. CASE d[x].call # calls
      <4>1. x \in DOMAIN dir /\ y \in DOMAIN dir
            /\ dir[x].call = dir[y].call
        BY <1>5, <1>6, <2>2, <3>2
      <4> QED BY <1>10, <4>1 DEF Numbered
    <3> QED BY <3>1, <3>2
  <2> QED BY <2>1, <2>2 DEF Numbered
<1>12. Placed' /\ Mine(d)' /\ \A e \in Stored : Mine(e)'
  <2>1. dir' = d
    BY <1>4, <1>6, CallTypes, LogAppend
  <2>2. Placed'
    BY <1>1, <1>5, <1>6, <1>7, <2>1 DEF Placed
  <2>3. Mine(d)'
    BY <1>1, <1>7, <1>9 DEF Mine
  <2> QED BY <1>7, <1>8, <2>2, <2>3 DEF Mine
<1>13. FileInv'
  <2>1. CallInv'
    BY <1>4, <1>7 DEF InCall, FileInv, CallInv
  <2> QED BY <1>4, <1>6, <1>11, <1>12, <2>1, AppendFileInv DEF InCall
<1>14. ASSUME NEW id \in Ids \ {call.id} PROVE Same(id)
  <2>1. Elsewhere(dir, d, calls)
    BY <1>4, <1>5, <1>6 DEF Elsewhere
  <2>2. Final(id) # MyTemp /\ Final(id) # name
    BY <1>1, CallTypes, NameTypes
  <2>3. Entry(d, id) = Entry(dir, id)
    BY <1>6, <1>8, <1>9, <2>1, <2>2, CallTypes, EntryElsewhere
  <2> QED BY <1>4, <1>6, <2>3, CallTypes, AppendSame
<1>15. Entry(d, call.id) = Twice(call.record)
  <2>1. \A x \in DOMAIN d : d[x] = d[name] => x \in {MyTemp, name}
    BY <1>5, <1>6, <1>9
  <2>2. d[MyTemp] = d[name] /\ MyTemp \in DOMAIN d /\ name \in DOMAIN d
    BY <1>2, <1>5, <1>6
  <2> QED BY <1>1, <1>5, <1>6, <1>10, <2>1, <2>2, EntryTwice
<1>16. ASSUME NEW id \in Ids, id = call.id
      PROVE  Adds(id, Twice(call.record))
  BY <1>4, <1>6, <1>15, <1>16, CallTypes, AppendAdds
<1> QED BY <1>13, <1>14, <1>16 DEF AddsOwn
(* The temporary name is removed: by UnlinkTemp, or after a failure.       *)
LEMMA RemoveTemp ==
  ASSUME InCall, NEW d, d = Without(dir, MyTemp)
  PROVE  /\ d \in Dirs /\ DOMAIN d = DOMAIN dir \ {MyTemp}
         /\ \A x \in DOMAIN d : d[x] = dir[x]
         /\ Numbered(d)
         /\ \A id \in Ids :
              id # call.id \/ call.step \notin {"unlink", "sync"} =>
                Entry(d, id) = Entry(dir, id)
         /\ call.step = "unlink" =>
              Entry(d, call.id) = Once(call.record)
<1>1. /\ d \in Dirs /\ DOMAIN d = DOMAIN dir \ {MyTemp}
      /\ \A x \in DOMAIN d : d[x] = dir[x]
  BY CallTypes, WithoutTypes
<1>2. Numbered(dir) /\ Mine(dir) /\ dir \in Stored
  BY CallTypes
<1>3. Numbered(d)
  BY <1>1, <1>2 DEF Numbered
<1>4. ASSUME NEW id \in Ids,
             id # call.id \/ call.step \notin {"unlink", "sync"}
      PROVE  Entry(d, id) = Entry(dir, id)
  <2>1. Elsewhere(dir, d, calls)
    <3>1. MyTemp \in DOMAIN dir => dir[MyTemp].call = calls
      BY <1>2, OwnTemp
    <3> QED BY <1>1, <3>1 DEF Elsewhere
  <2>2. Final(id) \in DOMAIN dir => dir[Final(id)].call # calls
    BY <1>2, <1>4, OtherFinal
  <2> QED BY <1>1, <2>1, <2>2, EntryElsewhere
<1>5. ASSUME call.step = "unlink"
      PROVE  Entry(d, call.id) = Once(call.record)
  <2>1. /\ Final(call.id) \in DOMAIN dir /\ Final(call.id) # MyTemp
        /\ dir[Final(call.id)].call = calls
    BY <1>5, CallTypes DEF Placed
  <2>2. dir[Final(call.id)].record = call.record
    BY <1>2, <1>5, <2>1 DEF Mine
  <2>3. Final(call.id) \in DOMAIN d
        /\ d[Final(call.id)] = dir[Final(call.id)]
    BY <1>1, <2>1
  <2>4. \A x \in DOMAIN d : d[x] = d[Final(call.id)] => x = Final(call.id)
    BY <1>1, <1>2, <2>1, <2>3 DEF Mine
  <2> QED BY <2>2, <2>3, <2>4, EntryOnce
<1> QED BY <1>1, <1>3, <1>4, <1>5

(* UnlinkTemp: the record has its own name only.                           *)
LEMMA UnlinkTempFile ==
  ASSUME InCall, UnlinkTemp
  PROVE  FileInv' /\ AddsOwn(Once(call.record))
<1>1. PICK d : d = Without(dir, MyTemp)
  OBVIOUS
<1>2. /\ call.step = "unlink" /\ Goto("sync") /\ UNCHANGED calls
      /\ log' = Append(log, d)
  BY <1>1 DEF UnlinkTemp, At
<1>3. /\ call' \in Calls /\ call'.step = "sync" /\ call'.number = calls'
      /\ call'.id = call.id /\ call'.record = call.record
      /\ call'.replace = call.replace /\ MyTemp' = MyTemp
      /\ calls' = calls
  BY <1>2, StepOn DEF Steps
<1>4. /\ d \in Dirs /\ DOMAIN d = DOMAIN dir \ {MyTemp}
      /\ \A x \in DOMAIN d : d[x] = dir[x]
      /\ Numbered(d)
      /\ \A id \in Ids : id # call.id => Entry(d, id) = Entry(dir, id)
      /\ Entry(d, call.id) = Once(call.record)
  BY <1>1, <1>2, RemoveTemp
<1>5. Placed'
  <2>1. /\ Final(call.id) \in DOMAIN dir /\ Final(call.id) # MyTemp
        /\ dir[Final(call.id)].call = calls
    BY <1>2, CallTypes DEF Placed
  <2>2. dir' = d
    BY <1>2, <1>4, CallTypes, LogAppend
  <2> QED BY <1>3, <1>4, <2>1, <2>2 DEF Placed
<1>6. \A e \in Stored : Mine(e)'
  BY <1>2, <1>3, CallTypes DEF Mine
<1>7. Mine(d)'
  <2>1. Mine(dir)
    BY CallTypes
  <2> QED BY <1>2, <1>3, <1>4, <2>1 DEF Mine
<1>8. FileInv'
  <2>1. CallInv'
    BY <1>3 DEF CallInv
  <2> QED BY <1>2, <1>4, <1>5, <1>6, <1>7, <2>1, AppendFileInv DEF InCall
<1>9. ASSUME NEW id \in Ids, id # call.id PROVE Same(id)
  BY <1>2, <1>4, <1>9, CallTypes, AppendSame
<1>10. ASSUME NEW id \in Ids, id = call.id
       PROVE  Adds(id, Once(call.record))
  BY <1>2, <1>4, <1>10, CallTypes, AppendAdds
<1> QED BY <1>8, <1>9, <1>10 DEF AddsOwn

(* RenameOver: the file that had the name loses it; it has no other ID's.  *)
LEMMA RenameOverFile ==
  ASSUME InCall, RenameOver
  PROVE  FileInv' /\ AddsOwn(Once(call.record))
<1>1. PICK name : name = Final(call.id)
  OBVIOUS
<1>2. PICK inode : inode = dir[MyTemp]
  OBVIOUS
<1>3. PICK e : e = Without(dir, MyTemp)
  OBVIOUS
<1>4. PICK d : d = With(e, name, inode)
  OBVIOUS
<1>5. /\ call.step = "rename" /\ Goto("sync") /\ UNCHANGED calls
      /\ log' = Append(log, d)
  BY <1>1, <1>2, <1>3, <1>4 DEF RenameOver, At
<1>6. /\ MyTemp \in DOMAIN dir /\ inode \in Inodes
      /\ inode.call = calls /\ inode.record = call.record
  <2>1. MyTemp \in DOMAIN dir
    BY <1>5, CallTypes DEF Placed
  <2> QED BY <1>2, <1>5, <2>1, CallTypes, DirTypes, OwnTemp DEF Mine
<1>7. /\ MyTemp.id = call.id /\ name.id = call.id /\ name.kind = "final"
      /\ name # MyTemp /\ Numbered(dir) /\ calls \in Nat
  BY <1>1, CallTypes
<1>8. /\ d \in Dirs /\ DOMAIN d = (DOMAIN dir \ {MyTemp}) \cup {name}
      /\ d[name] = inode
      /\ \A x \in DOMAIN dir \ {MyTemp} : x # name => d[x] = dir[x]
  <2>1. name \in FileNames
    BY <1>1, CallTypes
  <2>2. /\ e \in Dirs /\ DOMAIN e = DOMAIN dir \ {MyTemp}
        /\ \A x \in DOMAIN e : e[x] = dir[x]
    BY <1>3, RemoveTemp
  <2>3. /\ d \in Dirs /\ DOMAIN d = DOMAIN e \cup {name}
        /\ d[name] = inode
        /\ \A x \in DOMAIN e : x # name => d[x] = e[x]
    BY <1>4, <1>6, <2>1, <2>2, WithTypes
  <2> QED BY <2>2, <2>3
<1>9. /\ call' \in Calls /\ call'.step = "sync" /\ call'.number = calls'
      /\ call'.id = call.id /\ call'.record = call.record
      /\ call'.replace = call.replace /\ MyTemp' = MyTemp
      /\ calls' = calls
  BY <1>5, StepOn DEF Steps
<1>10. \A f \in Stored : \A x \in DOMAIN f :
         f[x].call = calls => x = MyTemp /\ f[x].record = call.record
  BY <1>5, CallTypes DEF Mine
<1>11. \A x \in DOMAIN d : d[x].call = calls => x = name
  BY <1>8, <1>10, CallTypes
<1>12. Numbered(d)
  <2>1. \A x \in DOMAIN d :
          d[x].call <= calls /\ (x.kind = "temp" => d[x].call = x.call)
    BY <1>6, <1>7, <1>8 DEF Numbered
  <2>2. ASSUME NEW x \in DOMAIN d, NEW y \in DOMAIN d,
               d[x].call = d[y].call
        PROVE  x.id = y.id
    <3>1. CASE d[x].call = calls
      BY <1>11, <2>2, <3>1
    <3>2. CASE d[x].call # calls
      <4>1. x \in DOMAIN dir /\ y \in DOMAIN dir
            /\ dir[x].call = dir[y].call
        BY <1>6, <1>8, <2>2, <3>2
      <4> QED BY <1>7, <4>1 DEF Numbered
    <3> QED BY <3>1, <3>2
  <2> QED BY <2>1, <2>2 DEF Numbered
<1>13. Placed' /\ Mine(d)' /\ \A f \in Stored : Mine(f)'
  <2>1. dir' = d
    BY <1>5, <1>8, CallTypes, LogAppend
  <2>2. Placed'
    BY <1>1, <1>6, <1>7, <1>8, <1>9, <2>1 DEF Placed
  <2>3. Mine(d)'
    BY <1>1, <1>6, <1>8, <1>9, <1>11 DEF Mine
  <2> QED BY <1>9, <1>10, <2>2, <2>3 DEF Mine
<1>14. FileInv'
  <2>1. CallInv'
    BY <1>9 DEF CallInv
  <2> QED BY <1>5, <1>8, <1>12, <1>13, <2>1, AppendFileInv DEF InCall
<1>15. ASSUME NEW id \in Ids \ {call.id} PROVE Same(id)
  <2>1. Final(id) # MyTemp /\ Final(id) # name /\ Final(id).id = id
    BY <1>1, CallTypes, NameTypes
  <2>2. Final(id) \in DOMAIN dir <=> Final(id) \in DOMAIN d
    BY <1>8, <2>1
  <2>3. ASSUME Final(id) \in DOMAIN dir
        PROVE  d[Final(id)] = dir[Final(id)]
    BY <1>8, <2>1, <2>3
  <2>4. ASSUME Final(id) \in DOMAIN dir, NEW x
        PROVE  (x \in DOMAIN dir /\ dir[x] = dir[Final(id)])
                 <=> (x \in DOMAIN d /\ d[x] = dir[Final(id)])
    <3>1. dir[Final(id)].call # calls
      BY <1>10, <2>1, <2>4, CallTypes
    <3>2. CASE x \in {MyTemp, name}
      <4>1. ~(x \in DOMAIN d /\ d[x] = dir[Final(id)])
        BY <1>6, <1>7, <1>8, <3>1, <3>2
      <4>2. ASSUME x \in DOMAIN dir, dir[x] = dir[Final(id)] PROVE FALSE
        <5>1. x.id = id
          BY <1>7, <2>1, <2>4, <4>2 DEF Numbered
        <5> QED BY <1>7, <3>2, <5>1
      <4> QED BY <4>1, <4>2
    <3>3. CASE x \notin {MyTemp, name}
      BY <1>8, <3>3
    <3> QED BY <3>2, <3>3
  <2>5. Entry(d, id) = Entry(dir, id)
    BY <2>2, <2>3, <2>4, EntrySame
  <2> QED BY <1>5, <1>8, <2>5, CallTypes, AppendSame
<1>16. Entry(d, call.id) = Once(call.record)
  <2>1. \A x \in DOMAIN d : d[x] = d[name] => x = name
    BY <1>6, <1>8, <1>11
  <2> QED BY <1>1, <1>6, <1>8, <2>1, EntryOnce
<1>17. ASSUME NEW id \in Ids, id = call.id
      PROVE  Adds(id, Once(call.record))
  BY <1>5, <1>8, <1>16, <1>17, CallTypes, AppendAdds
<1> QED BY <1>14, <1>15, <1>17 DEF AddsOwn

(* SyncDirectory: the directory is the only one left.                      *)
LEMMA SyncDirectoryFile ==
  ASSUME InCall, SyncDirectory
  PROVE  /\ FileInv' /\ call' = None
         /\ \A id : /\ Entry(dir, id)' = Entry(dir, id)
                    /\ Kept(id)' = {Entry(dir, id)}
<1>1. PICK d : d = dir
  OBVIOUS
<1>2. log' = <<d>> /\ call' = None /\ calls' = calls
  BY <1>1 DEF SyncDirectory
<1>3. d \in Dirs /\ Numbered(d) /\ calls \in Nat
  BY <1>1, CallTypes
<1>4. /\ LogType' /\ dir' = d /\ Stored' = {d}
      /\ \A id : Kept(id)' = {Entry(d, id)}
  BY <1>2, <1>3, LogSettled
<1>5. FileInv'
  BY <1>2, <1>3, <1>4 DEF FileInv, CallInv, Numbered
<1>6. \A id : Entry(dir, id)' = Entry(d, id)
  BY <1>4
<1> QED BY <1>1, <1>2, <1>4, <1>5, <1>6

(* CallFails: the temporary name stays or goes.                            *)
LEMMA CallFailsFile ==
  ASSUME InCall, CallFails
  PROVE  /\ FileInv' /\ call' = None
         /\ \/ \A id \in Ids : Same(id)
            \/ call.step = "unlink" /\ AddsOwn(Once(call.record))
<1>1. call' = None /\ calls' = calls /\ CallInv'
  BY DEF CallFails, CallInv
<1>2. CASE UNCHANGED log
  <2>1. LogType' /\ Stored' = Stored /\ calls \in Nat
    BY <1>2, LogSame, CallTypes
  <2>2. \A d \in Stored : Numbered(d)'
    BY <1>1, CallTypes DEF Numbered
  <2> QED BY <1>1, <1>2, <2>1, <2>2, LogSame DEF FileInv
<1>3. CASE MyTemp \in DOMAIN dir /\ log' = Append(log, Without(dir, MyTemp))
  <2>1. PICK d : d = Without(dir, MyTemp)
    OBVIOUS
  <2>2. /\ d \in Dirs /\ Numbered(d) /\ log' = Append(log, d)
        /\ \A id \in Ids :
             id # call.id \/ call.step \notin {"unlink", "sync"} =>
               Entry(d, id) = Entry(dir, id)
        /\ call.step = "unlink" =>
             Entry(d, call.id) = Once(call.record)
    BY <1>3, <2>1, RemoveTemp
  <2>3. call.step # "sync" /\ call.id \in Ids /\ LogType
    BY <1>3, CallTypes DEF Placed
  <2>4. FileInv'
    BY <1>1, <2>2, AppendFileInv DEF InCall
  <2>5. ASSUME NEW id \in Ids, id # call.id \/ call.step # "unlink"
        PROVE  Same(id)
    BY <2>2, <2>3, <2>5, AppendSame
  <2>6. ASSUME NEW id \in Ids, id = call.id, call.step = "unlink"
        PROVE  Adds(id, Once(call.record))
    BY <2>2, <2>3, <2>6, AppendAdds
  <2> QED BY <1>1, <2>4, <2>5, <2>6 DEF AddsOwn
<1> QED BY <1>2, <1>3 DEF CallFails

(* HostCrash: one of the directories is left.                              *)
LEMMA HostCrashFile ==
  ASSUME FileInv, HostCrash
  PROVE  /\ FileInv' /\ call = None /\ call' = None
         /\ \A id : /\ Entry(dir, id)' \in Kept(id)
                    /\ Kept(id)' = {Entry(dir, id)'}
<1>1. /\ LogType /\ calls \in Nat /\ calls' = calls
      /\ call = None /\ call' = None
  BY DEF FileInv, HostCrash
<1>2. PICK d \in Stored : log' = <<d>>
  BY DEF HostCrash, Stored
<1>3. d \in Dirs /\ Numbered(d)
  BY <1>1, LogTypes DEF FileInv
<1>4. /\ LogType' /\ dir' = d /\ Stored' = {d}
      /\ \A id : Kept(id)' = {Entry(d, id)}
  BY <1>2, <1>3, LogSettled
<1>5. FileInv'
  BY <1>1, <1>3, <1>4 DEF FileInv, CallInv, Numbered
<1>6. \A id : Entry(dir, id)' = Entry(d, id) /\ Entry(d, id) \in Kept(id)
  BY <1>4 DEF Kept
<1> QED BY <1>1, <1>4, <1>5, <1>6
-----------------------------------------------------------------------------
(* Entries                                                                 *)

(* None is neither a complete record nor one with two names.               *)
LEMMA EntryKinds ==
  ASSUME NEW r \in Records
  PROVE  /\ Once(r) \in Entries /\ Twice(r) \in Entries
         /\ Once(r) # None /\ Twice(r) # None /\ Once(r) # Twice(r)
<1>1. Once(r) \in Entries /\ Twice(r) \in Entries
  BY DEF Once, Twice, Entries
<1>2. Once(r).names = 1 /\ Twice(r).names = 2
  BY DEF Once, Twice
<1> QED BY <1>1, <1>2, NoneAssumption

(* What a reader sees, and what a crash may put in its place.              *)
LEMMA ViewIs ==
  /\ View.file = [id \in Ids |-> Entry(dir, id)]
  /\ View.undo = [id \in Ids |-> Kept(id) \ {Entry(dir, id)}]
<1>1. \A id : {Entry(log[i], id) : i \in DOMAIN log} = Kept(id)
  BY DEF Kept, Stored
<1> QED BY <1>1 DEF View

(* The same after a step.                                                  *)
LEMMA ViewIsNext ==
  /\ View'.file = [id \in Ids |-> Entry(dir, id)']
  /\ View'.undo = [id \in Ids |-> Kept(id)' \ {Entry(dir, id)'}]
<1>1. \A id : {Entry(log'[i], id) : i \in DOMAIN log'} = Kept(id)'
  BY DEF Kept, Stored
<1>2. \A id : Entry(dir', id) = Entry(dir, id)'
  OBVIOUS
<1> QED BY <1>1, <1>2 DEF View

(* What load may find of an ID is an entry or nothing.                     *)
LEMMA ViewTypes ==
  ASSUME FileInv, EntryInv
  PROVE  /\ View \in Views
         /\ \A id \in Ids : Entry(dir, id) \in Kept(id)
<1>1. \A id : Entry(dir, id) \in Kept(id)
  BY LogTypes DEF FileInv, Kept
<1>2. \A id \in Ids : Kept(id) \subseteq Entries \cup {None}
  BY DEF EntryInv
<1>3. View = [file |-> View.file, undo |-> View.undo]
  BY DEF View
<1>4. View.file \in [Ids -> Entries \cup {None}]
  BY <1>1, <1>2, ViewIs
<1>5. View.undo \in [Ids -> SUBSET (Entries \cup {None})]
  BY <1>2, ViewIs
<1> QED BY <1>1, <1>3, <1>4, <1>5 DEF Views

(* A new record has no acknowledged state to lose.                         *)
LEMMA NewUnacknowledged ==
  ASSUME InCall, EntryInv, ~call.replace
  PROVE  /\ allowed[call.id] = {} /\ None \in Kept(call.id)
<1>1. call.id \in Ids /\ allowed \in [Ids -> SUBSET Records]
  BY CallTypes DEF EntryInv
<1>2. None \in Kept(call.id)
  BY DEF EntryInv, BaseInv, InCall, Advanced, AsFound, Linked, Unlinked
<1>3. \A r \in allowed[call.id] : Once(r) # None
  BY <1>1, EntryKinds
<1> QED BY <1>1, <1>2, <1>3 DEF EntryInv, AckInv

(* A call goes on: at most an entry of its own ID is added.                *)
LEMMA CallGoesOn ==
  ASSUME InCall, EntryInv, call' # None, UNCHANGED allowed,
         call'.id = call.id, call'.record = call.record,
         call'.replace = call.replace, call'.base = call.base,
         \/ \A id \in Ids : Same(id)
         \/ AddsOwn(Once(call.record))
         \/ ~call.replace /\ AddsOwn(Twice(call.record)),
         Advanced(call.id)'
  PROVE  EntryInv'
<1>1. call.id \in Ids /\ call.record \in Records
  BY CallTypes
<1>2. /\ Once(call.record) \in Entries /\ Twice(call.record) \in Entries
      /\ Once(call.record) # None /\ Twice(call.record) # None
  BY <1>1, EntryKinds
<1>3. allowed' \in [Ids -> SUBSET Records]
  BY DEF EntryInv
<1>4. \A id \in Ids : Kept(id)' \subseteq Entries \cup {None}
  BY <1>1, <1>2 DEF EntryInv, Same, Adds, AddsOwn
<1>5. \A id \in Ids : Entry(dir, id)' = None => Kept(id)' = {None}
  BY <1>1, <1>2 DEF EntryInv, Same, Adds, AddsOwn
<1>6. AckInv'
  <2>1. ASSUME NEW id \in Ids, allowed[id] # {}
        PROVE  Kept(id)' \subseteq {Once(r) : r \in allowed[id]}
    <3>1. Kept(id) \subseteq {Once(r) : r \in allowed[id]}
      BY <2>1 DEF EntryInv, AckInv
    <3>2. CASE id # call.id
      BY <3>1, <3>2 DEF Same, AddsOwn
    <3>3. CASE id = call.id
      <4>1. call.record \in allowed[id]
        BY <2>1, <3>3 DEF EntryInv, AckInv, InCall
      <4>2. call.replace
        BY <2>1, <3>3, NewUnacknowledged
      <4> QED BY <3>1, <3>3, <4>1, <4>2 DEF Same, Adds, AddsOwn
    <3> QED BY <3>2, <3>3
  <2>2. allowed[call.id] # {} => call.record \in allowed[call.id]
    BY DEF EntryInv, AckInv, InCall
  <2> QED BY <2>1, <2>2 DEF AckInv
<1>7. BaseInv'
  <2>1. \A id \in Ids \ {call.id} : AsFound(id)'
    BY DEF EntryInv, BaseInv, InCall, AsFound, Same, AddsOwn
  <2> QED BY <2>1 DEF EntryInv, BaseInv, InCall
<1> QED BY <1>3, <1>4, <1>5, <1>6, <1>7 DEF EntryInv

(* PersistNew and Persist: the call begins in the state it finds.          *)
LEMMA CalledEntry ==
  ASSUME FileInv, EntryInv, NEW id \in Ids, NEW r \in Records,
         NEW replace \in BOOLEAN, Called(id, r, replace),
         IF replace THEN Loadable(id) ELSE Final(id) \notin DOMAIN dir
  PROVE  FileInv' /\ EntryInv' /\ Seen' = Seen
<1>1. /\ FileInv' /\ call' # None /\ \A other : Same(other)
      /\ call'.id = id /\ call'.record = r /\ call'.replace = replace
      /\ call'.base = View /\ call'.step = "create"
  BY ViewTypes, CalledFile
<1>2. Seen' = Seen
  BY <1>1 DEF Seen, Called
<1>3. /\ allowed \in [Ids -> SUBSET Records]
      /\ allowed' = [allowed EXCEPT ![id] =
                       IF @ = {} THEN {} ELSE @ \cup {r}]
  BY DEF EntryInv, Called
<1>4. /\ allowed' \in [Ids -> SUBSET Records]
      /\ \A other \in Ids :
           /\ allowed[other] \subseteq allowed'[other]
           /\ allowed'[other] # {} => allowed[other] # {}
      /\ allowed'[id] # {} => r \in allowed'[id]
  BY <1>3
<1>5. AckInv'
  <2>1. ASSUME NEW other \in Ids, allowed'[other] # {}
        PROVE  Kept(other)' \subseteq {Once(s) : s \in allowed'[other]}
    <3>1. Kept(other) \subseteq {Once(s) : s \in allowed[other]}
      BY <1>4, <2>1 DEF EntryInv, AckInv
    <3> QED BY <1>1, <1>4, <3>1 DEF Same
  <2> QED BY <1>1, <1>4, <2>1 DEF AckInv
<1>6. BaseInv'
  <2>1. \A other \in Ids :
          /\ View.file[other] = Entry(dir, other)
          /\ View.undo[other] = Kept(other) \ {Entry(dir, other)}
    BY ViewIs
  <2>2. \A other \in Ids : AsFound(other)'
    BY <1>1, <2>1, ViewTypes DEF AsFound, Same
  <2>3. \A other \in Ids : call'.base.file[other] \notin
                             call'.base.undo[other]
    BY <1>1, <2>1
  <2>4. CASE replace
    <3>1. Entry(dir, id) # None /\ Entry(dir, id).names = 1
      BY <2>4 DEF Loadable
    <3>2. Advanced(id)'
      BY <1>1, <2>1, <2>2, <2>4, <3>1 DEF Advanced
    <3> QED BY <1>1, <2>2, <2>3, <3>2 DEF BaseInv
  <2>5. CASE ~replace
    <3>1. Entry(dir, id) = None
      BY <2>5 DEF Entry
    <3>2. Kept(id) = {None}
      BY <3>1 DEF EntryInv
    <3>3. Advanced(id)'
      BY <1>1, <2>1, <2>2, <2>5, <3>1, <3>2 DEF Advanced
    <3> QED BY <1>1, <2>2, <2>3, <3>3 DEF BaseInv
  <2> QED BY <2>4, <2>5
<1>7. EntryInv'
  BY <1>1, <1>4, <1>5, <1>6 DEF EntryInv, Same
<1> QED BY <1>1, <1>2, <1>7

(* CreateTemp, WriteTemp, LinkFinal, UnlinkTemp and RenameOver: the call   *)
(* goes on, and the store at the granularity of calls stays as it was.     *)
LEMMA StepEntry ==
  ASSUME InCall, EntryInv,
         CreateTemp \/ WriteTemp \/ LinkFinal \/ UnlinkTemp \/ RenameOver
  PROVE  FileInv' /\ EntryInv' /\ Seen' = Seen
<1>1. PICK s \in Steps :
        /\ Goto(s)
        /\ \/ call.step = "create" /\ s = "write"
           \/ call.step = "write" /\ s \in {"link", "rename"}
           \/ call.step = "link" /\ s = "unlink"
           \/ call.step \in {"unlink", "rename"} /\ s = "sync"
  BY DEF CreateTemp, WriteTemp, LinkFinal, UnlinkTemp, RenameOver, At, Steps
<1>2. calls' = calls /\ allowed' = allowed
  BY DEF CreateTemp, WriteTemp, LinkFinal, UnlinkTemp, RenameOver
<1>3. /\ call' # None /\ call'.step = s /\ call'.id = call.id
      /\ call'.record = call.record /\ call'.replace = call.replace
      /\ call'.base = call.base
  BY <1>1, <1>2, StepOn
<1>4. Seen' = Seen
  BY <1>3 DEF Seen, InCall
<1>5. /\ call.id \in Ids /\ call.replace \in BOOLEAN
      /\ Advanced(call.id)
      /\ call.step = "rename" => call.replace
      /\ call.step \in {"link", "unlink"} => ~call.replace
  BY CallTypes DEF InCall, FileInv, CallInv, EntryInv, BaseInv
<1>6. CASE CreateTemp \/ WriteTemp
  <2>1. FileInv' /\ \A id \in Ids : Same(id)
    BY <1>6, CreateTempFile, WriteTempFile
  <2>2. call.step \in {"create", "write"}
    BY <1>6 DEF CreateTemp, WriteTemp, At
  <2>3. s \notin {"unlink", "sync"}
    BY <1>1, <2>2
  <2>4. AsFound(call.id)'
    BY <1>3, <1>5, <2>1, <2>2 DEF Advanced, AsFound, Same
  <2>5. Advanced(call.id)'
    BY <1>3, <1>5, <2>3, <2>4 DEF Advanced
  <2>6. EntryInv'
    BY <1>2, <1>3, <1>5, <2>1, <2>5, CallGoesOn
  <2> QED BY <1>4, <2>1, <2>6
<1>7. CASE LinkFinal
  <2>1. FileInv' /\ AddsOwn(Twice(call.record))
    BY <1>7, LinkFinalFile
  <2>2. call.step = "link" /\ s = "unlink" /\ ~call.replace
    BY <1>1, <1>5, <1>7 DEF LinkFinal, At
  <2>3. Advanced(call.id)'
    BY <1>3, <1>5, <2>1, <2>2 DEF Advanced, AsFound, Linked, Adds, AddsOwn
  <2>4. EntryInv'
    BY <1>2, <1>3, <2>1, <2>2, <2>3, CallGoesOn
  <2> QED BY <1>4, <2>1, <2>4
<1>8. CASE UnlinkTemp
  <2>1. FileInv' /\ AddsOwn(Once(call.record))
    BY <1>8, UnlinkTempFile
  <2>2. call.step = "unlink" /\ s = "sync" /\ ~call.replace
    BY <1>1, <1>5, <1>8 DEF UnlinkTemp, At
  <2>3. Advanced(call.id)'
    BY <1>3, <1>5, <2>1, <2>2 DEF Advanced, Linked, Unlinked, Adds, AddsOwn
  <2>4. EntryInv'
    BY <1>2, <1>3, <2>1, <2>3, CallGoesOn
  <2> QED BY <1>4, <2>1, <2>4
<1>9. CASE RenameOver
  <2>1. FileInv' /\ AddsOwn(Once(call.record))
    BY <1>9, RenameOverFile
  <2>2. call.step = "rename" /\ s = "sync" /\ call.replace
    BY <1>1, <1>5, <1>9 DEF RenameOver, At
  <2>3. Advanced(call.id)'
    BY <1>3, <1>5, <2>1, <2>2 DEF Advanced, AsFound, Renamed, Adds, AddsOwn
  <2>4. EntryInv'
    BY <1>2, <1>3, <2>1, <2>3, CallGoesOn
  <2> QED BY <1>4, <2>1, <2>4
<1> QED BY <1>6, <1>7, <1>8, <1>9
(* The store of RecordStore during a call is the one the call began in.    *)
LEMMA BaseTypes ==
  ASSUME InCall
  PROVE  /\ Seen = call.base
         /\ call.base.file \in [Ids -> Entries \cup {None}]
         /\ call.base.undo \in [Ids -> SUBSET (Entries \cup {None})]
<1>1. call.base \in Views
  BY CallTypes DEF Calls
<1> QED BY <1>1 DEF Views, Seen, InCall

(* SyncDirectory: the call has done what RecordStore says of an Ok.        *)
LEMMA SyncDirectoryEntry ==
  ASSUME InCall, EntryInv, SyncDirectory
  PROVE  /\ FileInv' /\ EntryInv'
         /\ \E id \in Ids, r \in Records :
              Abs!Created(id, r) \/ Abs!Replaced(id, r)
<1>1. /\ FileInv' /\ call' = None
      /\ \A id : /\ Entry(dir, id)' = Entry(dir, id)
                 /\ Kept(id)' = {Entry(dir, id)}
  BY SyncDirectoryFile
<1>2. /\ call.step = "sync"
      /\ allowed' = [allowed EXCEPT ![call.id] = {call.record}]
  BY DEF SyncDirectory, At
<1>3. /\ call.id \in Ids /\ call.record \in Records
      /\ call.replace \in BOOLEAN
  BY CallTypes
<1>4. /\ Advanced(call.id)
      /\ \A id \in Ids \ {call.id} : AsFound(id)
  BY DEF EntryInv, BaseInv, InCall
<1>5. Entry(dir, call.id) = Once(call.record)
  BY <1>2, <1>4 DEF Advanced, Renamed, Unlinked
<1>6. EntryInv'
  <2>1. allowed \in [Ids -> SUBSET Records]
    BY DEF EntryInv
  <2>2. allowed' \in [Ids -> SUBSET Records]
    BY <1>2, <1>3, <2>1
  <2>3. \A id \in Ids : Kept(id)' \subseteq Entries \cup {None}
    BY <1>1, ViewTypes DEF EntryInv, InCall
  <2>4. AckInv'
    <3>1. ASSUME NEW id \in Ids, allowed'[id] # {}
          PROVE  Kept(id)' \subseteq {Once(r) : r \in allowed'[id]}
      <4>1. CASE id = call.id
        BY <1>1, <1>2, <1>5, <2>1, <4>1
      <4>2. CASE id # call.id
        <5>1. allowed'[id] = allowed[id]
          BY <1>2, <2>1, <4>2
        <5>2. Kept(id) \subseteq {Once(r) : r \in allowed[id]}
          BY <3>1, <5>1 DEF EntryInv, AckInv
        <5>3. Entry(dir, id) \in Kept(id)
          BY ViewTypes DEF InCall
        <5> QED BY <1>1, <5>1, <5>2, <5>3
      <4> QED BY <4>1, <4>2
    <3> QED BY <1>1, <3>1 DEF AckInv
  <2>5. BaseInv'
    BY <1>1 DEF BaseInv
  <2> QED BY <1>1, <2>2, <2>3, <2>4, <2>5 DEF EntryInv
<1>7. /\ Seen'.file = [id \in Ids |-> Entry(dir, id)]
      /\ Seen'.undo = [id \in Ids |-> {}]
  <2>1. Seen' = View'
    BY <1>1 DEF Seen
  <2>2. /\ View'.file = [id \in Ids |-> Entry(dir, id)']
        /\ View'.undo = [id \in Ids |-> Kept(id)' \ {Entry(dir, id)'}]
    BY ViewIsNext
  <2>3. [id \in Ids |-> Entry(dir, id)'] = [id \in Ids |-> Entry(dir, id)]
    BY <1>1
  <2>4. \A id : Kept(id)' \ {Entry(dir, id)'} = {}
    BY <1>1
  <2>5. [id \in Ids |-> Kept(id)' \ {Entry(dir, id)'}] = [id \in Ids |-> {}]
    BY <2>4
  <2> QED BY <2>1, <2>2, <2>3, <2>5
<1>8. Seen'.file = [Seen.file EXCEPT ![call.id] = Once(call.record)]
  <2>1. Seen.file = call.base.file
    BY BaseTypes
  <2>2. Seen.file = [id \in Ids |-> Seen.file[id]]
    BY <2>1, BaseTypes
  <2>3. \A id \in Ids \ {call.id} : Entry(dir, id) = Seen.file[id]
    BY <1>4, <2>1 DEF AsFound
  <2> DEFINE file[id \in Ids] == Entry(dir, id)
  <2>4. /\ \A id \in Ids \ {call.id} : file[id] = Seen.file[id]
        /\ file[call.id] = Once(call.record)
    BY <1>3, <1>5, <2>3
  <2>5. Seen'.file = file
    BY <1>7
  <2>6. file = [id \in Ids |-> file[id]]
    OBVIOUS
  <2> HIDE DEF file
  <2>7. file = [Seen.file EXCEPT ![call.id] = Once(call.record)]
    BY <2>2, <2>4, <2>6
  <2> QED BY <2>5, <2>7
<1>9. CASE call.replace
  <2>1. Seen.file[call.id] # None /\ Seen.file[call.id].names = 1
    BY <1>4, <1>9, BaseTypes DEF Advanced
  <2>2. Abs!Replaced(call.id, call.record)
    BY <1>7, <1>8, <2>1
    DEF Abs!Replaced, Abs!Loadable, Abs!Once, Abs!Nothing, Once
  <2> QED BY <1>1, <1>3, <1>6, <2>2
<1>10. CASE ~call.replace
  <2>1. Seen.file[call.id] = None
    BY <1>4, <1>10, BaseTypes DEF Advanced
  <2>2. Abs!Created(call.id, call.record)
    BY <1>7, <1>8, <2>1 DEF Abs!Created, Abs!Once, Abs!Nothing, Once
  <2> QED BY <1>1, <1>3, <1>6, <2>2
<1> QED BY <1>3, <1>9, <1>10

(* After a failed call the store is what the entries say.                  *)
LEMMA FailedView ==
  ASSUME InCall, EntryInv, call' = None,
         \A id \in Ids : id # call.id => Same(id),
         NEW own \in Ids, own = call.id, NEW v, NEW U,
         Entry(dir, own)' = v, Kept(own)' \ {v} = U
  PROVE  /\ Seen'.file = [Seen.file EXCEPT ![own] = v]
         /\ Seen'.undo = [Seen.undo EXCEPT ![own] = U]
<1>1. /\ Seen'.file = [id \in Ids |-> Entry(dir, id)']
      /\ Seen'.undo = [id \in Ids |-> Kept(id)' \ {Entry(dir, id)'}]
  BY ViewIsNext DEF Seen
<1>2. ASSUME NEW id \in Ids, id # own
      PROVE  /\ Entry(dir, id)' = Seen.file[id]
             /\ Kept(id)' \ {Entry(dir, id)'} = Seen.undo[id]
  <2>1. AsFound(id) /\ Seen.file[id] \notin Seen.undo[id]
    BY <1>2, BaseTypes DEF EntryInv, BaseInv, InCall
  <2> QED BY <1>2, <2>1, BaseTypes DEF Same, AsFound
<1>3. PICK f : f = Seen.file
  OBVIOUS
<1>4. PICK u : u = Seen.undo
  OBVIOUS
<1>5. /\ f \in [Ids -> Entries \cup {None}]
      /\ u \in [Ids -> SUBSET (Entries \cup {None})]
  BY <1>3, <1>4, BaseTypes
<1>6. [id \in Ids |-> Entry(dir, id)'] = [f EXCEPT ![own] = v]
  BY <1>2, <1>3, <1>5
<1>7. [id \in Ids |-> Kept(id)' \ {Entry(dir, id)'}] = [u EXCEPT ![own] = U]
  BY <1>2, <1>4, <1>5
<1> QED BY <1>1, <1>3, <1>4, <1>6, <1>7

(* EntryInv when no call is in progress and the acknowledged records stay. *)
LEMMA IdleEntry ==
  ASSUME EntryInv, call' = None, UNCHANGED allowed,
         \A id \in Ids :
           /\ Kept(id)' \subseteq Entries \cup {None}
           /\ Entry(dir, id)' = None => Kept(id)' = {None}
           /\ allowed[id] # {} =>
                Kept(id)' \subseteq {Once(r) : r \in allowed[id]}
  PROVE  EntryInv'
<1>1. AckInv' /\ BaseInv'
  BY DEF AckInv, BaseInv
<1> QED BY <1>1 DEF EntryInv

(* CallFails: what the call has done is an outcome RecordStore allows.     *)
LEMMA CallFailsEntry ==
  ASSUME InCall, EntryInv, CallFails
  PROVE  /\ FileInv' /\ EntryInv'
         /\ \E id \in Ids, r \in Records :
              Abs!CreateFails(id, r) \/ Abs!ReplaceFails(id, r)
<1>1. /\ FileInv' /\ call' = None
      /\ \/ \A id \in Ids : Same(id)
         \/ call.step = "unlink" /\ AddsOwn(Once(call.record))
  BY CallFailsFile
<1>2. PICK own \in Ids : own = call.id
  BY CallTypes
<1>3. PICK r \in Records : r = call.record
  BY CallTypes
<1>4. Once(r) \in Entries /\ Once(r) # None /\ Once(r) # Twice(r)
      /\ Twice(r) # None
  BY EntryKinds
<1>5. /\ call.replace \in BOOLEAN /\ Advanced(own)
      /\ call.step = "unlink" => ~call.replace
  BY <1>2, CallTypes DEF InCall, FileInv, CallInv, EntryInv, BaseInv
<1>6. EntryInv'
  <2>1. allowed' = allowed
    BY DEF CallFails
  <2>2. CASE \A id \in Ids : Same(id)
    BY <1>1, <2>1, <2>2, IdleEntry DEF EntryInv, AckInv, Same
  <2>3. CASE call.step = "unlink" /\ AddsOwn(Once(call.record))
    <3>1. allowed[own] = {}
      BY <1>2, <1>5, <2>3, NewUnacknowledged
    <3>2. \A id \in Ids : IF id = own THEN Adds(id, Once(r)) ELSE Same(id)
      BY <1>2, <1>3, <2>3 DEF AddsOwn
    <3> QED BY <1>1, <1>4, <2>1, <3>1, <3>2, IdleEntry
            DEF EntryInv, AckInv, Same, Adds
  <2> QED BY <1>1, <2>2, <2>3
<1>7. \A id \in Ids : id # own => Same(id)
  BY <1>1, <1>2 DEF AddsOwn
<1>8. \A v, U : Entry(dir, own)' = v /\ Kept(own)' \ {v} = U =>
        /\ Seen'.file = [Seen.file EXCEPT ![own] = v]
        /\ Seen'.undo = [Seen.undo EXCEPT ![own] = U]
  BY <1>1, <1>2, <1>7, FailedView
<1>9. PICK f, u : f = Seen.file[own] /\ u = Seen.undo[own]
  OBVIOUS
<1>10. /\ f = call.base.file[own] /\ u = call.base.undo[own] /\ f \notin u
       /\ Seen.file \in [Ids -> Entries \cup {None}]
       /\ Seen.undo \in [Ids -> SUBSET (Entries \cup {None})]
  BY <1>9, BaseTypes DEF EntryInv, BaseInv, InCall
<1>11. CASE call.step \notin {"unlink", "sync"}
  <2>1. AsFound(own)
    BY <1>5, <1>11 DEF Advanced
  <2>2. Entry(dir, own)' = f /\ Kept(own)' = u \cup {f}
    BY <1>1, <1>10, <1>11, <2>1 DEF AsFound, Same
  <2>3. /\ Seen'.file = [Seen.file EXCEPT ![own] = f]
        /\ Seen'.undo = [Seen.undo EXCEPT ![own] = u]
    <3>1. Kept(own)' \ {f} = u
      BY <1>10, <2>2
    <3> QED BY <1>8, <2>2, <3>1
  <2>4. PICK F, W : F = Seen.file /\ W = Seen.undo
    OBVIOUS
  <2>5. [F EXCEPT ![own] = f] = F /\ [W EXCEPT ![own] = u] = W
    BY <1>9, <1>10, <2>4
  <2>6. UNCHANGED Abs!storeVars
    BY <2>3, <2>4, <2>5 DEF Abs!storeVars
  <2>7. Abs!CreateFails(own, r)
    BY <2>6 DEF Abs!CreateFails
  <2> QED BY <1>1, <1>6, <2>7
<1>12. CASE call.step \in {"unlink", "sync"} /\ ~call.replace
  <2>1. f = None /\ u = {}
    BY <1>5, <1>10, <1>12 DEF Advanced
  <2>2. CASE Entry(dir, own)' = Twice(r) /\ Kept(own)' = {None, Twice(r)}
    <3>1. Kept(own)' \ {Twice(r)} = u \cup {None}
      BY <1>4, <2>1, <2>2
    <3>2. /\ Seen'.file = [Seen.file EXCEPT ![own] = Twice(r)]
          /\ Seen'.undo = [Seen.undo EXCEPT ![own] = u \cup {None}]
      BY <1>8, <2>2, <3>1
    <3>3. Abs!CreateFails(own, r)
      BY <1>9, <2>1, <3>2 DEF Abs!CreateFails, Abs!Twice, Twice
    <3> QED BY <1>1, <1>6, <3>3
  <2>3. CASE /\ Entry(dir, own)' = Once(r)
             /\ Kept(own)' = {None, Twice(r), Once(r)}
    <3>1. Kept(own)' \ {Once(r)} = u \cup {None, Twice(r)}
      BY <1>4, <2>1, <2>3
    <3>2. /\ Seen'.file = [Seen.file EXCEPT ![own] = Once(r)]
          /\ Seen'.undo = [Seen.undo EXCEPT ![own] =
                             u \cup {None, Twice(r)}]
      BY <1>8, <2>3, <3>1
    <3>3. Abs!CreateFails(own, r)
      BY <1>9, <2>1, <3>2 DEF Abs!CreateFails, Abs!Once, Abs!Twice, Once,
                              Twice
    <3> QED BY <1>1, <1>6, <3>3
  <2>4. CASE call.step = "unlink"
    <3>1. Linked(own)
      BY <1>5, <2>4 DEF Advanced
    <3>2. Same(own) \/ Adds(own, Once(r))
      BY <1>1, <1>2, <1>3 DEF AddsOwn
    <3> QED BY <1>3, <2>2, <2>3, <3>1, <3>2 DEF Linked, Same, Adds
  <2>5. CASE call.step = "sync"
    <3>1. Unlinked(own) /\ Same(own)
      BY <1>1, <1>5, <1>12, <2>5 DEF Advanced
    <3> QED BY <1>3, <2>3, <3>1 DEF Unlinked, Same
  <2> QED BY <1>12, <2>4, <2>5
<1>13. CASE call.step \in {"unlink", "sync"} /\ call.replace
  <2>1. call.step = "sync" /\ Same(own) /\ Renamed(own)
    BY <1>1, <1>5, <1>13 DEF Advanced
  <2>2. /\ Entry(dir, own)' = Once(r)
        /\ Kept(own)' = (u \cup {f}) \cup {Once(r)}
    BY <1>3, <1>10, <2>1 DEF Same, Renamed
  <2>3. Kept(own)' \ {Once(r)} = (u \cup {f}) \ {Once(r)}
    BY <2>2
  <2>4. /\ Seen'.file = [Seen.file EXCEPT ![own] = Once(r)]
        /\ Seen'.undo = [Seen.undo EXCEPT ![own] =
                           (u \cup {f}) \ {Once(r)}]
    BY <1>8, <2>2, <2>3
  <2>5. f # None /\ f.names = 1
    BY <1>5, <1>10, <1>13 DEF Advanced
  <2>6. Abs!ReplaceFails(own, r)
    BY <1>9, <2>4, <2>5 DEF Abs!ReplaceFails, Abs!Loadable, Abs!Once, Once
  <2> QED BY <1>1, <1>6, <2>6
<1> QED BY <1>11, <1>12, <1>13

(* HostCrash: any state since the last fsync, one for all IDs.             *)
LEMMA HostCrashEntry ==
  ASSUME FileInv, EntryInv, HostCrash
  PROVE  FileInv' /\ EntryInv' /\ Abs!StoreCrash
<1>1. /\ FileInv' /\ call = None /\ call' = None
      /\ \A id : /\ Entry(dir, id)' \in Kept(id)
                 /\ Kept(id)' = {Entry(dir, id)'}
  BY HostCrashFile
<1>2. EntryInv'
  <2>1. allowed' = allowed
    BY DEF HostCrash
  <2> QED BY <1>1, <2>1, IdleEntry DEF EntryInv, AckInv
<1>3. Seen = View /\ Seen' = View'
  BY <1>1 DEF Seen
<1>4. \A id \in Ids : Abs!Outcomes(id) = Kept(id)
  <2>1. ASSUME NEW id \in Ids PROVE Abs!Outcomes(id) = Kept(id)
    <3>1. /\ Seen.file[id] = Entry(dir, id)
          /\ Seen.undo[id] = Kept(id) \ {Entry(dir, id)}
      BY <1>3, ViewIs
    <3>2. Entry(dir, id) \in Kept(id)
      BY ViewTypes
    <3> QED BY <3>1, <3>2 DEF Abs!Outcomes
  <2> QED BY <2>1
<1>5. PICK f : f = [id \in Ids |-> Entry(dir, id)']
  OBVIOUS
<1>6. \A id \in Ids : f[id] \in Abs!Outcomes(id)
  BY <1>1, <1>4, <1>5
<1>7. f \in [Ids -> UNION {Abs!Outcomes(id) : id \in Ids}]
  BY <1>5, <1>6
<1>8. Seen'.file = f /\ Seen'.undo = [id \in Ids |-> {}]
  BY <1>1, <1>3, <1>5, ViewIsNext
<1>9. Abs!StoreCrash
  BY <1>6, <1>7, <1>8 DEF Abs!StoreCrash, Abs!Nothing
<1> QED BY <1>1, <1>2, <1>9

-----------------------------------------------------------------------------
(* The invariant, and what follows from it                                 *)

(* The store before the first call: an empty directory.                    *)
LEMMA InitRInv ==
  ASSUME Init
  PROVE  RInv /\ Abs!StoreInit
<1>1. PICK d : d = <<>>
  OBVIOUS
<1>2. /\ log = <<d>> /\ call = None /\ calls = 0
      /\ allowed = [id \in Ids |-> {}]
  BY <1>1 DEF Init
<1>3. d \in [{} -> Inodes] /\ DOMAIN d = {}
  BY <1>1
<1>4. d \in Dirs
  BY <1>3 DEF Dirs
<1>5. log \in Seq(Dirs) /\ Len(log) = 1 /\ DOMAIN log = {1} /\ log[1] = d
      /\ log # <<>>
  BY <1>2, <1>4
<1>6. Stored = {d} /\ dir = d
  BY <1>5 DEF Stored, dir
<1>7. FileInv
  BY <1>2, <1>3, <1>5, <1>6 DEF FileInv, LogType, CallInv, Numbered
<1>8. \A id : Entry(dir, id) = None /\ Kept(id) = {None}
  BY <1>3, <1>6 DEF Entry, Kept
<1>9. EntryInv
  BY <1>2, <1>8 DEF EntryInv, AckInv, BaseInv
<1>10. Seen = View
  BY <1>2 DEF Seen
<1>11. Seen.file = [id \in Ids |-> None] /\ Seen.undo = [id \in Ids |-> {}]
  BY <1>8, <1>10, ViewIs
<1> QED BY <1>7, <1>9, <1>11 DEF RInv, Abs!StoreInit, Abs!Nothing

(* Every step keeps the invariant and is a step of RecordStore or none.    *)
LEMMA StepRInv ==
  ASSUME RInv, [Next]_vars
  PROVE  RInv' /\ [AbsNext]_(Abs!storeVars)
<1> USE DEF RInv
<1>1. ASSUME NEW id \in Ids, NEW r \in Records,
             PersistNew(id, r) \/ Persist(id, r)
      PROVE  RInv' /\ [AbsNext]_(Abs!storeVars)
  <2>1. FileInv' /\ EntryInv' /\ Seen' = Seen
    <3>1. CASE PersistNew(id, r)
      <4>1. Called(id, r, FALSE) /\ Final(id) \notin DOMAIN dir
        BY <3>1 DEF PersistNew
      <4> QED BY <4>1, CalledEntry
    <3>2. CASE Persist(id, r)
      <4>1. Called(id, r, TRUE) /\ Loadable(id)
        BY <3>2 DEF Persist
      <4> QED BY <4>1, CalledEntry
    <3> QED BY <1>1, <3>1, <3>2
  <2> QED BY <2>1 DEF Abs!storeVars
<1>2. CASE CreateTemp \/ WriteTemp \/ LinkFinal \/ UnlinkTemp \/ RenameOver
  <2>1. InCall
    BY <1>2 DEF InCall, At, CreateTemp, WriteTemp, LinkFinal, UnlinkTemp,
                RenameOver
  <2>2. FileInv' /\ EntryInv' /\ Seen' = Seen
    BY <1>2, <2>1, StepEntry
  <2> QED BY <2>2 DEF Abs!storeVars
<1>3. CASE SyncDirectory
  <2>1. InCall
    BY <1>3 DEF InCall, At, SyncDirectory
  <2> QED BY <1>3, <2>1, SyncDirectoryEntry DEF AbsNext
<1>4. CASE CallFails
  <2>1. InCall
    BY <1>4 DEF InCall, CallFails
  <2> QED BY <1>4, <2>1, CallFailsEntry DEF AbsNext
<1>5. CASE HostCrash
  BY <1>5, HostCrashEntry DEF AbsNext
<1>6. CASE UNCHANGED vars
  <2>1. UNCHANGED log /\ UNCHANGED call /\ UNCHANGED calls
        /\ UNCHANGED allowed
    BY <1>6 DEF vars
  <2>2. dir' = dir /\ Stored' = Stored
    BY <2>1 DEF dir, Stored
  <2>3. FileInv'
    BY <2>1, <2>2
    DEF FileInv, LogType, CallInv, Placed, Numbered, Mine, MyTemp
  <2>4. \A id : Kept(id)' = Kept(id) /\ Entry(dir, id)' = Entry(dir, id)
    BY <2>2 DEF Kept
  <2>5. EntryInv'
    BY <2>1, <2>4
    DEF EntryInv, AckInv, BaseInv, Advanced, AsFound, Renamed, Linked,
        Unlinked
  <2>6. View' = View
    BY <2>1, <2>2 DEF View
  <2>7. Seen' = Seen
    BY <2>1, <2>6 DEF Seen
  <2> QED BY <2>3, <2>5, <2>7 DEF Abs!storeVars
<1> QED BY <1>1, <1>2, <1>3, <1>4, <1>5, <1>6 DEF Next

(* The invariant of the store's directory: what a crash may leave of the   *)
(* files persist_new and persist make, and how far a call has come.        *)
THEOREM StoreInductive == Spec => []RInv
<1>1. Init => RInv
  BY InitRInv
<1>2. RInv /\ [Next]_vars => RInv'
  BY StepRInv
<1> QED BY <1>1, <1>2, PTL DEF Spec

(* After an Ok of persist_new or persist, load finds that record, complete *)
(* and with one name, or one a later call was asked to write, whatever a   *)
(* crash leaves (AcknowledgedLoads).                                       *)
THEOREM AcknowledgedLoadsHolds == Spec => []AcknowledgedLoads
<1>1. RInv => AcknowledgedLoads
  <2>1. SUFFICES ASSUME RInv, NEW id \in Ids, allowed[id] # {},
                        NEW i \in DOMAIN log
                 PROVE  /\ Entry(log[i], id) # None
                        /\ Entry(log[i], id).names = 1
                        /\ Entry(log[i], id).record \in allowed[id]
    BY DEF AcknowledgedLoads
  <2>2. Entry(log[i], id) \in Kept(id)
    BY DEF Kept, Stored
  <2>3. Kept(id) \subseteq {Once(r) : r \in allowed[id]}
    BY <2>1 DEF RInv, EntryInv, AckInv
  <2>4. PICK r \in allowed[id] : Entry(log[i], id) = Once(r)
    BY <2>2, <2>3
  <2>5. r \in Records
    BY <2>1, <2>4 DEF RInv, EntryInv
  <2>6. Once(r) # None /\ Once(r).names = 1 /\ Once(r).record = r
    BY <2>5, EntryKinds DEF Once
  <2> QED BY <2>4, <2>6
<1> QED BY <1>1, StoreInductive, PTL

(* Seen at the granularity of calls, the directory with its files, links   *)
(* and renames is the store the create, mount and persistent-configuration *)
(* runtimes are modelled with: an Ok is a Created or Replaced of           *)
(* RecordStore, an error or a kill one of its failures, and the file-      *)
(* system operations in between change nothing of it.                      *)
THEOREM ImplementsRecordStoreHolds == Spec => ImplementsRecordStore
<1>1. Init => Abs!StoreInit
  BY InitRInv
<1>2. RInv /\ [Next]_vars => [AbsNext]_(Abs!storeVars)
  BY StepRInv
<1> QED BY <1>1, <1>2, StoreInductive, PTL DEF Spec, ImplementsRecordStore
=============================================================================
