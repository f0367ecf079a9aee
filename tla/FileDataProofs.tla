--------------------------- MODULE FileDataProofs ---------------------------
(***************************************************************************)
(* Proofs about the data that a FileSession carries: what a read returns,  *)
(* what a write has printed and what a listing has shown when the handler  *)
(* replies to its packet.                                                  *)
(***************************************************************************)
EXTENDS FileHandleProofs

-----------------------------------------------------------------------------
(* Runs of bytes of a file.                                                 *)

(* s is the run of the file's bytes from start on. *)
InFile(path, start, s) ==
  /\ \A i \in 1 .. Len(s) : s[i] = <<path, start + i - 1>>
  /\ s # <<>> => path \in DOMAIN Tree /\ start + Len(s) <= Tree[path].size

LEMMA FileBytesValue ==
  ASSUME NEW path \in DOMAIN Tree, NEW offset \in Nat, NEW n \in Nat, NEW s,
         s = FileBytes(path, offset, n)
  PROVE  /\ s \in Seq(Byte) /\ InFile(path, offset, s)
         /\ Len(s) <= n /\ Len(s) \in Nat
         /\ Len(s) < n => offset + Len(s) >= Tree[path].size
<1> DEFINE left == Tree[path].size - offset
           len == IF left < 0 THEN 0 ELSE IF left < n THEN left ELSE n
<1>1. Tree[path].size \in Nat /\ s \in Seq(Byte)
  BY PathTypes, FileBytesType
<1>2. /\ len \in Nat /\ len <= n /\ (len < n => offset + len >= Tree[path].size)
      /\ len # 0 => offset + len <= Tree[path].size
  BY <1>1
<1>3. s = [i \in 1 .. len |-> <<path, offset + i - 1>>]
  BY DEF FileBytes
<1> HIDE DEF len
<1>4. Len(s) = len
  BY <1>1, <1>2, <1>3, LenProperties
<1>5. \A i \in 1 .. Len(s) : s[i] = <<path, offset + i - 1>>
  BY <1>3, <1>4
<1>6. s # <<>> => len # 0
  BY <1>1, <1>4, EmptySeq
<1> QED
  BY <1>1, <1>2, <1>4, <1>5, <1>6 DEF InFile

(* A run is the whole of what a read of n bytes gets if it has n bytes or   *)
(* reaches the end of the file.                                             *)
LEMMA WholeRun ==
  ASSUME NEW path \in DOMAIN Tree, NEW start \in Nat, NEW n \in Nat, NEW s \in Seq(Byte),
         InFile(path, start, s), Len(s) <= n,
         Len(s) = n \/ start + Len(s) >= Tree[path].size
  PROVE  s = FileBytes(path, start, n)
<1>0. Len(s) \in Nat /\ Tree[path].size \in Nat
  BY LenProperties, PathTypes
<1>1. PICK t : t = FileBytes(path, start, n)
  OBVIOUS
<1>2. /\ t \in Seq(Byte) /\ InFile(path, start, t) /\ Len(t) <= n /\ Len(t) \in Nat
      /\ Len(t) < n => start + Len(t) >= Tree[path].size
  BY <1>1, FileBytesValue
<1>3. /\ Len(s) # 0 => start + Len(s) <= Tree[path].size
      /\ Len(t) # 0 => start + Len(t) <= Tree[path].size
  <2>1. \A u \in Seq(Byte) : u = <<>> => Len(u) = 0
    OBVIOUS
  <2> QED
    BY <1>2, <2>1 DEF InFile
<1>4. Len(s) = Len(t)
  BY <1>0, <1>2, <1>3
<1>5. \A i \in 1 .. Len(s) : s[i] = t[i]
  BY <1>2, <1>4 DEF InFile
<1> QED
  BY <1>1, <1>2, <1>4, <1>5, SeqEqual

LEMMA PartRun ==
  ASSUME NEW path, NEW start \in Nat, NEW s \in Seq(Byte), NEW i \in Nat, NEW j \in Nat, NEW t,
         InFile(path, start, s), t = SubSeq(s, i + 1, j), i <= j, j <= Len(s)
  PROVE  t \in Seq(Byte) /\ Len(t) = j - i /\ InFile(path, start + i, t)
<1>0. Len(s) \in Nat /\ (path \in DOMAIN Tree => Tree[path].size \in Nat)
  BY LenProperties, PathTypes
<1>1. \A k \in i + 1 .. j : k \in 1 .. Len(s)
  BY <1>0
<1>2. \A k \in i + 1 .. j : s[k] \in Byte
  BY <1>1, ElementOfSeq
<1>3. t \in Seq(Byte)
  BY <1>0, <1>2, SubSeqProperties
<1>4. Len(t) = j - i /\ \A k \in 1 .. Len(t) : t[k] = s[i + k]
  <2>1. Len(t) = IF i + 1 <= j THEN j - (i + 1) + 1 ELSE 0
    BY <1>0, SubSeqProperties
  <2>2. \A k \in 1 .. j - (i + 1) + 1 : t[k] = s[i + 1 + k - 1]
    BY <1>0, SubSeqProperties
  <2>3. Len(t) = j - i
    BY <2>1
  <2>4. \A k \in 1 .. Len(t) : k \in 1 .. j - (i + 1) + 1 /\ i + 1 + k - 1 = i + k
    BY <2>3
  <2> QED
    BY <2>2, <2>3, <2>4
<1>5. ASSUME NEW k \in 1 .. Len(t) PROVE t[k] = <<path, start + i + k - 1>>
  <2>1. i + k \in 1 .. Len(s) /\ start + (i + k) - 1 = start + i + k - 1
    BY <1>0, <1>4
  <2>2. s[i + k] = <<path, start + (i + k) - 1>>
    BY <2>1 DEF InFile
  <2> QED
    BY <1>4, <2>1, <2>2
<1>6. ASSUME t # <<>> PROVE path \in DOMAIN Tree /\ start + i + Len(t) <= Tree[path].size
  <2>1. Len(t) # 0
    BY <1>3, <1>6, EmptySeq
  <2>2. Len(s) # 0
    BY <1>0, <1>4, <2>1
  <2>3. s # <<>>
    BY <2>2
  <2> QED
    BY <1>0, <1>4, <2>3 DEF InFile
<1> QED
  BY <1>3, <1>4, <1>5, <1>6 DEF InFile

LEMMA JoinRuns ==
  ASSUME NEW path, NEW start \in Nat, NEW s \in Seq(Byte), NEW t \in Seq(Byte), NEW u,
         InFile(path, start, s), InFile(path, start + Len(s), t), u = s \o t
  PROVE  u \in Seq(Byte) /\ Len(u) = Len(s) + Len(t) /\ InFile(path, start, u)
<1>0. Len(s) \in Nat /\ Len(t) \in Nat
  BY LenProperties
<1>1. /\ u \in Seq(Byte) /\ Len(u) = Len(s) + Len(t)
      /\ \A i \in 1 .. Len(s) + Len(t) : u[i] = IF i <= Len(s) THEN s[i] ELSE t[i - Len(s)]
  BY ConcatProperties
<1>2. ASSUME NEW i \in 1 .. Len(u) PROVE u[i] = <<path, start + i - 1>>
  <2>1. CASE i <= Len(s)
    <3>1. u[i] = s[i] /\ i \in 1 .. Len(s)
      BY <1>0, <1>1, <2>1
    <3> QED
      BY <3>1 DEF InFile
  <2>2. CASE ~(i <= Len(s))
    <3>1. PICK k : k = i - Len(s)
      OBVIOUS
    <3>2. u[i] = t[k] /\ k \in 1 .. Len(t) /\ start + Len(s) + k - 1 = start + i - 1
      BY <1>0, <1>1, <2>2, <3>1
    <3> QED
      BY <3>2 DEF InFile
  <2> QED
    BY <2>1, <2>2
<1>3. ASSUME u # <<>> PROVE path \in DOMAIN Tree /\ start + Len(u) <= Tree[path].size
  <2>1. CASE t = <<>>
    <3>1. Len(t) = 0
      BY <2>1
    <3>2. s # <<>>
      <4> SUFFICES ASSUME s = <<>> PROVE FALSE
        OBVIOUS
      <4>1. Len(u) = 0
        BY <1>1, <3>1
      <4> QED
        BY <1>1, <1>3, <4>1, EmptySeq
    <3> QED
      BY <1>0, <1>1, <3>1, <3>2 DEF InFile
  <2>2. CASE t # <<>>
    BY <1>0, <1>1, <2>2 DEF InFile
  <2> QED
    BY <2>1, <2>2
<1> QED
  BY <1>1, <1>2, <1>3 DEF InFile

(* A read that has got the bytes old receives the next ones: as many as it  *)
(* still needs are its data, which is all it gets if it needs no more or    *)
(* the file ends, and the others are the run that follows.                  *)
Continued(path, from, old, count, new) ==
  LET slice == Min2(count - Len(old), Len(new))
      data == old \o SubSeq(new, 1, slice)
      rest == SubSeq(new, slice + 1, Len(new))
  IN  /\ slice \in Nat /\ data \in Seq(Byte) /\ rest \in Seq(Byte)
      /\ Len(data) = Len(old) + slice /\ Len(data) <= count
      /\ InFile(path, from, data) /\ InFile(path, from + Len(old) + slice, rest)
      /\ Len(data) = count \/ new = <<>> => data = FileBytes(path, from, count)

LEMMA ContinuedRun ==
  ASSUME NEW path \in DOMAIN Tree, NEW from \in Nat, NEW old \in Seq(Byte), NEW count \in Nat,
         NEW new, InFile(path, from, old), Len(old) <= count,
         new = FileBytes(path, from + Len(old), Chunk)
  PROVE  Continued(path, from, old, count, new)
<1>0. Len(old) \in Nat /\ Tree[path].size \in Nat /\ Chunk \in Nat /\ 0 < Chunk
  BY LenProperties, PathTypes, TreeAssumption
<1>1. PICK offset \in Nat : offset = from + Len(old)
  BY <1>0
<1>2. /\ new \in Seq(Byte) /\ InFile(path, offset, new) /\ Len(new) \in Nat
      /\ Len(new) < Chunk => offset + Len(new) >= Tree[path].size
  BY <1>0, <1>1, FileBytesValue
<1>3. PICK n \in Nat : n = Len(new)
  BY <1>2
<1>4. PICK slice \in Nat :
        slice = Min2(count - Len(old), n) /\ slice <= count - Len(old) /\ slice <= n
  BY <1>0, <1>3 DEF Min2
<1>5. PICK first : first = SubSeq(new, 1, slice)
  OBVIOUS
<1>6. first \in Seq(Byte) /\ Len(first) = slice /\ InFile(path, offset, first)
  <2>1. PICK i \in Nat : i = 0 /\ i + 1 = 1 /\ slice - i = slice /\ offset + i = offset
    OBVIOUS
  <2>2. first = SubSeq(new, i + 1, slice) /\ i <= slice /\ slice <= Len(new)
    BY <1>3, <1>4, <1>5, <2>1
  <2>3. InFile(path, offset + i, first)
    BY <1>2, <2>2, PartRun
  <2>4. Len(first) = slice - i
    BY <1>2, <2>2, PartRun
  <2>5. first \in Seq(Byte)
    BY <1>2, <2>2, PartRun
  <2> QED
    BY <2>1, <2>3, <2>4, <2>5
<1>7. PICK rest : rest = SubSeq(new, slice + 1, n)
  OBVIOUS
<1>8. rest \in Seq(Byte) /\ InFile(path, offset + slice, rest)
  <2>1. slice <= n /\ n <= Len(new)
    BY <1>3, <1>4
  <2>2. InFile(path, offset + slice, rest)
    BY <1>2, <1>7, <2>1, PartRun
  <2>3. rest \in Seq(Byte)
    BY <1>2, <1>7, <2>1, PartRun
  <2> QED
    BY <2>2, <2>3
<1>9. PICK data : data = old \o first
  OBVIOUS
<1>10. data \in Seq(Byte) /\ Len(data) = Len(old) + Len(first) /\ InFile(path, from, data)
  <2>1. InFile(path, from + Len(old), first)
    BY <1>1, <1>6
  <2>2. InFile(path, from, data)
    BY <1>6, <1>9, <2>1, JoinRuns
  <2>3. Len(data) = Len(old) + Len(first)
    <3>1. \A a, b \in Seq(Byte) : Len(a \o b) = Len(a) + Len(b)
      BY ConcatProperties
    <3> QED
      BY <1>6, <1>9, <3>1, Zenon
  <2>4. data \in Seq(Byte)
    BY <1>6, <1>9, <2>1, JoinRuns
  <2> QED
    BY <2>2, <2>3, <2>4
<1>11. Len(data) = Len(old) + slice /\ Len(data) \in Nat /\ Len(data) <= count
  BY <1>0, <1>4, <1>6, <1>10
<1>12. Len(data) = count \/ new = <<>> => data = FileBytes(path, from, count)
  <2>1. new = <<>> => Len(new) = 0
    OBVIOUS
  <2>2. ASSUME new = <<>> PROVE from + Len(data) >= Tree[path].size
    <3>1. n = 0 /\ Len(new) = 0
      BY <1>3, <2>1, <2>2
    <3>2. offset >= Tree[path].size
      BY <1>0, <1>2, <3>1
    <3>3. Len(data) = Len(old)
      BY <1>0, <1>4, <1>11, <3>1
    <3> QED
      BY <1>1, <3>2, <3>3
  <2> QED
    BY <1>10, <1>11, <2>2, WholeRun
<1> QED
  BY <1>1, <1>3, <1>4, <1>5, <1>6, <1>7, <1>8, <1>9, <1>10, <1>11, <1>12 DEF Continued

-----------------------------------------------------------------------------
(* Steps that carry no data: packets other than READ, WRITE and             *)
(* EXAMINE_NEXT.                                                            *)

DataTypes == {"READ", "WRITE", "EXAMINE_NEXT"}

(* Only the virtual output's locks have that type. *)
OutLock(r) == r.type = "VIRTUAL_OUTPUT" => r.handle_id = RL_FILEHANDLE_VIRTUAL_OUTPUT
OutInv == \A l \in LockIds : lock[l] # NoLock => OutLock(lock[l])

FreshFor(r, p) ==
  /\ r # NoLock /\ r.owner = p /\ OutLock(r)
  /\ r.buffer = <<>> /\ r.enum = FALSE /\ r.seen = 0

(* At most the file position differs. *)
SameData(a, b) ==
  /\ SameHandle(a, b) /\ a.buffer_start = b.buffer_start /\ a.buffer = b.buffer
  /\ a.enum = b.enum /\ a.seen = b.seen

(* The others' locks stay as they are. *)
OthersLocks(p) ==
  \A l \in LockIds : lock[l] # NoLock /\ lock[l].owner # p => lock'[l] = lock[l]

(* No lock of p gets new data, and none of the others' changes. *)
Calm(p) ==
  /\ OthersLocks(p)
  /\ \A l \in LockIds : lock'[l] # NoLock =>
       \/ lock[l] # NoLock /\ SameData(lock'[l], lock[l])
       \/ lock[l] = NoLock /\ FreshFor(lock'[l], p)

LEMMA CalmSame ==
  ASSUME NEW p, UNCHANGED lock
  PROVE  Calm(p)
BY DEF Calm, OthersLocks, SameData, SameHandle

LEMMA CalmNew ==
  ASSUME FsType, NEW p, NEW n \in Free, NEW r, FreshFor(r, p), lock' = [lock EXCEPT ![n] = r]
  PROVE  Calm(p)
<1>1. n \in LockIds /\ lock[n] = NoLock
  BY DEF Free
<1>2. \A l \in LockIds : lock'[l] = IF l = n THEN r ELSE lock[l]
  BY <1>1 DEF FsType
<1> QED
  BY <1>1, <1>2 DEF Calm, OthersLocks, SameData, SameHandle

LEMMA CalmFreed ==
  ASSUME FsType, NEW p, NEW l \in LockIds, lock[l].owner = p, lock' = [lock EXCEPT ![l] = NoLock]
  PROVE  Calm(p)
<1>1. \A k \in LockIds : lock'[k] = IF k = l THEN NoLock ELSE lock[k]
  BY DEF FsType
<1> QED
  BY <1>1 DEF Calm, OthersLocks, SameData, SameHandle

LEMMA CalmMoved ==
  ASSUME FsType, NEW p, NEW l \in LockIds, lock[l] # NoLock, lock[l].owner = p, NEW offset,
         lock' = [lock EXCEPT ![l].offset = offset]
  PROVE  Calm(p)
<1>1. lock[l] \in LockType
  BY LockTypes
<1>2. PICK r : r = [lock[l] EXCEPT !.offset = offset]
  OBVIOUS
<1>3. SameData(r, lock[l])
  BY <1>1, <1>2 DEF LockType, SameData, SameHandle
<1>4. \A k \in LockIds : lock'[k] = IF k = l THEN r ELSE lock[k]
  BY <1>2 DEF FsType
<1> QED
  BY <1>3, <1>4 DEF Calm, OthersLocks, SameData, SameHandle

(* allocate_lock clears the handle. *)
LEMMA AllocatedFresh ==
  ASSUME NEW p, NEW type \in LockKinds, NEW id \in Int, OutLock([type |-> type, handle_id |-> id])
  PROVE  /\ \A path, size : FreshFor(allocate_lock(p, FALSE, type, id, path, size), p)
         /\ \A path, size : FreshFor(allocate_lock(p, TRUE, type, id, path, size), p)
<1> SUFFICES ASSUME NEW fh \in BOOLEAN, NEW path, NEW size
             PROVE  FreshFor(allocate_lock(p, fh, type, id, path, size), p)
  OBVIOUS
<1>1. PICK r : r = allocate_lock(p, fh, type, id, path, size)
  OBVIOUS
<1>2. /\ r.owner = p /\ r.type = type /\ r.handle_id = id /\ r.buffer = <<>>
      /\ r.enum = FALSE /\ r.seen = 0
  BY <1>1 DEF allocate_lock
<1>3. r # NoLock
  BY <1>2 DEF NoLock, LockKinds
<1> QED
  BY <1>1, <1>2, <1>3 DEF FreshFor, OutLock

Quiet(p) == Calm(p) /\ packet'[p].type \notin DataTypes

LEMMA NewTypes ==
  ASSUME FsType, NEW p \in Procs, NEW type, NEW arg, NEW path, NEW count, NEW from, NEW pkt,
         pkt = NewPacket(type, arg, path, count, from)
  PROVE  /\ packet' = [packet EXCEPT ![p] = pkt] => packet'[p].type = type
         /\ \A res, err : packet' = [packet EXCEPT ![p] = Replied(pkt, res, err)] =>
              packet'[p].type = type
<1>1. pkt.type = type /\ \A res, err : Replied(pkt, res, err).type = type
  BY DEF NewPacket, Replied
<1> QED
  BY <1>1 DEF FsType

LEMMA CalmReplyLock ==
  ASSUME FsType, NEW p \in Procs, Room(p), NEW type \in Types \ DataTypes, NEW arg, NEW path,
         NEW r, FreshFor(r, p), NEW err,
         ReplyLock(p, NewPacket(type, arg, path, 0, 0), r, err)
  PROVE  Quiet(p)
<1>1. NewLockId \in Free
  BY RoomForLock, FiniteSets DEF Room
<1>2. Calm(p)
  BY <1>1, CalmNew, CalmSame DEF ReplyLock
<1>3. packet'[p].type = type
  BY NewTypes DEF ReplyLock, reply_to_packet
<1> QED
  BY <1>2, <1>3 DEF Quiet

LEMMA HoldType ==
  ASSUME FsType, NEW p \in Procs, NEW type, NEW arg, NEW path, NEW expects, NEW msg,
         \/ Hold(p, NewPacket(type, arg, path, 0, 0), expects, 0, msg)
         \/ HoldFails(p, NewPacket(type, arg, path, 0, 0))
  PROVE  packet'[p].type = type
BY NewTypes DEF Hold, HoldFails, reply_to_packet

LEMMA QuietPackets ==
  ASSUME FsType, OutInv, NEW p \in Procs, process_fs_packet(p)
  PROVE  Quiet(p) \/ action_read(p) \/ action_write(p) \/ action_examine_next(p)
<1>0. DataTypes \cap {"FINDINPUT", "FINDOUTPUT", "LOCATE_OBJECT", "FREE_LOCK", "END", "SEEK",
                      "COPY_DIR", "PARENT", "INFO", "QUERY", "REFUSED", "DIE"} = {}
  BY DEF DataTypes
<1>1. CASE action_findinput(p)
  <2>0. Room(p)
    BY <1>1, MaySendRoom DEF action_findinput
  <2>1. PICK dir \in Locks(p, FALSE) \cup {NullLock}, path \in Names \ {<<>>} :
          IF path = VirtualInput
            THEN ReplyLock(p, NewPacket("FINDINPUT", dir, path, 0, 0),
                   allocate_lock(p, TRUE, "VIRTUAL_INPUT", RL_FILEHANDLE_VIRTUAL_INPUT, path, 0),
                   "NO_FREE_STORE")
            ELSE /\ \/ Hold(p, NewPacket("FINDINPUT", dir, path, 0, 0), "OPEN", 0,
                            OpenRequest(seqno, FindinputPath(dir, path)))
                    \/ HoldFails(p, NewPacket("FINDINPUT", dir, path, 0, 0))
                 /\ UNCHANGED lock
    BY <1>1 DEF action_findinput
  <2>2. "FINDINPUT" \in Types \ DataTypes
    BY <1>0 DEF Types
  <2>3. FreshFor(allocate_lock(p, TRUE, "VIRTUAL_INPUT", RL_FILEHANDLE_VIRTUAL_INPUT, path, 0), p)
    BY AllocatedFresh, SpecialIds DEF LockKinds, OutLock
  <2>4. CASE path = VirtualInput
    BY <2>0, <2>1, <2>2, <2>3, <2>4, CalmReplyLock
  <2>5. CASE path # VirtualInput
    BY <1>0, <2>1, <2>5, HoldType, CalmSame DEF Quiet
  <2> QED
    BY <2>4, <2>5
<1>2. CASE action_findoutput(p)
  <2>0. Room(p)
    BY <1>2, MaySendRoom DEF action_findoutput
  <2>1. PICK path \in Names \ {<<>>} :
          IF path = VirtualOutput
            THEN ReplyLock(p, NewPacket("FINDOUTPUT", NullLock, path, 0, 0),
                   allocate_lock(p, TRUE, "VIRTUAL_OUTPUT", RL_FILEHANDLE_VIRTUAL_OUTPUT, path, 0),
                   "0")
            ELSE /\ reply_to_packet(p, NewPacket("FINDOUTPUT", NullLock, path, 0, 0), 0, "0")
                 /\ UNCHANGED lock
    BY <1>2 DEF action_findoutput
  <2>2. "FINDOUTPUT" \in Types \ DataTypes
    BY <1>0 DEF Types
  <2>3. FreshFor(allocate_lock(p, TRUE, "VIRTUAL_OUTPUT", RL_FILEHANDLE_VIRTUAL_OUTPUT, path, 0), p)
    BY AllocatedFresh, SpecialIds DEF LockKinds, OutLock
  <2>4. CASE path = VirtualOutput
    BY <2>0, <2>1, <2>2, <2>3, <2>4, CalmReplyLock
  <2>5. CASE path # VirtualOutput
    BY <1>0, <2>1, <2>5, NewTypes, CalmSame DEF Quiet, reply_to_packet
  <2> QED
    BY <2>4, <2>5
<1>3. CASE action_locate_object(p)
  <2>0. Room(p)
    BY <1>3, MaySendRoom DEF action_locate_object
  <2>1. PICK dir \in Locks(p, FALSE) \cup {NullLock}, path \in Names :
          \/ ReplyLock(p, NewPacket("LOCATE_OBJECT", dir, path, 0, 0), alloc_root_lock(p),
                       "OBJECT_NOT_FOUND")
          \/ /\ packet' = [packet EXCEPT ![p] = NewPacket("LOCATE_OBJECT", dir, path, 0, 0)]
             /\ UNCHANGED lock
          \/ /\ \/ Hold(p, NewPacket("LOCATE_OBJECT", dir, path, 0, 0), "OPEN", 0,
                        OpenRequest(seqno, normalize_object_path(dir, path)))
                \/ HoldFails(p, NewPacket("LOCATE_OBJECT", dir, path, 0, 0))
             /\ UNCHANGED lock
    BY <1>3 DEF action_locate_object
  <2>2. "LOCATE_OBJECT" \in Types \ DataTypes
    BY <1>0 DEF Types
  <2>3. FreshFor(alloc_root_lock(p), p)
    BY AllocatedFresh, SpecialIds DEF alloc_root_lock, LockKinds, OutLock
  <2>4. CASE ReplyLock(p, NewPacket("LOCATE_OBJECT", dir, path, 0, 0), alloc_root_lock(p),
                       "OBJECT_NOT_FOUND")
    BY <2>0, <2>2, <2>3, <2>4, CalmReplyLock
  <2>5. CASE UNCHANGED lock
    <3>1. packet'[p].type = "LOCATE_OBJECT"
      <4>1. CASE packet' = [packet EXCEPT ![p] = NewPacket("LOCATE_OBJECT", dir, path, 0, 0)]
        BY <4>1, NewTypes
      <4>2. CASE \/ Hold(p, NewPacket("LOCATE_OBJECT", dir, path, 0, 0), "OPEN", 0,
                         OpenRequest(seqno, normalize_object_path(dir, path)))
                 \/ HoldFails(p, NewPacket("LOCATE_OBJECT", dir, path, 0, 0))
        BY <4>2, HoldType
      <4>3. CASE ReplyLock(p, NewPacket("LOCATE_OBJECT", dir, path, 0, 0), alloc_root_lock(p),
                           "OBJECT_NOT_FOUND")
        BY <4>3, NewTypes DEF ReplyLock, reply_to_packet
      <4> QED
        BY <2>1, <4>1, <4>2, <4>3
    <3> QED
      BY <1>0, <2>5, <3>1, CalmSame DEF Quiet
  <2> QED
    BY <2>1, <2>4, <2>5
<1>4. CASE action_free_lock(p)
  <2>1. packet'[p].type = "FREE_LOCK"
    BY <1>4 DEF action_free_lock, reply_to_packet, NewPacket, Replied, FsType
  <2>2. Calm(p)
    BY <1>4, CalmFreed, CalmSame DEF action_free_lock, rl_amigafs_free_lock, Locks
  <2> QED
    BY <1>0, <2>1, <2>2 DEF Quiet
<1>5. CASE action_end(p)
  <2>1. packet'[p].type = "END"
    BY <1>5 DEF action_end, reply_to_packet, NewPacket, Replied, FsType
  <2>2. Calm(p)
    BY <1>5, CalmFreed DEF action_end, rl_amigafs_free_lock, Locks
  <2> QED
    BY <1>0, <2>1, <2>2 DEF Quiet
<1>6. CASE action_copy_dir(p)
  <2>0. Room(p)
    BY <1>6, MaySendRoom DEF action_copy_dir
  <2>1. CASE /\ reply_to_packet(p, NewPacket("COPY_DIR", NullLock, <<>>, 0, 0), 0,
                                "OBJECT_NOT_FOUND")
             /\ UNCHANGED lock
    BY <1>0, <2>1, NewTypes, CalmSame DEF Quiet, reply_to_packet
  <2>2. ASSUME NEW l \in Locks(p, FALSE),
               ReplyLock(p, NewPacket("COPY_DIR", l, <<>>, 0, 0),
                 allocate_lock(p, FALSE, lock[l].type, lock[l].handle_id, lock[l].path,
                               lock[l].size),
                 "NO_FREE_STORE")
        PROVE  Quiet(p)
    <3>1. lock[l] \in LockType /\ OutLock(lock[l])
      BY LockTypes DEF Locks, OutInv
    <3>2. FreshFor(allocate_lock(p, FALSE, lock[l].type, lock[l].handle_id, lock[l].path,
                                 lock[l].size), p)
      BY <3>1, AllocatedFresh DEF LockType, OutLock, LockKinds
    <3>3. "COPY_DIR" \in Types \ DataTypes
      BY <1>0 DEF Types
    <3> QED
      BY <2>0, <2>2, <3>2, <3>3, CalmReplyLock
  <2> QED
    BY <1>6, <2>1, <2>2 DEF action_copy_dir
<1>7. CASE action_parent(p)
  <2>0. Room(p)
    BY <1>7, MaySendRoom DEF action_parent
  <2>1. PICK l, r :
          /\ l \in Locks(p, FALSE)
          /\ r = IF Len(lock[l].path) = 1 THEN alloc_root_lock(p)
                 ELSE allocate_lock(p, FALSE, "DIR", ROOT,
                                    SubSeq(lock[l].path, 1, Len(lock[l].path) - 1), 0)
          /\ \/ /\ reply_to_packet(p, NewPacket("PARENT", l, <<>>, 0, 0), 0, "OBJECT_NOT_FOUND")
                /\ UNCHANGED lock
             \/ ReplyLock(p, NewPacket("PARENT", l, <<>>, 0, 0), r, "OBJECT_NOT_FOUND")
    BY <1>7 DEF action_parent
  <2>2. FreshFor(alloc_root_lock(p), p)
    BY AllocatedFresh, SpecialIds DEF alloc_root_lock, LockKinds, OutLock
  <2>3. FreshFor(r, p)
    BY <2>1, <2>2, AllocatedFresh, SpecialIds DEF LockKinds, OutLock
  <2>4. "PARENT" \in Types \ DataTypes
    BY <1>0 DEF Types
  <2>5. CASE ReplyLock(p, NewPacket("PARENT", l, <<>>, 0, 0), r, "OBJECT_NOT_FOUND")
    BY <2>0, <2>3, <2>4, <2>5, CalmReplyLock
  <2>6. CASE /\ reply_to_packet(p, NewPacket("PARENT", l, <<>>, 0, 0), 0, "OBJECT_NOT_FOUND")
             /\ UNCHANGED lock
    BY <1>0, <2>6, NewTypes, CalmSame DEF Quiet, reply_to_packet
  <2> QED
    BY <2>1, <2>5, <2>6
<1>8. CASE action_local(p)
  <2>1. packet'[p].type \in {"QUERY", "INFO", "REFUSED"}
    BY <1>8, ZenonT(60) DEF action_local, LocalQuery, action_info, LocalRefusal, reply_to_packet, NewPacket,
       Replied, FsType
  <2>2. Calm(p)
    BY <1>8, CalmSame DEF action_local
  <2> QED
    BY <1>0, <2>1, <2>2 DEF Quiet
<1>9. CASE action_die(p)
  <2>1. packet'[p].type = "DIE"
    BY <1>9, NewTypes DEF action_die
  <2>2. Calm(p)
    BY <1>9, CalmSame DEF action_die
  <2> QED
    BY <1>0, <2>1, <2>2 DEF Quiet
<1>10. CASE action_seek(p)
  <2>1. packet'[p].type = "SEEK"
    BY <1>10 DEF action_seek, reply_to_packet, NewPacket, Replied, FsType
  <2>2. Calm(p)
    BY <1>10, CalmMoved DEF action_seek, Locks
  <2> QED
    BY <1>0, <2>1, <2>2 DEF Quiet
<1> QED
  BY <1>1, <1>2, <1>3, <1>4, <1>5, <1>6, <1>7, <1>8, <1>9, <1>10 DEF process_fs_packet

(* An error answers the operation. *)
FailedStep(op) ==
  /\ UNCHANGED lock /\ Received.kind # op.expects
  /\ \E err \in DosErrors \ {"0", "NO_MORE_ENTRIES"} :
       packet' = [packet EXCEPT ![op.packet] = Replied(packet[op.packet], 0, err)]
  /\ Received.kind = "ERROR" \/ conn' = "failed"

LEMMA QuietAnswers ==
  ASSUME SessionInv, rl_amigafs_process_network_message, Found, NEW op, op = find_pending_op
  PROVE  /\ Waiting(op) /\ Received \in AnswerType
         /\ \/ Quiet(op.packet) /\ packet[op.packet].type \notin DataTypes
            \/ FailedStep(op)
            \/ /\ Received.kind = op.expects
               /\ \/ packet[op.packet].type = "READ" /\ complete_read(op)
                  \/ packet[op.packet].type = "WRITE" /\ complete_write(op)
                  \/ packet[op.packet].type = "EXAMINE_NEXT" /\ complete_examine_next(op)
<1>0. FsType /\ Waiting(op) /\ Received \in AnswerType
  BY FoundWaits, NetworkSteps DEF SessionInv, TypeInv
<1>1. PICK p \in Procs : p = op.packet /\ p \in Held /\ packet[p] \in PacketType
  BY <1>0 DEF Waiting
<1>2. network_error \/ network_completes
  BY DEF rl_amigafs_process_network_message, network_unexpected
<1>3. CASE network_error
  <2>1. /\ Received.kind # op.expects /\ UNCHANGED lock
        /\ Received.kind = "ERROR" \/ conn' = "failed"
    BY <1>3 DEF network_error
  <2>2. PICK err \in DosErrors \ {"0", "NO_MORE_ENTRIES"} :
          packet' = [packet EXCEPT ![op.packet] = Replied(packet[op.packet], 0, err)]
    <3>1. PICK err : err = IF Received.kind = "ERROR" THEN translate_error_code(Received.error_code)
                           ELSE "DEVICE_NOT_MOUNTED"
      OBVIOUS
    <3>2. err \in DosErrors \ {"0", "NO_MORE_ENTRIES"}
      BY <3>1 DEF translate_error_code, DosErrors
    <3>3. Complete(op, 0, err)
      BY <1>3, <3>1 DEF network_error
    <3> QED
      BY <3>2, <3>3 DEF Complete, reply_to_packet
  <2> QED
    BY <1>0, <2>1, <2>2 DEF FailedStep
<1>4. CASE network_completes
  <2>0. Received.kind = op.expects
    BY <1>4 DEF network_completes
  <2>1. NewLockId \in Free
    BY <1>1, RoomToComplete
  <2>2. ASSUME NEW res, NEW err, Complete(op, res, err) PROVE packet'[p].type = packet[p].type
    <3>1. Replied(packet[p], res, err).type = packet[p].type
      BY <1>1 DEF Replied, PacketType
    <3>2. packet' = [packet EXCEPT ![p] = Replied(packet[p], res, err)]
      BY <1>1, <2>2 DEF Complete, reply_to_packet
    <3> QED
      BY <1>0, <3>1, <3>2 DEF FsType
  <2>3. CASE packet[p].type = "FINDINPUT" /\ complete_findinput(op)
    <3>1. Received.kind = "OPEN"
      BY <1>0, <1>1, <2>0, <2>3 DEF Waiting, Waits
    <3>2. PICK h \in Int : h = Received.handle
      BY <1>0, <3>1, OpenAnswered
    <3>3. PICK path, size : path = packet[p].path /\ size = Received.size
      OBVIOUS
    <3>4. FreshFor(allocate_lock(p, TRUE, "FILE", h, path, size), p)
      BY AllocatedFresh DEF LockKinds, OutLock
    <3>5. \/ lock' = [lock EXCEPT ![NewLockId] = allocate_lock(p, TRUE, "FILE", h, path, size)]
          \/ UNCHANGED lock
      BY <1>1, <2>3, <3>2, <3>3 DEF complete_findinput
    <3>6. Calm(p)
      BY <1>0, <2>1, <3>4, <3>5, CalmNew, CalmSame
    <3>7. packet'[p].type = packet[p].type
      BY <2>2, <2>3 DEF complete_findinput
    <3> QED
      BY <1>0, <1>1, <2>3, <3>6, <3>7 DEF Quiet, DataTypes
  <2>4. CASE packet[p].type = "LOCATE_OBJECT" /\ complete_locate_object(op)
    <3>1. Received.kind = "OPEN"
      BY <1>0, <1>1, <2>0, <2>4 DEF Waiting, Waits
    <3>2. PICK h \in Int, type \in {"FILE", "DIR"} : h = Received.handle /\ type = Received.type
      BY <1>0, <3>1, OpenAnswered
    <3>3. PICK path, size :
            path = normalize_object_path(packet[p].arg, packet[p].path) /\ size = Received.size
      OBVIOUS
    <3>4. FreshFor(allocate_lock(p, FALSE, type, h, path, size), p)
      <4>1. type \in LockKinds /\ OutLock([type |-> type, handle_id |-> h])
        BY DEF LockKinds, OutLock
      <4> QED
        BY <4>1, AllocatedFresh
    <3>5. \/ lock' = [lock EXCEPT ![NewLockId] = allocate_lock(p, FALSE, type, h, path, size)]
          \/ UNCHANGED lock
      BY <1>1, <2>4, <3>2, <3>3 DEF complete_locate_object
    <3>6. Calm(p)
      BY <1>0, <2>1, <3>4, <3>5, CalmNew, CalmSame
    <3>7. packet'[p].type = packet[p].type
      BY <2>2, <2>4 DEF complete_locate_object
    <3> QED
      BY <1>0, <1>1, <2>4, <3>6, <3>7 DEF Quiet, DataTypes
  <2> QED
    BY <1>0, <1>1, <1>4, <2>0, <2>3, <2>4 DEF network_completes
<1> QED
  BY <1>2, <1>3, <1>4

(* Whoever waits for data keeps the packet and its lock while the handler   *)
(* works for somebody else.                                                 *)
LEMMA WaitersKept ==
  ASSUME SessionInv, NEW p \in Procs, NEW pkt \in PacketType, Puts(p, pkt), OthersLocks(p),
         NEW k \in DOMAIN pending, NEW q, q = pending[k].packet, q # p,
         pending[k].expects \in {"READ", "WRITE", "FIND"}
  PROVE  /\ q \in Procs /\ packet'[q] = packet[q] /\ packet[q].arg \in LockIds
         /\ lock[packet[q].arg] # NoLock /\ lock[packet[q].arg].owner = q
         /\ lock'[packet[q].arg] = lock[packet[q].arg]
<1>0. FsType /\ OpInv /\ ArgInv
  BY Unpacked
<1>1. q \in Held /\ q \in Procs /\ pending[k].expects = Waits(packet[q].type)
  BY <1>0 DEF OpInv, Held
<1>2. packet[q].type \in DataTypes
  BY <1>1 DEF Waits, DataTypes
<1>3. ArgOk(q)
  BY <1>0, <1>1 DEF ArgInv
<1>4. OwnLock(q, packet[q].arg, TRUE) \/ OwnLock(q, packet[q].arg, FALSE)
  BY <1>2, <1>3 DEF ArgOk, DataTypes
<1>5. packet'[q] = packet[q]
  BY <1>0, <1>1, HeldChanges
<1>6. packet[q].arg \in LockIds /\ lock[packet[q].arg] # NoLock /\ lock[packet[q].arg].owner = q
  BY <1>4 DEF OwnLock
<1> QED
  BY <1>1, <1>5, <1>6 DEF OthersLocks

-----------------------------------------------------------------------------
(* What a read returns.                                                     *)

(* Every buffer is a run of its file's bytes. *)
BufferInv ==
  \A l \in LockIds :
    lock[l] # NoLock => InFile(lock[l].path, lock[l].buffer_start, lock[l].buffer)

Partly(pkt, h) ==
  InFile(h.path, pkt.from, pkt.data) /\ h.offset = pkt.from + Len(pkt.data)

Wholly(pkt, h) ==
  /\ pkt.data = FileBytes(h.path, pkt.from, pkt.count)
  /\ pkt.res = Len(pkt.data) /\ h.offset = pkt.from + pkt.res

ReadOk(p) ==
  LET pkt == packet[p]
      h == lock[pkt.arg]
  IN  pkt.type = "READ" =>
        /\ pkt.state = "held" => Partly(pkt, h)
        /\ pkt.state = "replied" /\ pkt.err = "0" => OwnLock(p, pkt.arg, TRUE) /\ Wholly(pkt, h)

(* The operation with the number seq, if there is one, reads at offset.     *)
ReadAsked(seq, handle, offset) ==
  \A k \in DOMAIN pending : pending[k].request_seqno = seq =>
    LET h == lock[packet[pending[k].packet].arg]
    IN  pending[k].expects = "READ" /\ handle = h.handle_id /\ offset = h.offset

(* data is what it will get. *)
ReadGot(seq, data) ==
  \A k \in DOMAIN pending : pending[k].request_seqno = seq =>
    LET h == lock[packet[pending[k].packet].arg]
    IN  /\ pending[k].expects = "READ" /\ h.path \in DOMAIN Tree
        /\ data = FileBytes(h.path, h.offset, Chunk)

ReadInv ==
  /\ BufferInv
  /\ \A p \in Procs : ReadOk(p)
  /\ conn = "up" =>
       /\ \A i \in DOMAIN requests : requests[i].kind = "READ" =>
            /\ requests[i].seq < seqno
            /\ ReadAsked(requests[i].seq, requests[i].handle, requests[i].offset)
       /\ \A i \in DOMAIN answers : answers[i].kind = "READ" =>
            answers[i].seq < seqno /\ ReadGot(answers[i].seq, answers[i].data)

LEMMA ReadAskedKept ==
  ASSUME SessionInv, NEW p \in Procs, NEW pkt \in PacketType, Puts(p, pkt), OthersLocks(p),
         OthersWait(p), NEW seq \in Nat, seq < seqno
  PROVE  /\ \A handle, offset : ReadAsked(seq, handle, offset) => ReadAsked(seq, handle, offset)'
         /\ \A data : ReadGot(seq, data) => ReadGot(seq, data)'
<1>0. seqno \in Nat
  BY DEF SessionInv, TypeInv, FsType
<1>1. ASSUME NEW j \in DOMAIN pending', pending'[j].request_seqno = seq
      PROVE  \E k \in DOMAIN pending :
               /\ pending'[j] = pending[k] /\ pending[k].request_seqno = seq
               /\ pending[k].packet # p
  BY <1>0, <1>1 DEF OthersWait
<1>2. ASSUME NEW handle, NEW offset, ReadAsked(seq, handle, offset),
             NEW j \in DOMAIN pending', pending'[j].request_seqno = seq
      PROVE  /\ pending'[j].expects = "READ"
             /\ handle = lock'[packet'[pending'[j].packet].arg].handle_id
             /\ offset = lock'[packet'[pending'[j].packet].arg].offset
  <2>1. PICK k \in DOMAIN pending :
               /\ pending'[j] = pending[k] /\ pending[k].request_seqno = seq
               /\ pending[k].packet # p
    BY <1>1, <1>2
  <2>2. PICK q : q = pending[k].packet
    OBVIOUS
  <2>3. /\ pending[k].expects = "READ" /\ handle = lock[packet[q].arg].handle_id
        /\ offset = lock[packet[q].arg].offset
    BY <1>2, <2>1, <2>2 DEF ReadAsked
  <2>4. packet'[q] = packet[q] /\ lock'[packet[q].arg] = lock[packet[q].arg]
    BY <2>1, <2>2, <2>3, WaitersKept
  <2> QED
    BY <2>1, <2>2, <2>3, <2>4
<1>3. ASSUME NEW data, ReadGot(seq, data),
             NEW j \in DOMAIN pending', pending'[j].request_seqno = seq
      PROVE  /\ pending'[j].expects = "READ"
             /\ lock'[packet'[pending'[j].packet].arg].path \in DOMAIN Tree
             /\ data = FileBytes(lock'[packet'[pending'[j].packet].arg].path,
                                 lock'[packet'[pending'[j].packet].arg].offset, Chunk)
  <2>1. PICK k \in DOMAIN pending :
               /\ pending'[j] = pending[k] /\ pending[k].request_seqno = seq
               /\ pending[k].packet # p
    BY <1>1, <1>3
  <2>2. PICK q : q = pending[k].packet
    OBVIOUS
  <2>3. /\ pending[k].expects = "READ" /\ lock[packet[q].arg].path \in DOMAIN Tree
        /\ data = FileBytes(lock[packet[q].arg].path, lock[packet[q].arg].offset, Chunk)
    BY <1>3, <2>1, <2>2 DEF ReadGot
  <2>4. packet'[q] = packet[q] /\ lock'[packet[q].arg] = lock[packet[q].arg]
    BY <2>1, <2>2, <2>3, WaitersKept
  <2> QED
    BY <2>1, <2>2, <2>3, <2>4
<1> QED
  BY <1>2, <1>3 DEF ReadAsked, ReadGot

LEMMA ReadOkKept ==
  ASSUME SessionInv, NEW p \in Procs, NEW pkt \in PacketType, Puts(p, pkt), OthersLocks(p),
         NEW q \in Procs, q # p, ReadOk(q)
  PROVE  ReadOk(q)'
<1>0. FsType /\ ArgInv
  BY Unpacked
<1>1. PICK x \in PacketType : x = packet[q]
  BY <1>0 DEF FsType
<1>2. packet'[q] = x
  BY <1>0, <1>1, HeldChanges
<1>3. CASE x.type # "READ" \/ (x.state # "held" /\ (x.state # "replied" \/ x.err # "0"))
  BY <1>2, <1>3 DEF ReadOk
<1>4. CASE x.type = "READ" /\ (x.state = "held" \/ (x.state = "replied" /\ x.err = "0"))
  <2>1. OwnLock(q, x.arg, TRUE)
    <3>1. CASE x.state = "held"
      BY <1>0, <1>1, <1>4, <3>1 DEF ArgInv, ArgOk, Held
    <3>2. CASE x.state = "replied"
      BY <1>1, <1>4, <3>2 DEF ReadOk
    <3> QED
      BY <1>4, <3>1, <3>2
  <2>2. lock'[x.arg] = lock[x.arg]
    BY <2>1 DEF OwnLock, OthersLocks
  <2>3. OwnLock(q, x.arg, TRUE)'
    BY <2>1, <2>2 DEF OwnLock
  <2> QED
    BY <1>1, <1>2, <2>2, <2>3 DEF ReadOk
<1> QED
  BY <1>3, <1>4

(* A step of the handler, on behalf of p. *)
LEMMA ReadHandler ==
  ASSUME SessionInv, ReadInv, NEW p \in Procs, NEW pkt \in PacketType, Puts(p, pkt),
         OthersLocks(p), OthersWait(p), BufferInv', ReadOk(p)',
         conn' = "up" =>
           /\ conn = "up" /\ seqno' \in Nat /\ seqno' >= seqno
           /\ \A i \in DOMAIN requests' : requests'[i].kind = "READ" =>
                \/ \E j \in DOMAIN requests : requests'[i] = requests[j]
                \/ /\ requests'[i].seq < seqno'
                   /\ ReadAsked(requests[i].seq, requests[i].handle, requests[i].offset)'
           /\ \A i \in DOMAIN answers' : \E j \in DOMAIN answers : answers'[i] = answers[j]
  PROVE  ReadInv'
<1>0. /\ requests \in Seq(RequestType) /\ answers \in Seq(AnswerType) /\ seqno \in Nat
  BY DEF SessionInv, TypeInv, ChannelType, FsType
<1>1. ASSUME NEW q \in Procs PROVE ReadOk(q)'
  BY ReadOkKept DEF ReadInv
<1>2. ASSUME conn' = "up", NEW i \in DOMAIN requests', requests'[i].kind = "READ"
      PROVE  /\ requests'[i].seq < seqno'
             /\ ReadAsked(requests[i].seq, requests[i].handle, requests[i].offset)'
  <2>1. CASE \E j \in DOMAIN requests : requests'[i] = requests[j]
    <3>1. PICK j \in DOMAIN requests : requests'[i] = requests[j]
      BY <2>1
    <3>2. PICK m \in RequestType : m = requests[j]
      BY <1>0, <3>1, ElementOfSeq, LenProperties
    <3>3. m.seq \in Nat /\ m.seq < seqno /\ ReadAsked(m.seq, m.handle, m.offset)
      BY <1>2, <3>1, <3>2 DEF ReadInv, RequestType
    <3>4. ReadAsked(m.seq, m.handle, m.offset)'
      BY <3>3, ReadAskedKept
    <3> QED
      BY <1>0, <1>2, <3>1, <3>2, <3>3, <3>4 DEF ReadAsked
  <2> QED
    BY <1>2, <2>1
<1>3. ASSUME conn' = "up", NEW i \in DOMAIN answers', answers'[i].kind = "READ"
      PROVE  answers'[i].seq < seqno' /\ ReadGot(answers[i].seq, answers[i].data)'
  <2>1. PICK j \in DOMAIN answers : answers'[i] = answers[j]
    BY <1>3
  <2>2. PICK a \in AnswerType : a = answers[j]
    BY <1>0, <2>1, ElementOfSeq, LenProperties
  <2>3. a.seq \in Nat /\ a.seq < seqno /\ ReadGot(a.seq, a.data)
    BY <1>3, <2>1, <2>2 DEF ReadInv, AnswerType
  <2>4. ReadGot(a.seq, a.data)'
    BY <2>3, ReadAskedKept
  <2> QED
    BY <1>0, <1>3, <2>1, <2>2, <2>3, <2>4 DEF ReadGot
<1> QED
  BY <1>1, <1>2, <1>3 DEF ReadInv

LEMMA AppendLast ==
  ASSUME NEW S, NEW s \in Seq(S), NEW a, NEW b, Append(s, a) = Append(s, b)
  PROVE  a = b
OBVIOUS

LEMMA BuffersCalm ==
  ASSUME BufferInv, NEW p, Calm(p)
  PROVE  BufferInv'
<1> SUFFICES ASSUME NEW l \in LockIds, lock'[l] # NoLock
             PROVE  InFile(lock'[l].path, lock'[l].buffer_start, lock'[l].buffer)
  BY DEF BufferInv
<1>1. CASE lock[l] # NoLock /\ SameData(lock'[l], lock[l])
  BY <1>1 DEF BufferInv, SameData, SameHandle
<1>2. CASE FreshFor(lock'[l], p)
  <2>1. lock'[l].buffer = <<>>
    BY <1>2 DEF FreshFor
  <2>2. \A i \in 1 .. Len(<<>>) : FALSE
    OBVIOUS
  <2> QED
    BY <2>1, <2>2 DEF InFile
<1> QED
  BY <1>1, <1>2 DEF Calm

(* What a packet adds to the requests: nothing, the request that its        *)
(* operation waits for, or the closing of a handle.                         *)
LEMMA PacketSends ==
  ASSUME SessionInv, NEW p \in Procs, Room(p), PacketStep(p), conn' = "up"
  PROVE  /\ conn = "up" /\ seqno' \in Nat /\ seqno' >= seqno
         /\ \E msg \in RequestType :
              /\ requests' = requests \/ (requests' = Append(requests, msg) /\ msg.seq < seqno')
              /\ msg.kind \in {"CLOSE", Waits(packet'[p].type)}
              /\ \A i \in DOMAIN requests' :
                   requests'[i] = msg \/ \E j \in DOMAIN requests : requests'[i] = requests[j]
<1>0. FsType /\ requests \in Seq(RequestType) /\ seqno \in Nat
  BY DEF SessionInv, TypeInv, ChannelType, FsType
<1>1. PICK close \in RequestType : close = CloseRequest(seqno, 0) /\ close.kind = "CLOSE"
  BY <1>0, CloseMessage
<1>2. CASE requests' = requests /\ conn' = conn /\ seqno' = seqno
  BY <1>0, <1>1, <1>2
<1>3. ASSUME NEW msg \in RequestType, msg.kind \in {"CLOSE", Waits(packet'[p].type)},
             transmit_message(msg), seqno' = seqno + 1, msg.seq = seqno
      PROVE  /\ conn = "up" /\ seqno' \in Nat /\ seqno' >= seqno
             /\ requests' = Append(requests, msg) /\ msg.seq < seqno'
             /\ \A i \in DOMAIN requests' :
                  requests'[i] = msg \/ \E j \in DOMAIN requests : requests'[i] = requests[j]
  <2>1. conn = "up" /\ requests' = Append(requests, msg)
    BY <1>0, <1>3, TransmitFacts
  <2>2. \A i \in DOMAIN requests' :
          requests'[i] = msg \/ \E j \in DOMAIN requests : requests'[i] = requests[j]
    BY <1>0, <2>1, SentOne
  <2> QED
    BY <1>0, <1>3, <2>1, <2>2
<1>4. CASE HoldStep(p)
  <2>1. PICK op \in OpType, msg \in RequestType :
          /\ op.packet = p /\ op.request_seqno = seqno
          /\ transmit_message(msg) /\ seqno' = seqno + 1 /\ Asks(msg, op)'
    BY <1>4 DEF HoldStep
  <2>2. msg.kind = Waits(packet'[p].type) /\ msg.seq = seqno
    BY <2>1 DEF Asks
  <2> QED
    BY <1>3, <2>1, <2>2
<1>5. CASE ReplyStep(p)
  <2>1. CASE NothingSent
    BY <1>2, <2>1 DEF NothingSent
  <2>2. ASSUME NEW l \in LockIds, Freed(p, l), seqno' = seqno + 1,
               transmit_message(CloseRequest(seqno, lock[l].handle_id))
        PROVE  \E msg \in RequestType :
                 msg.kind = "CLOSE" /\ transmit_message(msg) /\ msg.seq = seqno
    <3>1. PICK h \in Int : h = lock[l].handle_id
      BY <1>0, <2>2, LockTypes DEF Freed, LockType
    <3>2. PICK msg \in RequestType : msg = CloseRequest(seqno, h) /\ msg.kind = "CLOSE"
      BY <1>0, CloseMessage
    <3>3. msg.seq = seqno
      BY <3>2 DEF CloseRequest
    <3> QED
      BY <2>2, <3>1, <3>2, <3>3
  <2> QED
    BY <1>3, <1>5, <2>1, <2>2 DEF ReplyStep
<1>6. CASE LostStep(p)
  <2>1. UNCHANGED <<requests, seqno>> /\ (conn' = conn \/ conn' = "crashed")
    BY <1>6 DEF LostStep
  <2> QED
    BY <1>2, <2>1
<1> QED
  BY <1>4, <1>5, <1>6 DEF PacketStep


(* The new operation is the only one with its number. *)
LEMMA NewReadAsked ==
  ASSUME OpInv', NEW op, NEW msg, Asks(msg, op)', msg.kind = "READ", NEW k \in DOMAIN pending',
         pending'[k] = op
  PROVE  ReadAsked(msg.seq, msg.handle, msg.offset)'
<1>1. /\ op.request_seqno = msg.seq /\ op.expects = "READ"
      /\ msg.handle = lock'[packet'[op.packet].arg].handle_id
      /\ msg.offset = lock'[packet'[op.packet].arg].offset
  BY DEF Asks
<1>2. \A j \in DOMAIN pending' : pending'[j].request_seqno = msg.seq => pending'[j] = op
  BY <1>1 DEF OpInv
<1> QED
  BY <1>1, <1>2 DEF ReadAsked

(* What remains to be shown of a packet. *)
LEMMA ReadPacketFrame ==
  ASSUME SessionInv, SessionInv', ReadInv, NEW p \in Procs, Room(p), PacketStep(p),
         UNCHANGED answers, OthersLocks(p), BufferInv', ReadOk(p)'
  PROVE  ReadInv'
<1>0. /\ FsType /\ OpInv /\ OpInv' /\ requests \in Seq(RequestType) /\ seqno \in Nat
      /\ p \notin Held
  BY DEF SessionInv, TypeInv, ChannelType, FsType, Room, Held
<1>1. PICK pkt \in PacketType : Puts(p, pkt)
  BY DEF PacketStep, ReplyStep, HoldStep, LostStep
<1>2. \A i \in DOMAIN answers' : \E j \in DOMAIN answers : answers'[i] = answers[j]
  OBVIOUS
<1>3. CASE HoldStep(p)
  <2>1. PICK op \in OpType, msg \in RequestType :
          /\ pending' = <<op>> \o pending /\ op.packet = p /\ op.request_seqno = seqno
          /\ transmit_message(msg) /\ seqno' = seqno + 1 /\ Asks(msg, op)'
    BY <1>3 DEF HoldStep
  <2>2. OthersWait(p) /\ 1 \in DOMAIN pending' /\ pending'[1] = op
    BY <1>0, <2>1, HoldOthersWait
  <2>3. msg.seq = seqno
    BY <2>1 DEF Asks
  <2>4. msg.kind = "READ" => ReadAsked(msg.seq, msg.handle, msg.offset)'
    BY <1>0, <2>1, <2>2, NewReadAsked
  <2>5. ASSUME conn' = "up"
        PROVE  /\ conn = "up" /\ seqno' \in Nat /\ seqno' >= seqno
               /\ \A i \in DOMAIN requests' : requests'[i].kind = "READ" =>
                    \/ \E j \in DOMAIN requests : requests'[i] = requests[j]
                    \/ /\ requests'[i].seq < seqno'
                       /\ ReadAsked(requests[i].seq, requests[i].handle, requests[i].offset)'
    <3>1. conn = "up" /\ requests' = Append(requests, msg)
      BY <1>0, <2>1, <2>5, TransmitFacts
    <3>2. \A i \in DOMAIN requests' :
            requests'[i] = msg \/ \E j \in DOMAIN requests : requests'[i] = requests[j]
      BY <1>0, <3>1, SentOne
    <3>3. ASSUME NEW i \in DOMAIN requests', requests'[i].kind = "READ", requests'[i] = msg
          PROVE  /\ requests'[i].seq < seqno'
                 /\ ReadAsked(requests[i].seq, requests[i].handle, requests[i].offset)'
      BY <1>0, <2>1, <2>3, <2>4, <3>3 DEF ReadAsked
    <3>4. seqno' \in Nat /\ seqno' >= seqno
      BY <1>0, <2>1
    <3> QED
      BY <3>1, <3>2, <3>3, <3>4
  <2> QED
    BY <1>1, <1>2, <2>2, <2>5, ReadHandler
<1>4. CASE ~HoldStep(p)
  <2>1. pending' = pending
    BY <1>4 DEF PacketStep, ReplyStep, LostStep
  <2>2. OthersWait(p)
    BY <1>0, <2>1, ReplyOthersWait
  <2>3. ASSUME conn' = "up"
        PROVE  /\ conn = "up" /\ seqno' \in Nat /\ seqno' >= seqno
               /\ \A i \in DOMAIN requests' : requests'[i].kind = "READ" =>
                    \E j \in DOMAIN requests : requests'[i] = requests[j]
    <3>1. CASE NothingSent \/ LostStep(p)
      BY <1>0, <2>3, <3>1 DEF NothingSent, LostStep
    <3>2. ASSUME NEW l \in LockIds, Freed(p, l), seqno' = seqno + 1,
                 transmit_message(CloseRequest(seqno, lock[l].handle_id))
          PROVE  /\ conn = "up" /\ seqno' \in Nat /\ seqno' >= seqno
                 /\ \A i \in DOMAIN requests' : requests'[i].kind = "READ" =>
                      \E j \in DOMAIN requests : requests'[i] = requests[j]
      <4>1. PICK h \in Int : h = lock[l].handle_id
        BY <1>0, <3>2, LockTypes DEF Freed, LockType
      <4>2. PICK msg \in RequestType : msg = CloseRequest(seqno, h) /\ msg.kind = "CLOSE"
        BY <1>0, CloseMessage
      <4>3. conn = "up" /\ requests' = Append(requests, msg)
        BY <1>0, <2>3, <3>2, <4>1, <4>2, TransmitFacts
      <4>4. \A i \in DOMAIN requests' :
              requests'[i] = msg \/ \E j \in DOMAIN requests : requests'[i] = requests[j]
        BY <1>0, <4>3, SentOne
      <4> QED
        BY <1>0, <3>2, <4>2, <4>3, <4>4
    <3> QED
      BY <1>4, <3>1, <3>2 DEF PacketStep, ReplyStep
  <2> QED
    BY <1>1, <1>2, <2>2, <2>3, ReadHandler
<1> QED
  BY <1>3, <1>4

LEMMA BuffersOne ==
  ASSUME BufferInv, NEW l \in LockIds, NEW r, InFile(r.path, r.buffer_start, r.buffer),
         \A k \in LockIds : lock'[k] = IF k = l THEN r ELSE lock[k]
  PROVE  BufferInv'
BY DEF BufferInv

(* What is taken out of the buffer is the run at the file position. *)
LEMMA OverlapRun ==
  ASSUME NEW h \in LockType, NEW count \in Nat, InFile(h.path, h.buffer_start, h.buffer),
         NEW got, got = buffer_overlap(h, count)
  PROVE  /\ got \in Seq(Byte) /\ Len(got) \in Nat /\ Len(got) <= count
         /\ InFile(h.path, h.offset, got)
         /\ InBuffer(h) /\ Len(got) = count => h.path \in DOMAIN Tree
<1>1. /\ h.buffer \in Seq(Byte) /\ h.buffer_start \in Nat /\ h.offset \in Nat
      /\ Len(h.buffer) \in Nat
  BY LenProperties DEF LockType, Byte
<1>2. got \in Seq(Byte) /\ Len(got) \in Nat /\ Len(got) <= count
  BY OverlapType
<1>3. CASE ~InBuffer(h)
  <2>1. h.offset < h.buffer_start \/ h.buffer_start + Len(h.buffer) <= h.offset
    BY <1>1, <1>3 DEF InBuffer
  <2>2. got = <<>>
    BY <2>1 DEF buffer_overlap
  <2>3. \A i \in 1 .. Len(<<>>) : FALSE
    OBVIOUS
  <2> QED
    BY <1>2, <1>3, <2>2, <2>3 DEF InFile
<1>4. CASE InBuffer(h)
  <2>1. PICK i \in Nat, n \in Nat :
          /\ i = h.offset - h.buffer_start
          /\ n = Min2((h.buffer_start + Len(h.buffer)) - h.offset, count)
          /\ i + n <= Len(h.buffer)
    BY <1>1, <1>4 DEF InBuffer, Min2
  <2>2. got = SubSeq(h.buffer, i + 1, i + n)
    <3>1. ~(h.offset < h.buffer_start \/ h.buffer_start + Len(h.buffer) <= h.offset)
      BY <1>1, <1>4 DEF InBuffer
    <3> DEFINE start == h.offset - h.buffer_start
               m == Min2((h.buffer_start + Len(h.buffer)) - h.offset, count)
    <3>2. buffer_overlap(h, count) = SubSeq(h.buffer, start + 1, start + m)
      BY <3>1 DEF buffer_overlap
    <3>3. start = i /\ m = n
      BY <2>1
    <3> HIDE DEF start, m
    <3> QED
      BY <3>2, <3>3
  <2>3. PICK j \in Nat : j = i + n /\ i <= j /\ j <= Len(h.buffer)
    BY <1>1, <2>1
  <2>8. got = SubSeq(h.buffer, i + 1, j)
    BY <2>2, <2>3
  <2>5. InFile(h.path, h.buffer_start + i, got)
    <3>1. PICK s \in Seq(Byte) : s = h.buffer
      BY <1>1
    <3>2. PICK b \in Nat : b = h.buffer_start
      BY <1>1
    <3>3. PICK path : path = h.path
      OBVIOUS
    <3>4. InFile(path, b, s) /\ got = SubSeq(s, i + 1, j) /\ j <= Len(s) /\ i <= j
      BY <2>3, <2>8, <3>1, <3>2, <3>3
    <3>5. InFile(path, b + i, got)
      BY <3>4, PartRun
    <3> QED
      BY <3>2, <3>3, <3>5
  <2>6. h.buffer_start + i = h.offset
    BY <1>1, <2>1
  <2>7. h.path \in DOMAIN Tree
    <3>1. Len(h.buffer) # 0
      BY <1>1, <1>4 DEF InBuffer
    <3>2. h.buffer # <<>>
      BY <3>1
    <3> QED
      BY <3>2 DEF InFile
  <2> QED
    BY <1>2, <2>5, <2>6, <2>7
<1> QED
  BY <1>3, <1>4

(* What action_read leaves behind. *)
LEMMA ReadTaken ==
  ASSUME SessionInv, ReadInv, NEW p \in Procs, action_read(p)
  PROVE  OthersLocks(p) /\ BufferInv' /\ ReadOk(p)'
<1>0. FsType /\ BufferInv
  BY DEF SessionInv, TypeInv, ReadInv
<1>1. PICK l \in Locks(p, TRUE), count \in Counts :
       LET h == lock[l]
           got == buffer_overlap(h, count)
           offset == h.offset + Len(got)
           pkt == [NewPacket("READ", l, <<>>, count, h.offset) EXCEPT !.data = got]
       IN  /\ lock' = [lock EXCEPT ![l].offset = offset]
           /\ IF InBuffer(h) /\ Len(got) = count
                THEN reply_to_packet(p, pkt, count, "0")
                ELSE \/ Hold(p, pkt, "READ", 0, ReadRequest(seqno, h.handle_id, offset))
                     \/ HoldFails(p, pkt)
  BY DEF action_read
<1>2. /\ l \in LockIds /\ lock[l] # NoLock /\ lock[l].owner = p /\ lock[l].fh = TRUE
      /\ count \in Nat
  BY FsAssumption DEF Locks
<1>3. PICK h \in LockType : h = lock[l]
  BY <1>0, <1>2, LockTypes
<1>4. PICK got \in Seq(Byte) :
        /\ got = buffer_overlap(h, count) /\ Len(got) \in Nat /\ Len(got) <= count
        /\ InFile(h.path, h.offset, got)
        /\ InBuffer(h) /\ Len(got) = count => h.path \in DOMAIN Tree
  <2>1. InFile(h.path, h.buffer_start, h.buffer)
    BY <1>0, <1>2, <1>3 DEF BufferInv
  <2> QED
    BY <1>2, <2>1, OverlapRun
<1>5. PICK r : r = [h EXCEPT !.offset = h.offset + Len(got)]
  OBVIOUS
<1>6. /\ lock' = [lock EXCEPT ![l] = r]
      /\ r.offset = h.offset + Len(got) /\ r.path = h.path /\ r.buffer = h.buffer
      /\ r.buffer_start = h.buffer_start /\ r.owner = h.owner /\ r.fh = h.fh
      /\ r \in LockType /\ h.offset \in Nat
  <2>1. h.offset \in Nat /\ h.offset + Len(got) \in Nat
    BY <1>4 DEF LockType
  <2>2. lock' = [lock EXCEPT ![l] = r]
    BY <1>0, <1>1, <1>2, <1>3, <1>4, <1>5 DEF FsType
  <2>3. /\ r.offset = h.offset + Len(got) /\ r.path = h.path /\ r.buffer = h.buffer
        /\ r.buffer_start = h.buffer_start /\ r.owner = h.owner /\ r.fh = h.fh
        /\ r \in LockType
    BY <1>5, <2>1 DEF LockType
  <2> QED
    BY <2>1, <2>2, <2>3
<1>7. OthersLocks(p) /\ \A k \in LockIds : lock'[k] = IF k = l THEN r ELSE lock[k]
  <2>1. \A k \in LockIds : lock'[k] = IF k = l THEN r ELSE lock[k]
    BY <1>0, <1>6 DEF FsType
  <2> QED
    BY <1>2, <2>1 DEF OthersLocks
<1>8. BufferInv'
  <2>1. InFile(r.path, r.buffer_start, r.buffer)
    BY <1>0, <1>2, <1>3, <1>6 DEF BufferInv
  <2> QED
    BY <1>0, <1>2, <1>7, <2>1, BuffersOne
<1>9. PICK pkt :
        /\ pkt = [NewPacket("READ", l, <<>>, count, h.offset) EXCEPT !.data = got]
        /\ pkt.type = "READ" /\ pkt.arg = l /\ pkt.data = got /\ pkt.from = h.offset
        /\ pkt.count = count /\ pkt.state = "held"
  <2>4. PICK new : new = NewPacket("READ", l, <<>>, count, h.offset)
    OBVIOUS
  <2>1. /\ new = NewPacket("READ", l, <<>>, count, h.offset)
        /\ new.type = "READ" /\ new.arg = l /\ new.from = h.offset /\ new.count = count
        /\ new.state = "held"
    BY <2>4 DEF NewPacket
  <2>2. PICK pkt : pkt = [new EXCEPT !.data = got]
    OBVIOUS
  <2>3. /\ pkt.type = new.type /\ pkt.arg = new.arg /\ pkt.data = got /\ pkt.from = new.from
        /\ pkt.count = new.count /\ pkt.state = new.state
    BY <2>1, <2>2 DEF NewPacket
  <2> QED
    BY <2>1, <2>2, <2>3
<1>10. lock'[l] = r /\ r # NoLock /\ r.owner = p /\ r.fh = TRUE
  BY <1>2, <1>3, <1>6, <1>7, LockTypes
<1>11. CASE InBuffer(h) /\ Len(got) = count /\ reply_to_packet(p, pkt, count, "0")
  <2>1. PICK x : x = Replied(pkt, count, "0")
    OBVIOUS
  <2>2. packet'[p] = x
    BY <1>0, <1>11, <2>1 DEF FsType, reply_to_packet
  <2>3. got = FileBytes(h.path, h.offset, count)
    BY <1>2, <1>4, <1>6, <1>11, WholeRun
  <2>4. /\ x.type = "READ" /\ x.arg = l /\ x.data = got /\ x.from = h.offset
        /\ x.count = count /\ x.state = "replied" /\ x.res = count /\ x.err = "0"
    BY <1>9, <2>1 DEF NewPacket, Replied
  <2>5. OwnLock(p, l, TRUE)'
    BY <1>2, <1>10 DEF OwnLock
  <2> QED
    BY <1>6, <1>7, <1>8, <1>10, <1>11, <2>2, <2>3, <2>4, <2>5 DEF ReadOk, Wholly, OwnLock
<1>12. CASE packet' = [packet EXCEPT ![p] = pkt]
  <2>1. packet'[p] = pkt
    BY <1>0, <1>12 DEF FsType
  <2>2. Partly(pkt, r)
    BY <1>4, <1>6, <1>9 DEF Partly
  <2>3. Partly(packet'[p], lock'[packet'[p].arg])
    BY <1>9, <1>10, <2>1, <2>2
  <2>4. packet'[p].state = "held"
    BY <1>9, <2>1
  <2> QED
    BY <1>7, <1>8, <2>3, <2>4 DEF ReadOk, Partly
<1>13. CASE HoldFails(p, pkt)
  <2>1. PICK x : x = Replied(pkt, 0, "NO_FREE_STORE")
    OBVIOUS
  <2>2. packet'[p] = x
    BY <1>0, <1>13, <2>1 DEF FsType, HoldFails, reply_to_packet
  <2>3. x.state = "replied" /\ x.err = "NO_FREE_STORE"
    BY <1>9, <2>1 DEF NewPacket, Replied
  <2> QED
    BY <1>7, <1>8, <2>2, <2>3 DEF ReadOk
<1> QED
  BY <1>1, <1>3, <1>4, <1>9, <1>11, <1>12, <1>13 DEF Hold

(* What action_examine_next changes in its lock, and what it does not. *)
LEMMA ExamineTaken ==
  ASSUME FsType, NEW p \in Procs, action_examine_next(p)
  PROVE  /\ packet'[p].type = "EXAMINE_NEXT" /\ OthersLocks(p) /\ Touched
         /\ \A k \in LockIds : lock[k] # NoLock =>
              lock'[k].buffer = lock[k].buffer /\ lock'[k].buffer_start = lock[k].buffer_start
<1>1. PICK l, pkt :
        /\ l \in Locks(p, FALSE) /\ pkt = NewPacket("EXAMINE_NEXT", l, <<>>, 0, 0)
        /\ \/ /\ packet' = [packet EXCEPT ![p] = pkt]
              /\ \E enum \in BOOLEAN, reset \in BOOLEAN :
                   lock' = [lock EXCEPT ![l].enum = enum, ![l].seen = IF reset THEN 0 ELSE @]
           \/ HoldFails(p, pkt) /\ UNCHANGED lock
  BY DEF action_examine_next, Hold
<1>2. packet'[p].type = "EXAMINE_NEXT"
  BY <1>1, NewTypes DEF HoldFails, reply_to_packet
<1>3. l \in LockIds /\ lock[l] # NoLock /\ lock[l].owner = p /\ lock[l] \in LockType
  BY <1>1, LockTypes DEF Locks
<1>4. CASE UNCHANGED lock
  BY <1>2, <1>4, TouchedRefl DEF OthersLocks
<1>5. ASSUME NEW enum \in BOOLEAN, NEW reset \in BOOLEAN,
             lock' = [lock EXCEPT ![l].enum = enum, ![l].seen = IF reset THEN 0 ELSE @]
      PROVE  /\ OthersLocks(p) /\ Touched
             /\ \A k \in LockIds : lock[k] # NoLock =>
                  lock'[k].buffer = lock[k].buffer /\ lock'[k].buffer_start = lock[k].buffer_start
  <2>1. PICK seen \in Nat : seen = IF reset THEN 0 ELSE lock[l].seen
    <3>1. lock[l].seen \in Nat
      BY <1>3 DEF LockType
    <3> QED
      BY <3>1
  <2>2. PICK r : r = [lock[l] EXCEPT !.enum = enum, !.seen = seen]
    OBVIOUS
  <2>3. lock' = [lock EXCEPT ![l] = r]
    BY <1>3, <1>5, <2>1, <2>2 DEF FsType
  <2>4. /\ r \in LockType /\ SameHandle(r, lock[l])
        /\ r.buffer = lock[l].buffer /\ r.buffer_start = lock[l].buffer_start
    BY <1>3, <2>2 DEF LockType, SameHandle
  <2>5. OthersLocks(p) /\ \A k \in LockIds : lock'[k] = IF k = l THEN r ELSE lock[k]
    <3>1. \A k \in LockIds : lock'[k] = IF k = l THEN r ELSE lock[k]
      BY <2>3 DEF FsType
    <3> QED
      BY <1>3, <3>1 DEF OthersLocks
  <2>6. Touched
    BY <1>3, <2>3, <2>4, TouchedOne
  <2> QED
    BY <2>4, <2>5, <2>6
<1> QED
  BY <1>1, <1>2, <1>4, <1>5

LEMMA WriteTaken ==
  ASSUME FsType, NEW p \in Procs, action_write(p)
  PROVE  packet'[p].type = "WRITE" /\ UNCHANGED lock
<1>1. PICK l, count, pkt :
        /\ pkt = NewPacket("WRITE", l, <<>>, count, 0)
        /\ packet' = [packet EXCEPT ![p] = pkt] \/ HoldFails(p, pkt)
  BY DEF action_write, Hold
<1> QED
  BY <1>1, NewTypes DEF HoldFails, reply_to_packet, action_write

LEMMA BuffersKept ==
  ASSUME BufferInv, Touched,
         \A k \in LockIds : lock[k] # NoLock =>
           lock'[k].buffer = lock[k].buffer /\ lock'[k].buffer_start = lock[k].buffer_start
  PROVE  BufferInv'
BY DEF BufferInv, Touched, SameHandle

LEMMA ReadPacket ==
  ASSUME SessionInv, SessionInv', OutInv, ReadInv, NEW p \in Procs, process_fs_packet(p)
  PROVE  ReadInv'
<1>0. FsType /\ BufferInv
  BY DEF SessionInv, TypeInv, ReadInv
<1>1. Room(p) /\ PacketStep(p) /\ answers' = answers
  BY PacketSteps DEF SessionInv
<1>2. OthersLocks(p) /\ BufferInv' /\ ReadOk(p)'
  <2>1. CASE Quiet(p)
    BY <1>0, <2>1, BuffersCalm DEF Quiet, Calm, DataTypes, ReadOk
  <2>2. CASE action_read(p)
    BY <2>2, ReadTaken
  <2>3. CASE action_write(p)
    <3>1. packet'[p].type # "READ" /\ Calm(p)
      BY <1>0, <2>3, WriteTaken, CalmSame
    <3> QED
      BY <1>0, <3>1, BuffersCalm DEF Calm, ReadOk
  <2>4. CASE action_examine_next(p)
    <3>1. packet'[p].type # "READ" /\ OthersLocks(p)
      BY <1>0, <2>4, ExamineTaken
    <3>2. BufferInv'
      BY <1>0, <2>4, ExamineTaken, BuffersKept
    <3> QED
      BY <3>1, <3>2 DEF ReadOk
  <2> QED
    BY <1>0, <2>1, <2>2, <2>3, <2>4, QuietPackets
<1> QED
  BY <1>1, <1>2, ReadPacketFrame

-----------------------------------------------------------------------------
(* What an answer to a read does.                                           *)

(* What remains to be shown of an answer. *)
LEMMA ReadNetworkFrame ==
  ASSUME NEW op, NEW p \in Procs, SessionInv, SessionInv', ReadInv, conn = "up",
         p = op.packet, Waiting(op), CompleteStep(op) \/ RequeueStep(op),
         answers # <<>>, answers' = Tail(answers), OthersLocks(p), BufferInv', ReadOk(p)'
  PROVE  ReadInv'
<1>0. /\ FsType /\ OpInv /\ OpInv' /\ requests \in Seq(RequestType) /\ seqno \in Nat
      /\ answers \in Seq(AnswerType)
  BY DEF SessionInv, TypeInv, ChannelType, FsType
<1>1. PICK pkt \in PacketType : Puts(p, pkt)
  BY DEF CompleteStep, RequeueStep
<1>2. \A i \in DOMAIN answers' : \E j \in DOMAIN answers : answers'[i] = answers[j]
  BY <1>0, TailFacts
<1>3. CASE RequeueStep(op)
  <2>1. PICK new \in OpType, msg \in RequestType :
       /\ pending' = [i \in DOMAIN pending |-> IF pending[i] # op THEN pending[i] ELSE new]
       /\ new.packet = op.packet /\ new.request_seqno = seqno
       /\ transmit_message(msg) /\ seqno' = seqno + 1 /\ Asks(msg, new)'
    BY <1>3 DEF RequeueStep
  <2>2. PICK k \in DOMAIN pending : op = pending[k]
    BY DEF Waiting
  <2>3. OthersWait(p) /\ k \in DOMAIN pending' /\ pending'[k] = new
    <3>1. k \in DOMAIN pending' /\ pending'[k] = new
      BY <1>0, <2>1, <2>2, RequeueFacts
    <3>2. OthersWait(op.packet)
      BY <1>0, <2>1, <2>2, RequeueOthersWait, Zenon
    <3> QED
      BY <3>1, <3>2
  <2>4. msg.seq = seqno
    BY <2>1 DEF Asks
  <2>5. msg.kind = "READ" => ReadAsked(msg.seq, msg.handle, msg.offset)'
    BY <1>0, <2>1, <2>3, NewReadAsked
  <2>6. ASSUME conn' = "up"
        PROVE  /\ seqno' \in Nat /\ seqno' >= seqno
               /\ \A i \in DOMAIN requests' : requests'[i].kind = "READ" =>
                    \/ \E j \in DOMAIN requests : requests'[i] = requests[j]
                    \/ /\ requests'[i].seq < seqno'
                       /\ ReadAsked(requests[i].seq, requests[i].handle, requests[i].offset)'
    <3>1. requests' = Append(requests, msg)
      BY <1>0, <2>1, <2>6, TransmitFacts
    <3>2. \A i \in DOMAIN requests' :
            requests'[i] = msg \/ \E j \in DOMAIN requests : requests'[i] = requests[j]
      BY <1>0, <3>1, SentOne
    <3>3. ASSUME NEW i \in DOMAIN requests', requests'[i].kind = "READ", requests'[i] = msg
          PROVE  /\ requests'[i].seq < seqno'
                 /\ ReadAsked(requests[i].seq, requests[i].handle, requests[i].offset)'
      BY <1>0, <2>1, <2>4, <2>5, <3>3 DEF ReadAsked
    <3>4. seqno' \in Nat /\ seqno' >= seqno
      BY <1>0, <2>1
    <3> QED
      BY <3>1, <3>2, <3>3, <3>4
  <2> QED
    BY <1>1, <1>2, <2>3, <2>6, ReadHandler
<1>4. CASE CompleteStep(op)
  <2>1. OthersWait(p)
    BY <1>0, <1>4, CompleteOthersWait DEF CompleteStep
  <2>2. ASSUME conn' = "up"
        PROVE  /\ seqno' \in Nat /\ seqno' >= seqno
               /\ \A i \in DOMAIN requests' : requests'[i].kind = "READ" =>
                    \E j \in DOMAIN requests : requests'[i] = requests[j]
    <3>1. CASE NothingSent
      BY <1>0, <3>1 DEF NothingSent
    <3>2. CASE /\ Received.kind = "OPEN" /\ seqno' = seqno + 1
               /\ transmit_message(CloseRequest(seqno, Received.handle))
      <4>1. PICK h \in Int : h = Received.handle
        <5>1. Received \in AnswerType
          BY <1>0, HeadTailProperties DEF Received
        <5> QED
          BY <3>2, <5>1, OpenAnswered
      <4>2. PICK msg \in RequestType : msg = CloseRequest(seqno, h) /\ msg.kind = "CLOSE"
        BY <1>0, CloseMessage
      <4>3. requests' = Append(requests, msg)
        BY <1>0, <2>2, <3>2, <4>1, <4>2, TransmitFacts
      <4>4. \A i \in DOMAIN requests' :
              requests'[i] = msg \/ \E j \in DOMAIN requests : requests'[i] = requests[j]
        BY <1>0, <4>3, SentOne
      <4> QED
        BY <1>0, <3>2, <4>2, <4>4
    <3>3. CASE UNCHANGED <<lock, requests, seqno>> /\ conn' = "failed"
      BY <2>2, <3>3
    <3> QED
      BY <1>4, <3>1, <3>2, <3>3 DEF CompleteStep
  <2> QED
    BY <1>1, <1>2, <2>1, <2>2, ReadHandler
<1> QED
  BY <1>3, <1>4

(* What complete_read leaves behind, when the answer has the bytes that     *)
(* follow those the program has got.                                        *)
LEMMA ReadFinished ==
  ASSUME NEW op, NEW p \in Procs, SessionInv, ReadInv, p = op.packet, Waiting(op),
         Received \in AnswerType, Received.kind = "READ", packet[p].type = "READ",
         lock[packet[p].arg].path \in DOMAIN Tree,
         Received.data = FileBytes(lock[packet[p].arg].path, lock[packet[p].arg].offset, Chunk),
         complete_read(op)
  PROVE  OthersLocks(p) /\ BufferInv' /\ ReadOk(p)'
<1>0. FsType /\ BufferInv
  BY DEF SessionInv, TypeInv, ReadInv
<1>1. PICK pkt \in PacketType : pkt = packet[p]
  BY DEF Waiting
<1>2. PICK l \in LockIds : l = pkt.arg /\ OwnLock(p, l, TRUE)
  BY <1>1 DEF Waiting, ArgOk, OwnLock
<1>3. PICK h \in LockType : h = lock[l]
  BY <1>0, <1>2, LockTypes DEF OwnLock
<1>4. /\ pkt.state = "held" /\ pkt.type = "READ" /\ pkt.data \in Seq(Byte)
      /\ pkt.count \in Nat /\ Len(pkt.data) \in Nat /\ Len(pkt.data) <= pkt.count
      /\ pkt.from \in Nat /\ h.offset \in Nat /\ Chunk \in Nat /\ h.path \in DOMAIN Tree
      /\ Tree[h.path].size \in Nat
  BY <1>1, <1>2, <1>3, LenProperties, TreeAssumption DEF Waiting, ArgOk, PacketType, Byte, LockType
<1>5. InFile(h.path, pkt.from, pkt.data) /\ h.offset = pkt.from + Len(pkt.data)
  BY <1>1, <1>2, <1>3, <1>4 DEF ReadInv, ReadOk, Partly
<1>6. PICK old \in Seq(Byte), new \in Seq(Byte), from \in Nat :
        old = pkt.data /\ new = Received.data /\ from = pkt.from
  <2>1. Received.data \in Seq(Byte)
    BY DEF AnswerType
  <2> QED
    BY <1>4, <2>1
<1>7. PICK path \in DOMAIN Tree, count \in Nat : path = h.path /\ count = pkt.count
  BY <1>4
<1>8. Continued(path, from, old, count, new)
  <2>1. /\ InFile(path, from, old) /\ Len(old) <= count
        /\ new = FileBytes(path, from + Len(old), Chunk)
    BY <1>1, <1>2, <1>3, <1>4, <1>5, <1>6, <1>7
  <2> QED
    BY <2>1, ContinuedRun
<1>9. PICK slice \in Nat :
        /\ slice = Min2(count - Len(old), Len(new))
        /\ \E data \in Seq(Byte), rest \in Seq(Byte) :
             /\ data = old \o SubSeq(new, 1, slice)
             /\ rest = SubSeq(new, slice + 1, Len(new))
             /\ Len(data) = Len(old) + slice /\ Len(data) <= count
             /\ InFile(path, from, data) /\ InFile(path, from + Len(old) + slice, rest)
             /\ Len(data) = count \/ new = <<>> => data = FileBytes(path, from, count)
  BY <1>8 DEF Continued
<1>10. PICK data \in Seq(Byte), rest \in Seq(Byte) :
         /\ data = pkt.data \o SubSeq(new, 1, slice)
         /\ rest = SubSeq(new, slice + 1, Len(new))
         /\ Len(data) = Len(pkt.data) + slice /\ Len(data) <= pkt.count
         /\ InFile(h.path, pkt.from, data) /\ InFile(h.path, h.offset + slice, rest)
         /\ Len(data) = pkt.count \/ new = <<>> => data = FileBytes(h.path, pkt.from, pkt.count)
  BY <1>5, <1>6, <1>7, <1>9
<1>11. PICK offset \in Nat : offset = h.offset + slice /\ offset = pkt.from + Len(data)
  <2>1. Len(data) = Len(pkt.data) + slice
    BY <1>10
  <2>2. h.offset + slice \in Nat /\ h.offset + slice = pkt.from + Len(data)
    BY <1>4, <1>5, <2>1, SMTT(30)
  <2> QED
    BY <2>2
<1>12. IF Len(data) = pkt.count \/ new = <<>>
         THEN /\ lock' = [lock EXCEPT ![l].offset = offset, ![l].buffer_start = offset,
                                      ![l].buffer = rest]
              /\ packet' = [packet EXCEPT ![p] =
                   Replied([pkt EXCEPT !.data = data], Len(data), "0")]
         ELSE /\ lock' = [lock EXCEPT ![l].offset = offset]
              /\ packet' = [packet EXCEPT ![p].data = data]
  BY <1>1, <1>2, <1>3, <1>6, <1>7, <1>9, <1>10, <1>11 DEF complete_read
<1>13. lock[l].owner = p /\ h.fh = TRUE /\ h.owner = p
  BY <1>2, <1>3 DEF OwnLock
<1>14. CASE Len(data) = pkt.count \/ new = <<>>
  <2>1. PICK r : r = [h EXCEPT !.offset = offset, !.buffer_start = offset, !.buffer = rest]
    OBVIOUS
  <2>2. lock' = [lock EXCEPT ![l] = r]
    BY <1>0, <1>3, <1>12, <1>14, <2>1 DEF FsType
  <2>3. /\ r.offset = offset /\ r.buffer_start = offset /\ r.buffer = rest /\ r.path = h.path
        /\ r.owner = h.owner /\ r.fh = h.fh /\ r \in LockType
    BY <2>1 DEF LockType, Byte
  <2>4. OthersLocks(p) /\ \A k \in LockIds : lock'[k] = IF k = l THEN r ELSE lock[k]
    <3>1. \A k \in LockIds : lock'[k] = IF k = l THEN r ELSE lock[k]
      BY <1>0, <2>2 DEF FsType
    <3> QED
      BY <1>13, <3>1 DEF OthersLocks
  <2>5. BufferInv'
    <3>1. InFile(r.path, r.buffer_start, r.buffer)
      BY <1>10, <1>11, <2>3
    <3> QED
      BY <1>0, <2>4, <3>1, BuffersOne
  <2>6. PICK x : x = Replied([pkt EXCEPT !.data = data], Len(data), "0")
    OBVIOUS
  <2>7. /\ x.type = "READ" /\ x.arg = l /\ x.data = data /\ x.from = pkt.from
        /\ x.count = pkt.count /\ x.state = "replied" /\ x.res = Len(data) /\ x.err = "0"
    BY <1>2, <1>4, <2>6 DEF Replied, PacketType
  <2>8. packet'[p] = x
    BY <1>0, <1>12, <1>14, <2>6 DEF FsType
  <2>9. data = FileBytes(h.path, pkt.from, pkt.count)
    BY <1>10, <1>14
  <2>10. OwnLock(p, l, TRUE)' /\ lock'[l] = r
    BY <1>13, <2>3, <2>4, LockTypes DEF OwnLock
  <2> QED
    BY <1>11, <2>3, <2>4, <2>5, <2>7, <2>8, <2>9, <2>10 DEF ReadOk, Wholly, OwnLock
<1>15. CASE ~(Len(data) = pkt.count \/ new = <<>>)
  <2>1. PICK r : r = [h EXCEPT !.offset = offset]
    OBVIOUS
  <2>2. lock' = [lock EXCEPT ![l] = r]
    BY <1>0, <1>3, <1>12, <1>15, <2>1 DEF FsType
  <2>3. /\ r.offset = offset /\ r.buffer_start = h.buffer_start /\ r.buffer = h.buffer
        /\ r.path = h.path
    BY <2>1 DEF LockType
  <2>4. OthersLocks(p) /\ \A k \in LockIds : lock'[k] = IF k = l THEN r ELSE lock[k]
    <3>1. \A k \in LockIds : lock'[k] = IF k = l THEN r ELSE lock[k]
      BY <1>0, <2>2 DEF FsType
    <3> QED
      BY <1>13, <3>1 DEF OthersLocks
  <2>5. BufferInv'
    <3>1. InFile(r.path, r.buffer_start, r.buffer)
      BY <1>0, <1>2, <1>3, <2>3 DEF BufferInv, OwnLock
    <3> QED
      BY <1>0, <2>4, <3>1, BuffersOne
  <2>6. PICK x : x = [pkt EXCEPT !.data = data]
    OBVIOUS
  <2>7. x.arg = l /\ x.data = data /\ x.from = pkt.from /\ x.state = "held"
    BY <1>2, <1>4, <2>6 DEF PacketType
  <2>8. packet'[p] = x
    BY <1>0, <1>1, <1>12, <1>15, <2>6 DEF FsType
  <2>9. Partly(x, r)
    BY <1>10, <1>11, <2>3, <2>7 DEF Partly
  <2>10. Partly(packet'[p], lock'[packet'[p].arg]) /\ packet'[p].state = "held"
    BY <2>4, <2>7, <2>8, <2>9
  <2> QED
    BY <2>4, <2>5, <2>10 DEF ReadOk, Partly
<1> QED
  BY <1>14, <1>15

(* What complete_examine_next changes in its lock, and what it does not. *)
LEMMA ExamineFinished ==
  ASSUME NEW op, NEW p \in Procs, SessionInv, p = op.packet, Waiting(op),
         packet[p].type = "EXAMINE_NEXT", complete_examine_next(op)
  PROVE  /\ packet'[p].type = "EXAMINE_NEXT" /\ OthersLocks(p) /\ Touched
         /\ \A k \in LockIds : lock[k] # NoLock =>
              lock'[k].buffer = lock[k].buffer /\ lock'[k].buffer_start = lock[k].buffer_start
<1>0. FsType
  BY DEF SessionInv, TypeInv
<1>1. PICK pkt \in PacketType : pkt = packet[p]
  BY DEF Waiting
<1>2. PICK l \in LockIds : l = pkt.arg /\ OwnLock(p, l, FALSE)
  BY <1>1 DEF Waiting, ArgOk, OwnLock
<1>3. PICK h \in LockType : h = lock[l] /\ h.owner = p
  BY <1>0, <1>2, LockTypes DEF OwnLock
<1>4. PICK more \in BOOLEAN : more = ~Received.end_of_sequence
  OBVIOUS
<1>5. packet'[p].type = "EXAMINE_NEXT"
  <2>1. PICK data : data = IF more THEN <<Received.entry>> ELSE <<>>
    OBVIOUS
  <2>2. PICK x : x = Replied([pkt EXCEPT !.data = data], IF more THEN 1 ELSE 0,
                             IF more THEN "0" ELSE "NO_MORE_ENTRIES")
    OBVIOUS
  <2>3. packet' = [packet EXCEPT ![p] = x]
    BY <1>0, <1>1, <1>4, <2>1, <2>2 DEF complete_examine_next, FsType
  <2>4. x.type = "EXAMINE_NEXT"
    BY <1>1, <2>2 DEF Replied, PacketType
  <2> QED
    BY <1>0, <2>3, <2>4 DEF FsType
<1>6. PICK r :
        r = [h EXCEPT !.enum = h.enum /\ more, !.seen = IF more THEN h.seen + 1 ELSE h.seen]
  OBVIOUS
<1>7. lock' = [lock EXCEPT ![l] = r]
  BY <1>0, <1>1, <1>2, <1>3, <1>4, <1>6 DEF complete_examine_next, FsType
<1>8. /\ r \in LockType /\ SameHandle(r, lock[l])
      /\ r.buffer = lock[l].buffer /\ r.buffer_start = lock[l].buffer_start
  <2>1. PICK enum \in BOOLEAN : enum = (h.enum /\ more)
    BY Zenon
  <2>2. PICK seen \in Nat : seen = IF more THEN h.seen + 1 ELSE h.seen
    <3>1. h.seen \in Nat
      BY DEF LockType
    <3> QED
      BY <3>1
  <2>3. r = [h EXCEPT !.enum = enum, !.seen = seen]
    BY <1>6, <2>1, <2>2 DEF LockType
  <2> QED
    BY <1>3, <2>3 DEF LockType, SameHandle
<1>9. \A k \in LockIds : lock'[k] = IF k = l THEN r ELSE lock[k]
  BY <1>0, <1>7 DEF FsType
<1>10. Touched
  BY <1>0, <1>2, <1>3, <1>7, <1>8, LockTypes, TouchedOne
<1>11. OthersLocks(p)
  BY <1>3, <1>9 DEF OthersLocks
<1> QED
  BY <1>5, <1>8, <1>9, <1>10, <1>11

LEMMA ReadNetwork ==
  ASSUME SessionInv, SessionInv', OutInv, ReadInv, rl_amigafs_process_network_message
  PROVE  ReadInv'
<1>0. FsType /\ BufferInv /\ answers \in Seq(AnswerType) /\ answers # <<>> /\ conn = "up"
      /\ answers' = Tail(answers) /\ Received \in AnswerType
  BY NetworkSteps DEF SessionInv, TypeInv, ChannelType, ReadInv
<1>1. CASE ~Found
  <2>1. conn' = "failed" /\ UNCHANGED <<packet, lock>>
    BY <1>1, NetworkSteps
  <2> QED
    BY <1>0, <2>1 DEF ReadInv, BufferInv, ReadOk, OwnLock
<1>2. CASE Found
  <2>0. PICK op : op = find_pending_op
    OBVIOUS
  <2>1. PICK p \in Procs : p = op.packet /\ Waiting(op)
    BY <1>2, <2>0, FoundWaits DEF Waiting
  <2>2. CompleteStep(op) \/ RequeueStep(op)
    BY <1>2, <2>0, NetworkSteps
  <2>3. OthersLocks(p) /\ BufferInv' /\ ReadOk(p)'
    <3>1. CASE Quiet(p)
      BY <1>0, <3>1, BuffersCalm DEF Quiet, Calm, DataTypes, ReadOk
    <3>2. CASE FailedStep(op)
      <4>1. PICK err, x :
              /\ err \in DosErrors \ {"0"} /\ packet' = [packet EXCEPT ![p] = x] /\ x = Replied(packet[p], 0, err)
              /\ UNCHANGED lock
        BY <2>1, <3>2 DEF FailedStep
      <4>2. packet'[p] = x /\ x.state = "replied" /\ x.err = err
        BY <1>0, <2>1, <4>1 DEF FsType, Replied, PacketType, Waiting
      <4>3. Calm(p)
        BY <4>1, CalmSame
      <4> QED
        BY <1>0, <4>1, <4>2, <4>3, BuffersCalm DEF Calm, ReadOk
    <3>3. CASE packet[p].type = "READ" /\ complete_read(op) /\ Received.kind = op.expects
      <4>1. Received.kind = "READ" /\ op.expects = "READ"
        BY <2>1, <3>3 DEF Waiting, Waits
      <4>2. PICK k \in DOMAIN pending : op = pending[k] /\ pending[k].request_seqno = Received.seq
        BY <1>0, <1>2, <2>0, FoundOp
      <4>3. Received = answers[1] /\ 1 \in DOMAIN answers
        BY <1>0, TailFacts DEF Received
      <4>4. ReadGot(Received.seq, Received.data)
        BY <1>0, <4>1, <4>3 DEF ReadInv
      <4>5. /\ lock[packet[p].arg].path \in DOMAIN Tree
            /\ Received.data
                 = FileBytes(lock[packet[p].arg].path, lock[packet[p].arg].offset, Chunk)
        BY <2>1, <4>2, <4>4 DEF ReadGot
      <4> QED
        BY <1>0, <2>1, <3>3, <4>1, <4>5, ReadFinished
    <3>4. CASE packet[p].type = "WRITE" /\ complete_write(op)
      <4>1. UNCHANGED lock /\ packet'[p].type = "WRITE"
        <5>1. PICK x : x = packet[p] /\ x \in PacketType
          BY <2>1 DEF Waiting
        <5>2. \/ UNCHANGED packet
              \/ packet' = [packet EXCEPT ![p] = Replied(x, x.count, "0")]
          BY <2>1, <3>4, <5>1 DEF complete_write, Complete, reply_to_packet
        <5>3. Replied(x, x.count, "0").type = x.type
          BY <5>1 DEF Replied, PacketType
        <5> QED
          BY <1>0, <3>4, <5>1, <5>2, <5>3 DEF FsType, complete_write
      <4>2. Calm(p)
        BY <4>1, CalmSame
      <4> QED
        BY <1>0, <4>1, <4>2, BuffersCalm DEF Calm, ReadOk
    <3>5. CASE packet[p].type = "EXAMINE_NEXT" /\ complete_examine_next(op)
      BY <1>0, <2>1, <3>5, ExamineFinished, BuffersKept DEF ReadOk
    <3> QED
      BY <1>2, <2>0, <2>1, <3>1, <3>2, <3>3, <3>4, <3>5, QuietAnswers
  <2> QED
    BY <1>0, <2>1, <2>2, <2>3, ReadNetworkFrame
<1> QED
  BY <1>1, <1>2

(* The virtual output's locks keep their type and handle. *)
LEMMA OutKept ==
  ASSUME OutInv
  PROVE  Touched => OutInv'
BY DEF OutInv, Touched, SameHandle, OutLock

LEMMA OutCalm ==
  ASSUME OutInv, NEW p, Calm(p)
  PROVE  OutInv'
BY DEF OutInv, Calm, SameData, SameHandle, FreshFor, OutLock

LEMMA OutStep ==
  ASSUME SessionInv, OutInv, [Next]_vars
  PROVE  OutInv'
<1>0. FsType
  BY DEF SessionInv, TypeInv
<1>1. ASSUME NEW p \in Procs, process_fs_packet(p) PROVE OutInv'
  <2>1. CASE Quiet(p)
    BY <2>1, OutCalm DEF Quiet
  <2>2. CASE action_read(p)
    <3>1. PICK l, offset :
            l \in Locks(p, TRUE) /\ lock' = [lock EXCEPT ![l].offset = offset]
      BY <2>2 DEF action_read
    <3> QED
      BY <1>0, <3>1, CalmMoved, OutCalm DEF Locks
  <2>3. CASE action_write(p)
    BY <1>0, <2>3, WriteTaken, CalmSame, OutCalm
  <2>4. CASE action_examine_next(p)
    BY <1>0, <2>4, ExamineTaken, OutKept
  <2> QED
    BY <1>0, <1>1, <2>1, <2>2, <2>3, <2>4, QuietPackets
<1>2. CASE NetworkStep
  <2>0. rl_amigafs_process_network_message
    BY <1>2 DEF NetworkStep
  <2>1. CASE ~Found
    <3>1. UNCHANGED lock
      BY <2>0, <2>1, NetworkSteps
    <3> QED
      BY <3>1 DEF OutInv
  <2>2. CASE Found
    <3>0. PICK op : op = find_pending_op
      OBVIOUS
    <3>1. Waiting(op) /\ (CompleteStep(op) \/ RequeueStep(op))
      BY <2>0, <2>2, <3>0, NetworkSteps
    <3>2. CASE Quiet(op.packet)
      BY <3>2, OutCalm DEF Quiet
    <3>3. CASE UNCHANGED lock
      BY <3>3 DEF OutInv
    <3>4. CASE Received.kind = op.expects /\ packet[op.packet].type \in DataTypes
      <4>1. Received.kind # "OPEN"
        BY <3>1, <3>4 DEF Waiting, Waits, DataTypes
      <4>2. Touched \/ UNCHANGED lock
        BY <3>1, <4>1 DEF CompleteStep, RequeueStep
      <4> QED
        BY <3>3, <4>2, OutKept
    <3> QED
      BY <2>0, <2>2, <3>0, <3>2, <3>3, <3>4, QuietAnswers DEF FailedStep, DataTypes
  <2> QED
    BY <2>1, <2>2
<1>3. CASE ServerStep \/ spawn_failure \/ connection_lost \/ rl_amigafs_destroy \/ UNCHANGED vars
  <2>1. UNCHANGED lock
    BY <1>3 DEF ServerStep, spawn_failure, connection_lost, rl_amigafs_destroy, vars, fsVars
  <2> QED
    BY <2>1 DEF OutInv
<1> QED
  BY <1>1, <1>2, <1>3 DEF Next

LEMMA OutInit ==
  ASSUME Init
  PROVE  OutInv
BY DEF Init, FsInit, OutInv

-----------------------------------------------------------------------------
(* The server reads what the request asks for.                              *)

LEMMA ReadServer ==
  ASSUME SessionInv, OwnInv, NameInv, ReadInv, ServerStep
  PROVE  ReadInv'
<1>0. /\ TypeInv /\ requests \in Seq(RequestType) /\ answers \in Seq(AnswerType)
      /\ conn = "up" /\ UNCHANGED <<lock, conn, pending, packet, seqno>> /\ rl_file_serve
  BY DEF SessionInv, TypeInv, ChannelType, ServerStep, fsVars
<1>1. PICK m : m = Request
  OBVIOUS
<1>2. /\ m \in RequestType /\ requests # <<>> /\ requests' = Tail(requests)
      /\ \/ m.kind # "CLOSE" /\ \E a \in AnswerType : Answers(m, a) /\ answers' = Append(answers, a)
         \/ m.kind = "CLOSE" /\ answers' = answers
  BY <1>0, <1>1, ServerStepServes DEF Serves
<1>3. /\ 1 \in DOMAIN requests /\ m = requests[1]
      /\ \A i \in DOMAIN requests' : \E j \in DOMAIN requests : requests'[i] = requests[j]
  BY <1>0, <1>1, <1>2, TailFacts DEF Request
<1>4. BufferInv' /\ \A p \in Procs : ReadOk(p)'
  BY <1>0 DEF ReadInv, BufferInv, ReadOk, OwnLock
<1>5. ASSUME NEW i \in DOMAIN requests', requests'[i].kind = "READ"
      PROVE  /\ requests'[i].seq < seqno'
             /\ ReadAsked(requests[i].seq, requests[i].handle, requests[i].offset)'
  BY <1>0, <1>3, <1>5 DEF ReadInv, ReadAsked
<1>6. ASSUME NEW i \in DOMAIN answers', answers'[i].kind = "READ"
      PROVE  answers'[i].seq < seqno' /\ ReadGot(answers[i].seq, answers[i].data)'
  <2>1. CASE \E j \in DOMAIN answers : answers'[i] = answers[j]
    BY <1>0, <1>6, <2>1 DEF ReadInv, ReadGot
  <2>2. ASSUME NEW a \in AnswerType, Answers(m, a), answers' = Append(answers, a), answers'[i] = a
        PROVE  answers'[i].seq < seqno' /\ ReadGot(answers[i].seq, answers[i].data)'
    <3>1. m.kind = "READ" /\ a.kind = "READ" /\ a.seq = m.seq
      BY <1>2, <1>6, <2>2 DEF Answers, RequestType
    <3>2. m.seq < seqno /\ ReadAsked(m.seq, m.handle, m.offset) /\ m.seq \in Nat /\ m.offset \in Nat
      BY <1>0, <1>2, <1>3, <3>1 DEF ReadInv, RequestType
    <3>3. read_file_succeeds
      <4>1. read_file_refused \/ read_file_fails \/ read_file_succeeds
        BY <1>0, <1>1, <3>1 DEF rl_file_serve, read_file_request
      <4>2. ASSUME NEW code, reply_with_error(code) PROVE FALSE
        <5>1. answers' = Append(answers, ErrorAnswer(m.seq, code))
          BY <1>1, <4>2 DEF reply_with_error, Answer
        <5>2. PICK e : e = ErrorAnswer(m.seq, code)
          OBVIOUS
        <5>3. a = e
          BY <1>0, <2>2, <5>1, <5>2, AppendLast
        <5>4. e.kind = "ERROR"
          BY <5>2 DEF ErrorAnswer
        <5> QED
          BY <3>1, <5>3, <5>4
      <4> QED
        BY <4>1, <4>2 DEF read_file_refused, read_file_fails
    <3>4. PICK path : path = slot[m.handle].path
      OBVIOUS
    <3>5. /\ m.handle \in HandleIds /\ slot[m.handle].handle = 1
          /\ answers' = Append(answers, ReadAnswer(m.seq, FileBytes(path, m.offset, Chunk)))
      BY <1>1, <3>3, <3>4 DEF read_file_succeeds, Answer
    <3>6. path \in DOMAIN Tree
      BY <1>0, <3>4, <3>5 DEF TypeInv, ServerType
    <3>7. a.data = FileBytes(path, m.offset, Chunk)
      <4>1. PICK e : e = ReadAnswer(m.seq, FileBytes(path, m.offset, Chunk))
        OBVIOUS
      <4>2. answers' = Append(answers, e)
        BY <3>5, <4>1
      <4>3. a = e
        BY <1>0, <2>2, <4>2, AppendLast
      <4> QED
        BY <4>1, <4>3 DEF ReadAnswer
    <3>8. ASSUME NEW k \in DOMAIN pending, pending[k].request_seqno = m.seq
          PROVE  /\ pending[k].expects = "READ"
                 /\ lock[packet[pending[k].packet].arg].path = path
                 /\ lock[packet[pending[k].packet].arg].offset = m.offset
      <4>1. PICK l : l = packet[pending[k].packet].arg
        OBVIOUS
      <4>2. pending[k].expects = "READ" /\ m.handle = lock[l].handle_id /\ m.offset = lock[l].offset
        BY <3>2, <3>8, <4>1 DEF ReadAsked
      <4>3. pending[k].packet \in Held /\ packet[pending[k].packet].type = "READ"
        BY <3>8, <4>2 DEF SessionInv, OpInv, Waits
      <4>4. l \in LockIds /\ lock[l] # NoLock
        BY <4>1, <4>3 DEF SessionInv, ArgInv, ArgOk, OwnLock
      <4>5. Named(l)
        BY <1>0, <3>5, <4>2, <4>4 DEF NameInv, Holding
      <4> QED
        BY <3>4, <4>1, <4>2, <4>5 DEF Named
    <3> QED
      BY <1>0, <2>2, <3>1, <3>2, <3>6, <3>7, <3>8 DEF ReadGot
  <2>3. ASSUME NEW a \in AnswerType, answers' = Append(answers, a), answers'[i] # a
        PROVE  \E j \in DOMAIN answers : answers'[i] = answers[j]
    <3>1. /\ DOMAIN answers = 1 .. Len(answers) /\ Len(answers) \in Nat
          /\ DOMAIN answers' = 1 .. Len(answers) + 1 /\ answers'[Len(answers) + 1] = a
          /\ \A k \in DOMAIN answers : answers'[k] = answers[k]
      BY <1>0, <2>3, AppendFacts
    <3> QED
      BY <2>3, <3>1
  <2> QED
    BY <1>2, <2>1, <2>2, <2>3
<1> QED
  BY <1>4, <1>5, <1>6 DEF ReadInv

(* spawn_failure sends an error answer of its own; no data travels with it. *)
LEMMA SpawnSends ==
  ASSUME SessionInv, spawn_failure
  PROVE  /\ conn = "up" /\ UNCHANGED <<answers, fsVars, serverVars>>
         /\ \A i \in DOMAIN requests' :
              \/ requests'[i].kind = "ERROR" /\ requests'[i].seq = 0
              \/ \E j \in DOMAIN requests : requests'[i] = requests[j]
<1>1. requests \in Seq(RequestType)
  BY DEF SessionInv, TypeInv, ChannelType
<1>2. PICK msg : msg = ErrorAnswer(0, "SPAWN_FAILURE")
  OBVIOUS
<1>3. msg \in RequestType /\ msg.kind = "ERROR" /\ msg.seq = 0
  BY <1>2 DEF ErrorAnswer, RequestType, NetErrors
<1>4. requests' = Append(requests, msg)
  BY <1>2 DEF spawn_failure
<1>5. \A i \in DOMAIN requests' :
        requests'[i] = msg \/ \E j \in DOMAIN requests : requests'[i] = requests[j]
  BY <1>1, <1>3, <1>4, SentOne
<1>6. conn = "up" /\ UNCHANGED <<answers, fsVars, serverVars>>
  BY DEF spawn_failure
<1> QED
  BY <1>3, <1>5, <1>6

LEMMA ReadInvStep ==
  ASSUME SessionInv, OwnInv, NameInv, OutInv, ReadInv, [Next]_vars
  PROVE  ReadInv'
<1>0. SessionInv'
  BY SessionStep
<1>1. ASSUME NEW p \in Procs, process_fs_packet(p) PROVE ReadInv'
  BY <1>0, <1>1, ReadPacket
<1>2. CASE NetworkStep
  <2>1. rl_amigafs_process_network_message
    BY <1>2 DEF NetworkStep
  <2> QED
    BY <1>0, <2>1, ReadNetwork, Zenon
<1>3. CASE ServerStep
  BY <1>3, ReadServer
<1>4. CASE spawn_failure
  <2>1. /\ conn = "up" /\ UNCHANGED <<answers, packet, lock, pending, seqno, conn>>
        /\ \A i \in DOMAIN requests' :
             \/ requests'[i].kind = "ERROR" /\ requests'[i].seq = 0
             \/ \E j \in DOMAIN requests : requests'[i] = requests[j]
    BY <1>4, SpawnSends DEF fsVars
  <2>2. BufferInv' /\ \A p \in Procs : ReadOk(p)'
    BY <2>1 DEF ReadInv, BufferInv, ReadOk, OwnLock
  <2>3. ASSUME NEW i \in DOMAIN requests', requests'[i].kind = "READ"
        PROVE  /\ requests'[i].seq < seqno'
               /\ ReadAsked(requests[i].seq, requests[i].handle, requests[i].offset)'
    BY <2>1, <2>3 DEF ReadInv, ReadAsked
  <2>4. ASSUME NEW i \in DOMAIN answers', answers'[i].kind = "READ"
        PROVE  answers'[i].seq < seqno' /\ ReadGot(answers[i].seq, answers[i].data)'
    BY <2>1, <2>4 DEF ReadInv, ReadGot
  <2> QED
    BY <2>2, <2>3, <2>4 DEF ReadInv
<1>5. CASE connection_lost \/ rl_amigafs_destroy
  <2>1. conn' # "up" /\ UNCHANGED <<packet, lock>>
    BY <1>5 DEF connection_lost, rl_amigafs_destroy
  <2>2. BufferInv' /\ \A p \in Procs : ReadOk(p)'
    BY <2>1 DEF ReadInv, BufferInv, ReadOk, OwnLock
  <2> QED
    BY <2>1, <2>2 DEF ReadInv
<1>6. CASE UNCHANGED vars
  <2>1. UNCHANGED <<requests, answers, packet, lock, pending, seqno, conn>>
    BY <1>6 DEF vars, channels, fsVars
  <2> QED
    BY <2>1 DEF ReadInv, BufferInv, ReadOk, OwnLock, ReadAsked, ReadGot
<1> QED
  BY <1>1, <1>2, <1>3, <1>4, <1>5, <1>6 DEF Next

LEMMA ReadInit ==
  ASSUME Init
  PROVE  ReadInv
<1>1. DOMAIN requests = {} /\ DOMAIN answers = {} /\ \A l \in LockIds : lock[l] = NoLock
  BY DEF Init, FsInit
<1>2. \A p \in Procs : packet[p].type = "NONE"
  BY DEF Init, FsInit, Idle
<1> QED
  BY <1>1, <1>2 DEF ReadInv, BufferInv, ReadOk

(* ReadCorrect: a read that succeeds has returned the bytes of the file     *)
(* that start at the position the handle had when the packet was sent, as   *)
(* many as asked for unless the file ends, and has moved the position       *)
(* behind them, whatever part came out of the read buffer and however many  *)
(* answers the rest took (action_read, complete_read).  The invariant says  *)
(* that every buffer is a run of the file's bytes, that a held read has a   *)
(* run that ends at the handle's position, and that the message under way   *)
(* for it asks for, or carries, the bytes from there on.  DupLock           *)
(* (action_copy_dir), which lets a handle be reused under a lock, is        *)
(* excluded.                                                                *)
THEOREM ReadsReturnTheFilesBytes ==
  ASSUME "COPY_DIR" \notin Ops
  PROVE  Spec => []ReadCorrect
<1>1. Init => OwnInv /\ NameInv /\ OutInv /\ ReadInv
  BY OwnInit, NameInit, OutInit, ReadInit
<1>2. SessionInv /\ OwnInv /\ NameInv /\ OutInv /\ ReadInv /\ [Next]_vars
        => OwnInv' /\ NameInv' /\ OutInv' /\ ReadInv'
  <2> SUFFICES ASSUME SessionInv, OwnInv, NameInv, OutInv, ReadInv, [Next]_vars
               PROVE  OwnInv' /\ NameInv' /\ OutInv' /\ ReadInv'
    OBVIOUS
  <2>1. OwnInv' /\ NameInv'
    BY OwnStep, NameStep, Zenon
  <2>2. OutInv' /\ ReadInv'
    BY OutStep, ReadInvStep, Zenon
  <2> QED
    BY <2>1, <2>2
<1>3. ReadInv => ReadCorrect
  BY DEF ReadInv, ReadOk, Wholly, ReadCorrect
<1> QED
  BY <1>1, <1>2, <1>3, SessionInvariant, PTL DEF Spec

-----------------------------------------------------------------------------
(* What a write has printed.                                                *)

IsWrite(m) == m.kind = "WRITE"

(* The first n bytes of q's write, to the virtual output, have been printed.*)
Printed(q, n) ==
  lock[packet[q].arg].type = "VIRTUAL_OUTPUT" => stdout[q] = WriteData(0, n)

WriteReplied(q) ==
  packet[q].type = "WRITE" /\ packet[q].state = "replied" /\ packet[q].err = "0"

WriteOk(q) ==
  WriteReplied(q) =>
    /\ OwnLock(q, packet[q].arg, TRUE)
    /\ packet[q].res = packet[q].count /\ Printed(q, packet[q].count)

(* The operation with m's number, if there is one, is the write m carries   *)
(* on with.                                                                 *)
WriteAsked(m) ==
  \A k \in DOMAIN pending : pending[k].request_seqno = m.seq =>
    LET op == pending[k]
    IN  /\ op.expects = "WRITE" /\ m.writer = op.packet
        /\ m.handle = lock[packet[op.packet].arg].handle_id
        /\ m.source = op.source /\ m.data = WriteData(op.source, op.length)
        /\ op.source # 0 => Printed(op.packet, op.source)

(* The part of the write that the operation stands for has been printed.    *)
WriteDone(seq) ==
  \A k \in DOMAIN pending : pending[k].request_seqno = seq =>
    /\ pending[k].expects = "WRITE"
    /\ Printed(pending[k].packet, pending[k].source + pending[k].length)

PartInv ==
  \A k \in DOMAIN pending : pending[k].expects = "WRITE" =>
    pending[k].source + pending[k].length <= packet[pending[k].packet].count

MessagesOk ==
  /\ \A i \in DOMAIN requests : IsWrite(requests[i]) =>
       requests[i].seq < seqno /\ WriteAsked(requests[i])
  /\ \A i \in DOMAIN answers : IsWrite(answers[i]) =>
       answers[i].seq < seqno /\ WriteDone(answers[i].seq)

(* Writes travel in the order of their numbers, ...                         *)
WritesInOrder ==
  /\ \A i, j \in DOMAIN requests :
       IsWrite(requests[i]) /\ IsWrite(requests[j]) /\ i < j => requests[i].seq < requests[j].seq
  /\ \A i \in DOMAIN requests, j \in DOMAIN answers :
       IsWrite(requests[i]) /\ IsWrite(answers[j]) => answers[j].seq < requests[i].seq

(* ... none is newer than what its writer waits for, and one that carries   *)
(* on is the only one of its writer.                                        *)
WritersWait ==
  /\ \A i \in DOMAIN requests : IsWrite(requests[i]) =>
       /\ ~WriteReplied(requests[i].writer)
       /\ \A k \in DOMAIN pending : pending[k].packet = requests[i].writer =>
            requests[i].seq <= pending[k].request_seqno
  /\ \A i, j \in DOMAIN requests, k \in DOMAIN pending :
       (/\ IsWrite(requests[i]) /\ IsWrite(requests[j])
        /\ requests[i].writer = requests[j].writer
        /\ pending[k].request_seqno = requests[i].seq /\ pending[k].source # 0)
       => i = j

WriteInv ==
  /\ PartInv
  /\ \A q \in Procs : WriteOk(q)
  /\ conn = "up" => MessagesOk /\ WritesInOrder /\ WritersWait

WrittenBy(p) == {i \in DOMAIN requests : IsWrite(requests[i]) /\ requests[i].writer = p}

LEMMA WriteAskedKept ==
  ASSUME SessionInv, NEW p \in Procs, NEW pkt \in PacketType, Puts(p, pkt), OthersLocks(p),
         OthersWait(p), UNCHANGED stdout
  PROVE  /\ \A m : m.seq < seqno /\ m.seq \in Nat /\ WriteAsked(m) => WriteAsked(m)'
         /\ \A seq \in Nat : seq < seqno /\ WriteDone(seq) => WriteDone(seq)'
<1>1. ASSUME NEW seq \in Nat, seq < seqno, NEW j \in DOMAIN pending', pending'[j].request_seqno = seq
      PROVE  \E k \in DOMAIN pending : pending'[j] = pending[k] /\ pending[k].packet # p
  <2>1. seqno \in Nat
    BY DEF SessionInv, TypeInv, FsType
  <2> QED
    BY <1>1, <2>1 DEF OthersWait
<1>2. ASSUME NEW k \in DOMAIN pending, pending[k].expects = "WRITE", pending[k].packet # p
      PROVE  /\ packet'[pending[k].packet] = packet[pending[k].packet]
             /\ lock'[packet[pending[k].packet].arg] = lock[packet[pending[k].packet].arg]
  BY <1>2, WaitersKept
<1>3. ASSUME NEW m, m.seq < seqno, m.seq \in Nat, WriteAsked(m) PROVE WriteAsked(m)'
  BY <1>1, <1>2, <1>3 DEF WriteAsked, Printed
<1>4. ASSUME NEW seq \in Nat, seq < seqno, WriteDone(seq) PROVE WriteDone(seq)'
  BY <1>1, <1>2, <1>4 DEF WriteDone, Printed
<1> QED
  BY <1>3, <1>4

LEMMA WriteOkKept ==
  ASSUME SessionInv, NEW p \in Procs, NEW pkt \in PacketType, Puts(p, pkt), OthersLocks(p),
         UNCHANGED stdout, NEW q \in Procs, q # p, WriteOk(q)
  PROVE  WriteOk(q)'
<1>1. packet'[q] = packet[q]
  BY HeldChanges DEF SessionInv, TypeInv
<1>2. ASSUME WriteReplied(q)' PROVE lock'[packet[q].arg] = lock[packet[q].arg] /\ WriteReplied(q)
  BY <1>1, <1>2 DEF WriteReplied, WriteOk, OwnLock, OthersLocks
<1> QED
  BY <1>1, <1>2 DEF WriteOk, WriteReplied, OwnLock, Printed

(* A write that the handler sends for p. *)
NewWrite(p, msg) ==
  /\ msg.seq = seqno /\ seqno' = seqno + 1 /\ msg.writer = p /\ WriteAsked(msg)'
  /\ msg.source # 0 => WrittenBy(p) = {}
  /\ ~WriteReplied(p)'

WriteSent(p) ==
  \/ requests' = requests
  \/ \E msg \in RequestType : requests' = Append(requests, msg) /\ (IsWrite(msg) => NewWrite(p, msg))

AnswersLeft == \E d \in {0, 1} :
  \A i \in DOMAIN answers' : i + d \in DOMAIN answers /\ answers'[i] = answers[i + d]

LEMMA MessagesKept ==
  ASSUME SessionInv, NEW p \in Procs, NEW pkt \in PacketType, Puts(p, pkt), OthersLocks(p),
         OthersWait(p), UNCHANGED stdout, MessagesOk, WriteSent(p), AnswersLeft,
         seqno' \in Nat, seqno' >= seqno
  PROVE  MessagesOk'
<1>0. /\ requests \in Seq(RequestType) /\ seqno \in Nat
      /\ \A i \in DOMAIN requests : requests[i] \in RequestType /\ requests[i].seq \in Nat
      /\ \A i \in DOMAIN answers : answers[i] \in AnswerType /\ answers[i].seq \in Nat
  <2>1. requests \in Seq(RequestType) /\ answers \in Seq(AnswerType) /\ seqno \in Nat
    BY DEF SessionInv, TypeInv, ChannelType, FsType
  <2>2. \A m \in RequestType : m.seq \in Nat
    BY DEF RequestType
  <2>3. \A a \in AnswerType : a.seq \in Nat
    BY DEF AnswerType
  <2> QED
    BY <2>1, <2>2, <2>3
<1>1. ASSUME NEW i \in DOMAIN requests', IsWrite(requests'[i])
      PROVE  requests'[i].seq < seqno' /\ WriteAsked(requests[i])'
  <2>1. CASE \E j \in DOMAIN requests : requests'[i] = requests[j]
    <3>1. PICK j \in DOMAIN requests : requests'[i] = requests[j]
      BY <2>1
    <3>2. PICK m : m = requests[j]
      OBVIOUS
    <3>3. m.seq < seqno /\ m.seq \in Nat /\ WriteAsked(m)
      BY <1>0, <1>1, <3>1, <3>2 DEF MessagesOk
    <3>4. WriteAsked(m)'
      BY <3>3, WriteAskedKept
    <3> QED
      BY <1>0, <3>1, <3>2, <3>3, <3>4 DEF WriteAsked
  <2>2. ASSUME NEW msg \in RequestType, requests' = Append(requests, msg),
               IsWrite(msg) => NewWrite(p, msg)
        PROVE  \/ requests'[i].seq < seqno' /\ WriteAsked(requests[i])'
               \/ \E j \in DOMAIN requests : requests'[i] = requests[j]
    <3>1. requests'[i] = msg \/ \E j \in DOMAIN requests : requests'[i] = requests[j]
      BY <1>0, <2>2, SentOne
    <3>2. ASSUME requests'[i] = msg
          PROVE  requests'[i].seq < seqno' /\ WriteAsked(requests[i])'
      BY <1>0, <1>1, <2>2, <3>2 DEF NewWrite, WriteAsked
    <3> QED
      BY <3>1, <3>2
  <2> QED
    BY <2>1, <2>2 DEF WriteSent
<1>2. ASSUME NEW i \in DOMAIN answers', IsWrite(answers'[i])
      PROVE  answers'[i].seq < seqno' /\ WriteDone(answers[i].seq)'
  <2>1. PICK j \in DOMAIN answers : answers'[i] = answers[j]
    BY DEF AnswersLeft
  <2>2. PICK seq \in Nat : seq = answers[j].seq
    BY <1>0
  <2>3. seq < seqno /\ WriteDone(seq)
    BY <1>2, <2>1, <2>2 DEF MessagesOk
  <2>4. WriteDone(seq)'
    BY <2>3, WriteAskedKept
  <2> QED
    BY <1>0, <2>1, <2>2, <2>3, <2>4 DEF WriteDone
<1> QED
  BY <1>1, <1>2 DEF MessagesOk

LEMMA OrderKept ==
  ASSUME SessionInv, NEW p, MessagesOk, WritesInOrder, WriteSent(p), AnswersLeft
  PROVE  WritesInOrder'
<1>0. /\ requests \in Seq(RequestType) /\ answers \in Seq(AnswerType)
      /\ DOMAIN requests = 1 .. Len(requests) /\ Len(requests) \in Nat
  BY DEF SessionInv, TypeInv, ChannelType
<1>1. ASSUME NEW i \in DOMAIN answers'
      PROVE  \E j \in DOMAIN answers : answers'[i] = answers[j]
  BY DEF AnswersLeft
<1>2. CASE requests' = requests
  BY <1>1, <1>2 DEF WritesInOrder
<1>3. ASSUME NEW msg \in RequestType, requests' = Append(requests, msg),
             IsWrite(msg) => NewWrite(p, msg)
      PROVE  WritesInOrder'
  <2>1. /\ DOMAIN requests' = 1 .. Len(requests) + 1 /\ requests'[Len(requests) + 1] = msg
        /\ \A i \in DOMAIN requests : requests'[i] = requests[i]
    BY <1>0, <1>3, AppendFacts
  <2>2. ASSUME NEW i, NEW j, i \in DOMAIN requests', j \in DOMAIN requests', IsWrite(requests'[i]),
               IsWrite(requests'[j]), i < j
        PROVE  requests'[i].seq < requests'[j].seq
    <3>1. i \in DOMAIN requests
      BY <1>0, <2>1, <2>2
    <3>2. CASE j \in DOMAIN requests
      BY <2>1, <2>2, <3>1, <3>2 DEF WritesInOrder
    <3>3. CASE j = Len(requests) + 1
      BY <1>3, <2>1, <2>2, <3>1, <3>3 DEF MessagesOk, NewWrite
    <3> QED
      BY <1>0, <2>1, <2>2, <3>2, <3>3
  <2>3. ASSUME NEW i, NEW j, i \in DOMAIN requests', j \in DOMAIN answers', IsWrite(requests'[i]),
               IsWrite(answers'[j])
        PROVE  answers'[j].seq < requests'[i].seq
    <3>1. PICK k \in DOMAIN answers : answers'[j] = answers[k]
      BY <1>1, <2>3
    <3>2. CASE i \in DOMAIN requests
      BY <2>1, <2>3, <3>1, <3>2 DEF WritesInOrder
    <3>3. CASE i = Len(requests) + 1
      BY <1>3, <2>1, <2>3, <3>1, <3>3 DEF MessagesOk, NewWrite
    <3> QED
      BY <1>0, <2>1, <2>3, <3>2, <3>3
  <2> QED
    BY <2>2, <2>3 DEF WritesInOrder
<1> QED
  BY <1>2, <1>3 DEF WriteSent

LEMMA WaitKept ==
  ASSUME SessionInv, NEW p \in Procs, NEW pkt \in PacketType, Puts(p, pkt), OthersWait(p),
         MessagesOk, WritersWait, WriteSent(p), WriteReplied(p)' => WrittenBy(p) = {}
  PROVE  WritersWait'
<1>0. /\ requests \in Seq(RequestType) /\ FsType /\ seqno \in Nat
      /\ DOMAIN requests = 1 .. Len(requests) /\ Len(requests) \in Nat
      /\ \A i \in DOMAIN requests : requests[i] \in RequestType /\ requests[i].seq \in Nat
  BY DEF SessionInv, TypeInv, ChannelType, FsType, RequestType
<1>1. \A q \in Procs : q # p => packet'[q] = packet[q]
  BY <1>0, HeldChanges
<1>2. ASSUME NEW i \in DOMAIN requests, IsWrite(requests[i])
      PROVE  /\ \A q : q = requests[i].writer => ~WriteReplied(q)'
             /\ \A k \in DOMAIN pending' : pending'[k].packet = requests[i].writer =>
                  requests[i].seq <= pending'[k].request_seqno
  <2>1. requests[i].writer \in Procs /\ requests[i].seq < seqno
    BY <1>0, <1>2 DEF IsWrite, RequestType, MessagesOk
  <2>2. CASE requests[i].writer = p
    <3>1. ~WriteReplied(p)'
      BY <1>2, <2>2 DEF WrittenBy
    <3>2. ASSUME NEW k \in DOMAIN pending', pending'[k].packet = p
          PROVE  requests[i].seq <= pending'[k].request_seqno
      BY <1>0, <2>1, <3>2 DEF OthersWait
    <3> QED
      BY <2>2, <3>1, <3>2
  <2>3. CASE requests[i].writer # p
    <3>1. ~WriteReplied(requests[i].writer)
      BY <1>2 DEF WritersWait
    <3>2. ASSUME NEW q, q = requests[i].writer PROVE ~WriteReplied(q)'
      BY <1>1, <2>1, <2>3, <3>1, <3>2 DEF WriteReplied
    <3>3. ASSUME NEW k \in DOMAIN pending', pending'[k].packet = requests[i].writer
          PROVE  requests[i].seq <= pending'[k].request_seqno
      BY <1>0, <1>2, <2>1, <2>3, <3>3 DEF OthersWait, WritersWait
    <3> QED
      BY <3>2, <3>3
  <2> QED
    BY <2>2, <2>3
<1>3. ASSUME NEW i \in DOMAIN requests, NEW j \in DOMAIN requests, NEW k \in DOMAIN pending',
             IsWrite(requests[i]), IsWrite(requests[j]), requests[i].writer = requests[j].writer,
             pending'[k].request_seqno = requests[i].seq, pending'[k].source # 0
      PROVE  i = j
  <2>1. requests[i].seq < seqno
    BY <1>3 DEF MessagesOk
  <2>2. PICK n \in DOMAIN pending : pending'[k] = pending[n]
    BY <1>0, <1>3, <2>1 DEF OthersWait
  <2> QED
    BY <1>3, <2>2 DEF WritersWait
<1>4. CASE requests' = requests
  BY <1>2, <1>3, <1>4 DEF WritersWait, WriteReplied
<1>5. ASSUME NEW msg \in RequestType, requests' = Append(requests, msg),
             IsWrite(msg) => NewWrite(p, msg)
      PROVE  WritersWait'
  <2>1. /\ DOMAIN requests' = 1 .. Len(requests) + 1 /\ requests'[Len(requests) + 1] = msg
        /\ \A i \in DOMAIN requests : requests'[i] = requests[i]
    BY <1>0, <1>5, AppendFacts
  <2>2. ASSUME NEW i \in DOMAIN requests', IsWrite(requests'[i])
        PROVE  /\ ~WriteReplied(requests[i].writer)'
               /\ \A k \in DOMAIN pending' : pending'[k].packet = requests'[i].writer =>
                    requests'[i].seq <= pending'[k].request_seqno
    <3>1. CASE i \in DOMAIN requests
      BY <1>2, <2>1, <2>2, <3>1 DEF WriteReplied
    <3>2. CASE requests'[i] = msg
      <4>1. NewWrite(p, msg)
        BY <1>5, <2>2, <3>2
      <4>2. ASSUME NEW k \in DOMAIN pending', pending'[k].packet = p
            PROVE  seqno <= pending'[k].request_seqno
        BY <1>0, <4>2 DEF OthersWait
      <4> QED
        BY <3>2, <4>1, <4>2 DEF NewWrite, WriteReplied
    <3> QED
      BY <1>0, <2>1, <2>2, <3>1, <3>2
  <2>3. ASSUME NEW i \in DOMAIN requests', NEW j \in DOMAIN requests', NEW k \in DOMAIN pending',
               IsWrite(requests'[i]), IsWrite(requests'[j]),
               requests'[i].writer = requests'[j].writer,
               pending'[k].request_seqno = requests'[i].seq, pending'[k].source # 0
        PROVE  i = j
    <3>1. CASE i \in DOMAIN requests /\ j \in DOMAIN requests
      BY <1>3, <2>1, <2>3, <3>1
    <3>2. CASE i \in DOMAIN requests /\ j = Len(requests) + 1
      <4>1. requests[i].seq < seqno /\ WriteAsked(requests[i]) /\ requests[i].writer = p
        BY <1>5, <2>1, <2>3, <3>2 DEF MessagesOk, NewWrite
      <4>2. PICK n \in DOMAIN pending : pending'[k] = pending[n] /\ pending[n].packet # p
        BY <1>0, <2>1, <2>3, <3>2, <4>1 DEF OthersWait
      <4> QED
        BY <2>1, <2>3, <3>2, <4>1, <4>2 DEF WriteAsked
    <3>3. CASE i = Len(requests) + 1 /\ j \in DOMAIN requests
      <4>1. NewWrite(p, msg)
        BY <1>5, <2>1, <2>3, <3>3
      <4>2. msg.source = pending'[k].source
        BY <2>1, <2>3, <3>3, <4>1 DEF NewWrite, WriteAsked
      <4> QED
        BY <2>1, <2>3, <3>3, <4>1, <4>2 DEF NewWrite, WrittenBy
    <3> QED
      BY <1>0, <2>1, <2>3, <3>1, <3>2, <3>3
  <2> QED
    BY <2>2, <2>3 DEF WritersWait
<1> QED
  BY <1>4, <1>5 DEF WriteSent

LEMMA WriteHandler ==
  ASSUME NEW p \in Procs, NEW pkt \in PacketType, SessionInv, WriteInv, Puts(p, pkt),
         OthersLocks(p), OthersWait(p), UNCHANGED stdout, WriteOk(p)',
         \A k \in DOMAIN pending' :
           pending'[k].request_seqno = seqno /\ pending'[k].expects = "WRITE" =>
             pending'[k].source + pending'[k].length <= packet'[pending'[k].packet].count,
         conn' = "up" =>
           /\ conn = "up" /\ seqno' \in Nat /\ seqno' >= seqno /\ WriteSent(p) /\ AnswersLeft
           /\ WriteReplied(p)' => WrittenBy(p) = {}
  PROVE  WriteInv'
<1>0. FsType /\ OpInv
  BY DEF SessionInv, TypeInv
<1>1. \A q \in Procs : q # p => packet'[q] = packet[q]
  BY <1>0, HeldChanges
<1>2. ASSUME NEW k \in DOMAIN pending', pending'[k].expects = "WRITE"
      PROVE  pending'[k].source + pending'[k].length <= packet'[pending'[k].packet].count
  <2>1. CASE pending'[k].request_seqno = seqno
    BY <1>2, <2>1
  <2>2. CASE pending'[k].request_seqno # seqno
    <3>1. PICK n \in DOMAIN pending : pending'[k] = pending[n] /\ pending[n].packet # p
      BY <2>2 DEF OthersWait
    <3>2. pending[n].packet \in Procs
      BY <1>0 DEF OpInv, Held
    <3> QED
      BY <1>1, <1>2, <3>1, <3>2 DEF WriteInv, PartInv
  <2> QED
    BY <2>1, <2>2
<1>3. ASSUME NEW q \in Procs PROVE WriteOk(q)'
  <2>1. CASE q = p
    BY <2>1
  <2>2. CASE q # p
    BY <2>2, WriteOkKept DEF WriteInv
  <2> QED
    BY <2>1, <2>2
<1>4. ASSUME conn' = "up" PROVE MessagesOk' /\ WritesInOrder' /\ WritersWait'
  <2>1. MessagesOk /\ WritesInOrder /\ WritersWait
    BY <1>4 DEF WriteInv
  <2>2. MessagesOk'
    BY <1>4, <2>1, MessagesKept
  <2>3. WritesInOrder'
    BY <1>4, <2>1, OrderKept
  <2>4. WritersWait'
    BY <1>4, <2>1, WaitKept
  <2> QED
    BY <2>2, <2>3, <2>4
<1>5. PartInv'
  BY <1>2 DEF PartInv
<1> QED
  BY <1>3, <1>4, <1>5 DEF WriteInv

(* Only the packet that a handler step is about starts to wait. *)
OnlyWaits(p) ==
  OthersWait(p) /\ \A k \in DOMAIN pending' : pending'[k].request_seqno = seqno => pending'[k].packet = p

LEMMA PacketWaits ==
  ASSUME SessionInv, NEW p \in Procs, Room(p), PacketStep(p)
  PROVE  OnlyWaits(p)
<1>0. FsType /\ OpInv /\ seqno \in Nat /\ p \notin Held
  BY DEF SessionInv, TypeInv, FsType, Room, Held
<1>1. \A k \in DOMAIN pending : pending[k].request_seqno # seqno
  BY <1>0, PendingFacts DEF OpInv, OpType
<1>2. CASE HoldStep(p)
  <2>1. PICK op \in OpType : pending' = <<op>> \o pending /\ op.packet = p /\ op.request_seqno = seqno
    BY <1>2 DEF HoldStep
  <2>2. OthersWait(p)
    BY <1>0, <2>1, HoldOthersWait
  <2>3. ASSUME NEW k \in DOMAIN pending', pending'[k].request_seqno = seqno
        PROVE  pending'[k].packet = p
    <3>1. /\ DOMAIN pending' = 1 .. Len(pending) + 1 /\ Len(pending) \in Nat
          /\ DOMAIN pending = 1 .. Len(pending)
          /\ pending'[1] = op /\ \A j \in 1 .. Len(pending) : pending'[j + 1] = pending[j]
      BY <1>0, <2>1, PrependFacts, PendingFacts
    <3>2. CASE k = 1
      BY <2>1, <3>1, <3>2
    <3>3. CASE k # 1
      <4>1. k - 1 \in DOMAIN pending /\ pending'[k] = pending[k - 1]
        BY <3>1, <3>3
      <4> QED
        BY <1>1, <2>3, <4>1
    <3> QED
      BY <3>2, <3>3
  <2> QED
    BY <2>2, <2>3 DEF OnlyWaits
<1>3. CASE ~HoldStep(p)
  <2>1. pending' = pending
    BY <1>3 DEF PacketStep, ReplyStep, LostStep
  <2>2. OthersWait(p)
    BY <1>0, <2>1, ReplyOthersWait
  <2> QED
    BY <1>1, <2>1, <2>2 DEF OnlyWaits
<1> QED
  BY <1>2, <1>3

LEMMA AnswerWaits ==
  ASSUME SessionInv, NEW op, Waiting(op), CompleteStep(op) \/ RequeueStep(op)
  PROVE  OnlyWaits(op.packet)
<1>0. FsType /\ OpInv /\ seqno \in Nat
  BY DEF SessionInv, TypeInv, FsType
<1>1. \A k \in DOMAIN pending : pending[k].request_seqno # seqno
  BY <1>0, PendingFacts DEF OpInv, OpType
<1>2. CASE RequeueStep(op)
  <2>1. PICK new \in OpType :
       /\ pending' = [i \in DOMAIN pending |-> IF pending[i] # op THEN pending[i] ELSE new]
       /\ new.packet = op.packet /\ new.request_seqno = seqno
    BY <1>2 DEF RequeueStep
  <2>2. PICK k \in DOMAIN pending : op = pending[k]
    BY DEF Waiting
  <2>3. OthersWait(op.packet)
    BY <1>0, <2>1, <2>2, RequeueOthersWait
  <2>4. /\ DOMAIN pending' = DOMAIN pending /\ pending'[k] = new
        /\ \A i \in DOMAIN pending \ {k} : pending'[i] = pending[i]
    BY <1>0, <2>1, <2>2, RequeueFacts
  <2> QED
    BY <1>1, <2>1, <2>3, <2>4 DEF OnlyWaits
<1>3. CASE CompleteStep(op)
  <2>1. OthersWait(op.packet)
    BY <1>0, <1>3, CompleteOthersWait DEF CompleteStep
  <2>2. PICK k \in DOMAIN pending :
           \A j \in DOMAIN pending' :
                /\ (IF j < k THEN j ELSE j + 1) \in DOMAIN pending \ {k}
                /\ pending'[j] = pending[IF j < k THEN j ELSE j + 1]
    BY <1>0, <1>3, UnlinkFacts DEF CompleteStep
  <2> QED
    BY <1>1, <2>1, <2>2 DEF OnlyWaits
<1> QED
  BY <1>2, <1>3

LEMMA AnswerSends ==
  ASSUME NEW op, SessionInv, Waiting(op), Received \in AnswerType, conn' = "up",
         CompleteStep(op) \/ RequeueStep(op)
  PROVE  /\ seqno' \in Nat /\ seqno' >= seqno
         /\ \E msg \in RequestType :
              /\ requests' = requests \/ requests' = Append(requests, msg)
              /\ \/ msg.kind = "CLOSE"
                 \/ RequeueStep(op) /\ msg.kind = Waits(packet'[op.packet].type)
<1>0. FsType /\ requests \in Seq(RequestType) /\ seqno \in Nat
  BY DEF SessionInv, TypeInv, ChannelType, FsType
<1>1. PICK close \in RequestType : close = CloseRequest(seqno, 0) /\ close.kind = "CLOSE"
  BY <1>0, CloseMessage
<1>2. CASE RequeueStep(op)
  <2>1. PICK new \in OpType, msg \in RequestType :
       /\ new.packet = op.packet /\ transmit_message(msg) /\ seqno' = seqno + 1 /\ Asks(msg, new)'
    BY <1>2 DEF RequeueStep
  <2>2. msg.kind = Waits(packet'[op.packet].type)
    BY <2>1 DEF Asks
  <2>3. requests' = Append(requests, msg)
    BY <1>0, <2>1, TransmitFacts
  <2> QED
    BY <1>0, <1>2, <2>1, <2>2, <2>3
<1>3. CASE CompleteStep(op)
  <2>1. CASE NothingSent
    BY <1>0, <1>1, <2>1 DEF NothingSent
  <2>2. CASE /\ Received.kind = "OPEN" /\ seqno' = seqno + 1
             /\ transmit_message(CloseRequest(seqno, Received.handle))
    <3>1. PICK h \in Int : h = Received.handle
      BY <2>2, OpenAnswered
    <3>2. PICK msg \in RequestType : msg = CloseRequest(seqno, h) /\ msg.kind = "CLOSE"
      BY <1>0, CloseMessage
    <3>3. requests' = Append(requests, msg)
      BY <1>0, <2>2, <3>1, <3>2, TransmitFacts
    <3> QED
      BY <1>0, <2>2, <3>2, <3>3
  <2>3. CASE conn' = "failed"
    BY <2>3
  <2> QED
    BY <1>3, <2>1, <2>2, <2>3 DEF CompleteStep
<1> QED
  BY <1>2, <1>3

LEMMA AnswersStay ==
  ASSUME answers \in Seq(AnswerType)
  PROVE  /\ UNCHANGED answers => AnswersLeft
         /\ answers # <<>> /\ answers' = Tail(answers) => AnswersLeft
<1>1. ASSUME UNCHANGED answers PROVE AnswersLeft
  <2>1. \A i \in DOMAIN answers' : i \in Nat /\ i + 0 = i
    BY <1>1
  <2>2. \A i \in DOMAIN answers' : i + 0 \in DOMAIN answers /\ answers'[i] = answers[i + 0]
    BY <1>1, <2>1
  <2> QED
    BY <2>2 DEF AnswersLeft
<1>2. ASSUME answers # <<>>, answers' = Tail(answers) PROVE AnswersLeft
  BY <1>2, TailFacts DEF AnswersLeft
<1> QED
  BY <1>1, <1>2

LEMMA WriteOtherPacket ==
  ASSUME NEW p \in Procs, SessionInv, SessionInv', WriteInv, Room(p), PacketStep(p),
         UNCHANGED <<answers, stdout>>, OthersLocks(p), packet'[p].type # "WRITE"
  PROVE  WriteInv'
<1>0. FsType /\ OpInv' /\ answers \in Seq(AnswerType)
  BY DEF SessionInv, TypeInv, ChannelType
<1>1. PICK pkt \in PacketType : Puts(p, pkt)
  BY DEF PacketStep, ReplyStep, HoldStep, LostStep
<1>2. OnlyWaits(p) /\ OthersWait(p)
  BY PacketWaits DEF OnlyWaits
<1>3. Waits(packet'[p].type) # "WRITE"
  BY DEF Waits
<1>4. ASSUME NEW k \in DOMAIN pending', pending'[k].request_seqno = seqno
      PROVE  pending'[k].expects # "WRITE"
  BY <1>0, <1>2, <1>3, <1>4 DEF OnlyWaits, OpInv
<1>5. WriteOk(p)' /\ ~WriteReplied(p)'
  BY DEF WriteOk, WriteReplied
<1>6. ASSUME conn' = "up"
      PROVE  conn = "up" /\ seqno' \in Nat /\ seqno' >= seqno /\ WriteSent(p) /\ AnswersLeft
  <2>1. PICK msg \in RequestType :
          /\ requests' = requests \/ requests' = Append(requests, msg)
          /\ msg.kind \in {"CLOSE", Waits(packet'[p].type)}
    BY <1>6, PacketSends
  <2>2. ~IsWrite(msg)
    BY <1>3, <2>1 DEF IsWrite
  <2>3. WriteSent(p)
    BY <2>1, <2>2 DEF WriteSent
  <2> QED
    BY <1>0, <1>6, <2>3, AnswersStay, PacketSends
<1> QED
  BY <1>1, <1>2, <1>4, <1>5, <1>6, WriteHandler

LEMMA WriteOtherAnswer ==
  ASSUME NEW op, NEW p \in Procs, SessionInv, SessionInv', WriteInv, p = op.packet, Waiting(op),
         conn = "up", Received \in AnswerType, answers # <<>>, answers' = Tail(answers),
         CompleteStep(op) \/ RequeueStep(op), ~WriteReplied(p)',
         RequeueStep(op) => packet'[p].type # "WRITE", UNCHANGED stdout, OthersLocks(p)
  PROVE  WriteInv'
<1>0. FsType /\ OpInv' /\ answers \in Seq(AnswerType)
  BY DEF SessionInv, TypeInv, ChannelType
<1>1. PICK pkt \in PacketType : Puts(p, pkt)
  BY DEF CompleteStep, RequeueStep
<1>2. OnlyWaits(p) /\ OthersWait(p)
  BY AnswerWaits DEF OnlyWaits
<1>3. packet'[p].type # "WRITE" => Waits(packet'[p].type) # "WRITE"
  BY DEF Waits
<1>4. ASSUME NEW k \in DOMAIN pending', pending'[k].request_seqno = seqno
      PROVE  pending'[k].expects # "WRITE"
  <2>1. pending'[k].packet = p /\ p \in Held' /\ pending'[k].expects = Waits(packet'[p].type)
    BY <1>0, <1>2, <1>4 DEF OnlyWaits, OpInv
  <2>2. ~CompleteStep(op)
    BY <1>0, <2>1, HeldChanges DEF CompleteStep
  <2> QED
    BY <1>3, <2>1, <2>2
<1>5. WriteOk(p)'
  BY DEF WriteOk
<1>6. ASSUME conn' = "up"
      PROVE  seqno' \in Nat /\ seqno' >= seqno /\ WriteSent(p) /\ AnswersLeft
  <2>1. PICK msg \in RequestType :
          /\ requests' = requests \/ requests' = Append(requests, msg)
          /\ msg.kind = "CLOSE" \/ (RequeueStep(op) /\ msg.kind = Waits(packet'[op.packet].type))
    BY <1>6, AnswerSends
  <2>2. ~IsWrite(msg)
    BY <1>3, <2>1 DEF IsWrite
  <2>3. WriteSent(p)
    BY <2>1, <2>2 DEF WriteSent
  <2>4. AnswersLeft
    BY <1>0, AnswersStay
  <2> QED
    BY <1>6, <2>3, <2>4, AnswerSends
<1> QED
  BY <1>1, <1>2, <1>4, <1>5, <1>6, WriteHandler

(* action_write sends the first part. *)
LEMMA WriteBegun ==
  ASSUME NEW p \in Procs, SessionInv, SessionInv', WriteInv, action_write(p),
         UNCHANGED <<answers, stdout>>
  PROVE  WriteInv'
<1>0. /\ FsType /\ TypeInv /\ OpInv /\ OpInv' /\ answers \in Seq(AnswerType) /\ seqno \in Nat
      /\ requests \in Seq(RequestType) /\ UNCHANGED lock
  BY DEF SessionInv, TypeInv, ChannelType, action_write, FsType
<1>1. PICK l \in Locks(p, TRUE), count \in Counts :
        LET pkt == NewPacket("WRITE", l, <<>>, count, 0)
            length == Min2(count, Chunk)
        IN  \/ Hold(p, pkt, "WRITE", length,
                    WriteRequest(seqno, lock[l].handle_id, p, 0, WriteData(0, length)))
            \/ HoldFails(p, pkt)
  BY DEF action_write
<1>2. Room(p) /\ PacketStep(p)
  BY <1>0, WriteStep
<1>3. PICK pkt : pkt = NewPacket("WRITE", l, <<>>, count, 0)
  OBVIOUS
<1>4. /\ pkt \in PacketType /\ pkt.state = "held" /\ pkt.type = "WRITE" /\ pkt.count = count
      /\ count \in Nat
  <2>1. /\ "WRITE" \in Types /\ <<>> \in Seq(STRING) /\ l \in LockIds \cup {NullLock}
        /\ 0 \in Nat /\ count \in Nat
    BY FsAssumption DEF Locks, Types
  <2>2. FreshPacket(pkt, "WRITE", l, <<>>, count, 0)
    BY <1>3, <2>1, NewPacketIsFresh
  <2> QED
    BY <2>1, <2>2 DEF FreshPacket
<1>5. PICK length \in Nat : length = Min2(count, Chunk) /\ length <= count
  BY <1>4, TreeAssumption DEF Min2
<1>6. OnlyWaits(p) /\ OthersWait(p)
  BY <1>2, PacketWaits DEF OnlyWaits
<1>7. OthersLocks(p) /\ AnswersLeft
  BY <1>0, AnswersStay DEF OthersLocks
<1>8. CASE HoldFails(p, pkt)
  <2>1. packet' = [packet EXCEPT ![p] = Replied(pkt, 0, "NO_FREE_STORE")]
    BY <1>8 DEF HoldFails, reply_to_packet
  <2>2. PICK new : new = Replied(pkt, 0, "NO_FREE_STORE")
    OBVIOUS
  <2>7. "NO_FREE_STORE" \in DosErrors /\ 0 \in Int \cup LockIds
    BY DEF DosErrors
  <2>8. new \in PacketType /\ new.err = "NO_FREE_STORE"
    BY <1>4, <2>2, <2>7, RepliedType
  <2>3. Puts(p, new) /\ packet'[p] = new
    BY <1>0, <2>1, <2>2, <2>8 DEF Puts, FsType
  <2>4. WriteOk(p)' /\ ~WriteReplied(p)'
    BY <2>3, <2>8 DEF WriteOk, WriteReplied
  <2>5. UNCHANGED <<pending, seqno, conn, requests>>
    BY <1>8 DEF HoldFails
  <2>6. \A k \in DOMAIN pending' : pending'[k].request_seqno # seqno
    BY <1>0, <2>5, PendingFacts DEF OpInv, OpType
  <2> QED
    BY <1>0, <1>6, <1>7, <2>3, <2>4, <2>5, <2>6, <2>8, WriteHandler DEF WriteSent
<1>9. CASE Hold(p, pkt, "WRITE", length,
                WriteRequest(seqno, lock[l].handle_id, p, 0, WriteData(0, length)))
  <2>1. PICK op : op = [request_seqno |-> seqno, packet |-> p, expects |-> "WRITE",
                        source |-> 0, length |-> length]
    OBVIOUS
  <2>2. /\ op \in OpType /\ op.request_seqno = seqno /\ op.packet = p /\ op.expects = "WRITE"
        /\ op.source = 0 /\ op.length = length
    BY <1>0, <2>1 DEF OpType
  <2>3. PICK msg : msg = WriteRequest(seqno, lock[l].handle_id, p, 0, WriteData(0, length))
    OBVIOUS
  <2>4. /\ pending' = <<op>> \o pending /\ seqno' = seqno + 1 /\ transmit_message(msg)
        /\ packet' = [packet EXCEPT ![p] = pkt]
    BY <1>9, <2>1, <2>3 DEF Hold, alloc_pending
  <2>5. msg \in RequestType
    <3>1. lock[l].handle_id \in Int /\ WriteData(0, length) \in Seq(Nat)
      BY <1>0, LockTypes, WriteDataType DEF Locks, LockType
    <3> QED
      BY <1>0, <2>3, <3>1, RequestTypes
  <2>6. Puts(p, pkt) /\ packet'[p] = pkt
    BY <1>0, <1>4, <2>4 DEF Puts, FsType
  <2>7. 1 \in DOMAIN pending' /\ pending'[1] = op
    BY <1>0, <2>2, <2>4, PrependFacts, PendingFacts
  <2>8. /\ msg.seq = seqno /\ msg.writer = p /\ msg.handle = lock[l].handle_id /\ msg.source = 0
        /\ msg.data = WriteData(0, length) /\ msg.kind = "WRITE"
    BY <2>3 DEF WriteRequest
  <2>9. pkt.arg = l
    BY <1>3 DEF NewPacket
  <2>10. \A j \in DOMAIN pending' : pending'[j].request_seqno = seqno => pending'[j] = op
    BY <1>0, <2>2, <2>7 DEF OpInv
  <2>11. WriteAsked(msg)'
    BY <1>0, <2>2, <2>6, <2>8, <2>9, <2>10 DEF WriteAsked, WriteData
  <2>12. WriteOk(p)' /\ ~WriteReplied(p)'
    BY <1>4, <2>6 DEF WriteOk, WriteReplied
  <2>13. ASSUME conn' = "up"
         PROVE  conn = "up" /\ seqno' \in Nat /\ seqno' >= seqno /\ WriteSent(p)
    <3>1. conn = "up" /\ requests' = Append(requests, msg)
      BY <1>0, <2>4, <2>5, <2>13, TransmitFacts
    <3>2. NewWrite(p, msg)
      BY <2>4, <2>8, <2>11, <2>12 DEF NewWrite
    <3> QED
      BY <1>0, <2>4, <2>5, <3>1, <3>2 DEF WriteSent
  <2>14. ASSUME NEW k \in DOMAIN pending', pending'[k].request_seqno = seqno
         PROVE  pending'[k].source + pending'[k].length <= packet'[pending'[k].packet].count
    BY <1>4, <1>5, <2>2, <2>6, <2>10, <2>14
  <2> QED
    BY <1>4, <1>6, <1>7, <2>6, <2>12, <2>13, <2>14, WriteHandler
<1> QED
  BY <1>1, <1>3, <1>5, <1>8, <1>9

(* complete_write goes on with the next part, or finishes. *)
LEMMA WriteContinued ==
  ASSUME NEW op, NEW p \in Procs, SessionInv, SessionInv', WriteInv, p = op.packet, Waiting(op),
         op.request_seqno = Received.seq, conn = "up", Received \in AnswerType,
         answers # <<>>, answers' = Tail(answers), Received.kind = op.expects,
         packet[p].type = "WRITE", complete_write(op), UNCHANGED stdout
  PROVE  WriteInv'
<1>0. /\ FsType /\ OpInv /\ OpInv' /\ answers \in Seq(AnswerType) /\ seqno \in Nat /\ seqno' \in Nat
      /\ requests \in Seq(RequestType) /\ UNCHANGED lock
      /\ op.expects = "WRITE" /\ Received.kind = "WRITE"
  BY DEF SessionInv, TypeInv, ChannelType, FsType, Waiting, Waits, complete_write
<1>1. PICK n \in DOMAIN pending : op = pending[n]
  BY DEF Waiting
<1>2. PICK pkt \in PacketType : pkt = packet[p]
  BY DEF Waiting
<1>3. /\ OwnLock(p, pkt.arg, TRUE) /\ pkt.arg \in LockIds /\ lock[pkt.arg].handle_id \in Int
      /\ pkt.count \in Nat /\ pkt.state = "held" /\ pkt.type = "WRITE"
  BY <1>0, <1>2, LockTypes DEF Waiting, ArgOk, OwnLock, LockType, PacketType
<1>4. PICK curr \in Nat : curr = op.source + op.length /\ curr <= pkt.count
  <2>1. op.source \in Nat /\ op.length \in Nat
    BY DEF Waiting, OpType
  <2>2. op.source + op.length <= pkt.count
    <3>1. PartInv
      BY DEF WriteInv
    <3> QED
      BY <1>0, <1>1, <1>2, <3>1 DEF PartInv
  <2>3. op.source + op.length \in Nat
    BY <2>1
  <2> QED
    BY <2>2, <2>3
<1>5. CompleteStep(op) \/ RequeueStep(op)
  BY WriteCompletes
<1>6. OnlyWaits(p) /\ OthersWait(p)
  BY <1>5, AnswerWaits DEF OnlyWaits
<1>7. OthersLocks(p) /\ AnswersLeft
  BY <1>0, AnswersStay DEF OthersLocks
<1>8. MessagesOk /\ WritesInOrder /\ WritersWait
  BY DEF WriteInv
<1>9. 1 \in DOMAIN answers /\ Received = answers[1]
  BY <1>0, TailFacts DEF Received
<1>10. Printed(p, curr)
  <2>1. WriteDone(Received.seq)
    BY <1>0, <1>8, <1>9 DEF MessagesOk, IsWrite
  <2> QED
    BY <1>1, <1>4, <2>1 DEF WriteDone
<1>11. WrittenBy(p) = {}
  <2> SUFFICES ASSUME NEW i \in DOMAIN requests, IsWrite(requests[i]), requests[i].writer = p
               PROVE  FALSE
    BY DEF WrittenBy
  <2>1. requests[i].seq <= Received.seq
    BY <1>1, <1>8 DEF WritersWait
  <2>2. Received.seq < requests[i].seq
    BY <1>0, <1>8, <1>9 DEF WritesInOrder, IsWrite
  <2>3. requests[i].seq \in Nat /\ Received.seq \in Nat
    <3>1. requests[i] \in RequestType
      BY <1>0
    <3>2. requests[i].seq \in Nat
      BY <3>1 DEF RequestType
    <3>3. Received.seq \in Nat
      BY DEF Waiting, OpType
    <3> QED
      BY <3>2, <3>3
  <2> QED
    BY <2>1, <2>2, <2>3
<1>12. CASE curr < pkt.count
  <2>1. PICK length \in Nat : length = Min2(pkt.count - curr, Chunk) /\ curr + length <= pkt.count
    BY <1>3, <1>12, TreeAssumption DEF Min2
  <2>2. PICK new : new = [op EXCEPT !.request_seqno = seqno, !.source = curr, !.length = length]
    OBVIOUS
  <2>3. /\ new \in OpType /\ new.packet = p /\ new.request_seqno = seqno /\ new.expects = "WRITE"
        /\ new.source = curr /\ new.length = length
    BY <1>0, <2>2 DEF OpType, Waiting
  <2>4. PICK msg : msg = WriteRequest(seqno, lock[pkt.arg].handle_id, p, curr, WriteData(curr, length))
    OBVIOUS
  <2>5. /\ pending' = [i \in DOMAIN pending |-> IF pending[i] # op THEN pending[i] ELSE new]
        /\ seqno' = seqno + 1 /\ transmit_message(msg) /\ UNCHANGED packet
    BY <1>2, <1>4, <1>12, <2>1, <2>2, <2>4 DEF complete_write, requeue
  <2>6. msg \in RequestType
    BY <1>0, <1>3, <2>4, WriteDataType, RequestTypes
  <2>7. Puts(p, pkt)
    BY <1>0, <1>2, <2>5 DEF Puts, FsType
  <2>8. n \in DOMAIN pending' /\ pending'[n] = new
    BY <1>0, <1>1, <2>3, <2>5, RequeueFacts
  <2>9. /\ msg.seq = seqno /\ msg.writer = p /\ msg.handle = lock[pkt.arg].handle_id
        /\ msg.source = curr /\ msg.data = WriteData(curr, length) /\ msg.kind = "WRITE"
    BY <2>4 DEF WriteRequest
  <2>10. \A j \in DOMAIN pending' : pending'[j].request_seqno = seqno => pending'[j] = new
    BY <1>0, <2>3, <2>8 DEF OpInv
  <2>11. WriteAsked(msg)'
    BY <1>0, <1>2, <1>10, <2>3, <2>5, <2>9, <2>10 DEF WriteAsked, WriteData, Printed
  <2>12. WriteOk(p)' /\ ~WriteReplied(p)'
    BY <1>2, <1>3, <2>5 DEF WriteOk, WriteReplied
  <2>13. ASSUME conn' = "up" PROVE seqno' >= seqno /\ WriteSent(p)
    <3>1. requests' = Append(requests, msg)
      BY <1>0, <2>5, <2>6, <2>13, TransmitFacts
    <3>2. NewWrite(p, msg)
      BY <1>11, <2>5, <2>9, <2>11, <2>12 DEF NewWrite
    <3> QED
      BY <1>0, <2>5, <2>6, <3>1, <3>2 DEF WriteSent
  <2>14. ASSUME NEW k \in DOMAIN pending', pending'[k].request_seqno = seqno
         PROVE  pending'[k].source + pending'[k].length <= packet'[pending'[k].packet].count
    BY <1>2, <2>1, <2>3, <2>5, <2>10, <2>14
  <2> QED
    BY <1>0, <1>6, <1>7, <2>7, <2>12, <2>13, <2>14, WriteHandler
<1>13. CASE ~(curr < pkt.count)
  <2>1. Complete(op, pkt.count, "0") /\ UNCHANGED <<requests, seqno, conn>>
    BY <1>2, <1>4, <1>13 DEF complete_write
  <2>8. PICK count \in Int \cup LockIds : count = pkt.count
    BY <1>3
  <2>2. PICK new : new = Replied(pkt, count, "0")
    OBVIOUS
  <2>3. "0" \in DosErrors
    BY DEF DosErrors
  <2>9. /\ new \in PacketType /\ new.state = "replied" /\ new.res = count
        /\ new.count = pkt.count /\ new.arg = pkt.arg
    BY <2>2, <2>3, RepliedType
  <2>4. /\ new \in PacketType /\ new.state = "replied" /\ new.res = pkt.count
        /\ new.count = pkt.count /\ new.arg = pkt.arg
    BY <2>8, <2>9
  <2>5. Puts(p, new) /\ packet'[p] = new
    BY <1>0, <1>2, <2>1, <2>2, <2>4, <2>8 DEF Complete, reply_to_packet, Puts, FsType
  <2>6. WriteOk(p)'
    BY <1>0, <1>2, <1>3, <1>4, <1>10, <1>13, <2>4, <2>5, SMTT(30) DEF WriteOk, OwnLock, Printed, WriteData
  <2>7. ASSUME NEW k \in DOMAIN pending', pending'[k].request_seqno = seqno PROVE FALSE
    <3>1. pending'[k].packet \in Held' /\ pending'[k].packet = p
      BY <1>0, <1>6, <2>7 DEF OnlyWaits, OpInv
    <3> QED
      BY <2>4, <2>5, <3>1 DEF Held
  <2> QED
    BY <1>0, <1>6, <1>7, <1>11, <2>1, <2>4, <2>5, <2>6, <2>7, WriteHandler DEF WriteSent
<1> QED
  BY <1>12, <1>13

LEMMA ReadMoves ==
  ASSUME FsType, NEW p \in Procs, action_read(p)
  PROVE  packet'[p].type = "READ" /\ Calm(p)
<1>1. PICK l \in Locks(p, TRUE), count \in Counts :
       LET h == lock[l]
           got == buffer_overlap(h, count)
           offset == h.offset + Len(got)
           pkt == [NewPacket("READ", l, <<>>, count, h.offset) EXCEPT !.data = got]
       IN  /\ lock' = [lock EXCEPT ![l].offset = offset]
           /\ IF InBuffer(h) /\ Len(got) = count
                THEN reply_to_packet(p, pkt, count, "0")
                ELSE \/ Hold(p, pkt, "READ", 0, ReadRequest(seqno, h.handle_id, offset))
                     \/ HoldFails(p, pkt)
  BY DEF action_read
<1>2. PICK offset : lock' = [lock EXCEPT ![l].offset = offset]
  BY <1>1
<1>3. l \in LockIds /\ lock[l] # NoLock /\ lock[l].owner = p
  BY DEF Locks
<1>4. Calm(p)
  BY <1>2, <1>3, CalmMoved
<1>5. PICK pkt : pkt = [NewPacket("READ", l, <<>>, count, lock[l].offset)
                          EXCEPT !.data = buffer_overlap(lock[l], count)]
  OBVIOUS
<1>6. pkt.type = "READ" /\ \A res, err : Replied(pkt, res, err).type = "READ"
  BY <1>5 DEF NewPacket, Replied
<1>7. packet' = [packet EXCEPT ![p] = pkt]
        \/ \E res, err : packet' = [packet EXCEPT ![p] = Replied(pkt, res, err)]
  BY <1>1, <1>5 DEF Hold, HoldFails, reply_to_packet
<1> QED
  BY <1>4, <1>6, <1>7 DEF FsType

LEMMA WritePacket ==
  ASSUME SessionInv, SessionInv', OutInv, WriteInv, NEW p \in Procs, process_fs_packet(p),
         UNCHANGED stdout
  PROVE  WriteInv'
<1>0. FsType
  BY DEF SessionInv, TypeInv
<1>1. Room(p) /\ PacketStep(p) /\ answers' = answers
  BY PacketSteps DEF SessionInv
<1>2. CASE Quiet(p)
  BY <1>1, <1>2, WriteOtherPacket DEF Quiet, Calm, DataTypes
<1>3. CASE action_read(p)
  <2>1. OthersLocks(p) /\ packet'[p].type = "READ"
    BY <1>0, <1>3, ReadMoves DEF Calm
  <2> QED
    BY <1>1, <2>1, WriteOtherPacket
<1>4. CASE action_examine_next(p)
  <2>1. OthersLocks(p) /\ packet'[p].type = "EXAMINE_NEXT"
    BY <1>0, <1>4, ExamineTaken
  <2> QED
    BY <1>1, <2>1, WriteOtherPacket
<1>5. CASE action_write(p)
  BY <1>1, <1>5, WriteBegun
<1> QED
  BY <1>0, <1>2, <1>3, <1>4, <1>5, QuietPackets

LEMMA ReadReturns ==
  ASSUME NEW op, NEW p \in Procs, SessionInv, p = op.packet, Waiting(op),
         packet[p].type = "READ", complete_read(op)
  PROVE  /\ packet'[p].type = "READ" /\ OthersLocks(p)
         /\ \A k \in LockIds : lock[k] # NoLock =>
              lock'[k].enum = lock[k].enum /\ lock'[k].seen = lock[k].seen
<1>0. FsType
  BY DEF SessionInv, TypeInv
<1>1. PICK pkt \in PacketType : pkt = packet[p]
  BY DEF Waiting
<1>2. PICK l \in LockIds : l = pkt.arg /\ OwnLock(p, l, TRUE)
  BY <1>1 DEF Waiting, ArgOk, OwnLock
<1>3. PICK h \in LockType : h = lock[l]
  BY <1>0, <1>2, LockTypes DEF OwnLock
<1>4. \/ \E offset, buffer : lock' = [lock EXCEPT ![l].offset = offset, ![l].buffer_start = offset,
                                        ![l].buffer = buffer]
      \/ \E offset : lock' = [lock EXCEPT ![l].offset = offset]
  <2> DEFINE slice == Min2(pkt.count - Len(pkt.data), Len(Received.data))
             buffer == SubSeq(Received.data, slice + 1, Len(Received.data))
             offset == lock[l].offset + slice
  <2>1. \/ lock' = [lock EXCEPT ![l].offset = offset, ![l].buffer_start = offset,
                                ![l].buffer = buffer]
        \/ lock' = [lock EXCEPT ![l].offset = offset]
    BY <1>1, <1>2 DEF complete_read
  <2> HIDE DEF slice, buffer, offset
  <2> QED
    BY <2>1, Zenon
<1>5. PICK r : /\ r.enum = h.enum /\ r.seen = h.seen
               /\ \A k \in LockIds : lock'[k] = IF k = l THEN r ELSE lock[k]
  <2>1. ASSUME NEW offset, NEW buffer,
               lock' = [lock EXCEPT ![l].offset = offset, ![l].buffer_start = offset,
                          ![l].buffer = buffer]
        PROVE  lock'[l].enum = h.enum /\ lock'[l].seen = h.seen
    BY <1>0, <1>3, <2>1 DEF FsType, LockType
  <2>2. ASSUME NEW offset, lock' = [lock EXCEPT ![l].offset = offset]
        PROVE  lock'[l].enum = h.enum /\ lock'[l].seen = h.seen
    BY <1>0, <1>3, <2>2 DEF FsType, LockType
  <2>3. lock'[l].enum = h.enum /\ lock'[l].seen = h.seen
    BY <1>4, <2>1, <2>2
  <2>4. \A k \in LockIds : k # l => lock'[k] = lock[k]
    BY <1>0, <1>4 DEF FsType
  <2> QED
    BY <2>3, <2>4
<1>6. OthersLocks(p)
  BY <1>2, <1>5 DEF OthersLocks, OwnLock
<1>7. packet'[p].type = "READ"
  <2>1. \/ \E data, res : packet' = [packet EXCEPT ![p] = Replied([pkt EXCEPT !.data = data], res, "0")]
        \/ \E data : packet' = [packet EXCEPT ![p].data = data]
    BY <1>1 DEF complete_read
  <2>2. \A data, res : Replied([pkt EXCEPT !.data = data], res, "0").type = pkt.type
    BY DEF Replied, PacketType
  <2>3. \A data : [pkt EXCEPT !.data = data].type = pkt.type
    BY DEF PacketType
  <2> QED
    <3>1. CASE \E data, res :
                 packet' = [packet EXCEPT ![p] = Replied([pkt EXCEPT !.data = data], res, "0")]
      <4>1. PICK data, res :
              packet' = [packet EXCEPT ![p] = Replied([pkt EXCEPT !.data = data], res, "0")]
        BY <3>1
      <4>2. packet'[p] = Replied([pkt EXCEPT !.data = data], res, "0")
        BY <1>0, <4>1 DEF FsType
      <4> QED
        BY <1>1, <2>2, <4>2
    <3>2. CASE \E data : packet' = [packet EXCEPT ![p].data = data]
      <4>1. PICK data : packet' = [packet EXCEPT ![p].data = data]
        BY <3>2
      <4>2. packet'[p] = [pkt EXCEPT !.data = data]
        BY <1>0, <1>1, <4>1 DEF FsType
      <4> QED
        BY <1>1, <2>3, <4>2
    <3> QED
      BY <2>1, <3>1, <3>2
<1> QED
  BY <1>3, <1>5, <1>6, <1>7

LEMMA WriteNetwork ==
  ASSUME SessionInv, SessionInv', OutInv, WriteInv, rl_amigafs_process_network_message,
         UNCHANGED stdout
  PROVE  WriteInv'
<1>0. FsType /\ answers \in Seq(AnswerType) /\ answers # <<>> /\ conn = "up"
      /\ answers' = Tail(answers) /\ Received \in AnswerType
  BY NetworkSteps DEF SessionInv, TypeInv, ChannelType
<1>1. CASE ~Found
  <2>1. conn' = "failed" /\ UNCHANGED <<packet, lock, pending>>
    BY <1>1, NetworkSteps
  <2>2. PartInv' /\ \A q \in Procs : WriteOk(q)'
    BY <2>1 DEF WriteInv, PartInv, WriteOk, WriteReplied, OwnLock, Printed
  <2> QED
    BY <2>1, <2>2 DEF WriteInv
<1>2. CASE Found
  <2>0. PICK op : op = find_pending_op
    OBVIOUS
  <2>1. PICK p \in Procs : p = op.packet /\ Waiting(op)
    BY <1>2, <2>0, FoundWaits DEF Waiting
  <2>2. CompleteStep(op) \/ RequeueStep(op)
    BY <1>2, <2>0, NetworkSteps
  <2>3. CASE packet'[p].type # "WRITE" /\ OthersLocks(p)
    <3>1. ~WriteReplied(p)'
      BY <2>3 DEF WriteReplied
    <3> QED
      BY <1>0, <2>1, <2>2, <2>3, <3>1, WriteOtherAnswer
  <2>4. CASE Quiet(p)
    BY <2>3, <2>4 DEF Quiet, Calm, DataTypes
  <2>5. CASE FailedStep(op)
    <3>1. PICK err, x :
            /\ err \in DosErrors \ {"0"} /\ packet' = [packet EXCEPT ![p] = x] /\ x = Replied(packet[p], 0, err)
            /\ UNCHANGED lock
      BY <2>1, <2>5 DEF FailedStep
    <3>2. packet'[p] = x /\ x.state = "replied" /\ x.err = err
      BY <1>0, <2>1, <3>1 DEF FsType, Replied, PacketType, Waiting
    <3>3. ~WriteReplied(p)' /\ OthersLocks(p)
      BY <3>1, <3>2 DEF WriteReplied, OthersLocks
    <3>4. ~RequeueStep(op)
      <4>1. ASSUME NEW pkt \in PacketType, Puts(p, pkt), pkt.state = "held" PROVE FALSE
        BY <1>0, <3>2, <4>1, HeldChanges
      <4> QED
        BY <2>1, <4>1 DEF RequeueStep
    <3> QED
      BY <1>0, <2>1, <2>2, <3>3, <3>4, WriteOtherAnswer
  <2>6. CASE packet[p].type = "READ" /\ complete_read(op)
    BY <2>1, <2>3, <2>6, ReadReturns
  <2>7. CASE packet[p].type = "EXAMINE_NEXT" /\ complete_examine_next(op)
    BY <2>1, <2>3, <2>7, ExamineFinished
  <2>8. CASE packet[p].type = "WRITE" /\ complete_write(op) /\ Received.kind = op.expects
    <3>1. op.request_seqno = Received.seq
      BY <1>0, <1>2, <2>0, FoundOp
    <3> QED
      BY <1>0, <2>1, <2>8, <3>1, WriteContinued
  <2> QED
    BY <1>2, <2>0, <2>1, <2>4, <2>5, <2>6, <2>7, <2>8, QuietAnswers
<1> QED
  BY <1>1, <1>2

LEMMA JoinWrites ==
  ASSUME NEW a \in Nat, NEW b \in Nat
  PROVE  WriteData(0, a) \o WriteData(a, b) = WriteData(0, a + b)
<1>1. PICK s \in Seq(Nat) : s = WriteData(0, a) /\ Len(s) = a
  BY WriteDataType
<1>2. PICK t \in Seq(Nat) : t = WriteData(a, b) /\ Len(t) = b
  BY WriteDataType
<1>3. PICK u \in Seq(Nat) : u = WriteData(0, a + b) /\ Len(u) = a + b
  BY WriteDataType
<1>4. /\ \A i \in 1 .. a : s[i] = i
      /\ \A i \in 1 .. b : t[i] = a + i
      /\ \A i \in 1 .. a + b : u[i] = i
  BY <1>1, <1>2, <1>3 DEF WriteData
<1>5. /\ s \o t \in Seq(Nat) /\ Len(s \o t) = a + b
      /\ \A i \in 1 .. a + b : (s \o t)[i] = IF i <= a THEN s[i] ELSE t[i - a]
  <2>1. /\ s \o t \in Seq(Nat) /\ Len(s \o t) = Len(s) + Len(t)
        /\ \A i \in 1 .. Len(s) + Len(t) : (s \o t)[i] = IF i <= Len(s) THEN s[i] ELSE t[i - Len(s)]
    BY ConcatProperties
  <2> QED
    BY <1>1, <1>2, <2>1
<1>6. ASSUME NEW i \in 1 .. a + b PROVE (s \o t)[i] = u[i]
  <2>1. CASE i <= a
    BY <1>4, <1>5, <2>1
  <2>2. CASE ~(i <= a)
    <3>1. i - a \in 1 .. b /\ a + (i - a) = i
      BY <2>2
    <3> QED
      BY <1>4, <1>5, <2>2, <3>1
  <2> QED
    BY <2>1, <2>2
<1>7. s \o t = u
  BY <1>3, <1>5, <1>6, SeqEqual
<1> QED
  BY <1>1, <1>2, <1>3, <1>7

LEMMA OnlyWritesPrint ==
  ASSUME rl_file_serve
  PROVE  Request.kind # "WRITE" => UNCHANGED stdout
BY DEF rl_file_serve, open_handle_request, open_handle_too_many, open_handle_not_found,
   open_handle_fails, open_handle_succeeds, close_handle_request, find_next_file_request,
   find_next_file_not_dir, find_next_file_fails, find_next_file_succeeds, read_file_request,
   bad_request, serverVars

(* The server prints what the request carries. *)
LEMMA WriteServer ==
  ASSUME SessionInv, OutInv, WriteInv, ServerStep
  PROVE  WriteInv'
<1>0. /\ TypeInv /\ OpInv /\ requests \in Seq(RequestType) /\ answers \in Seq(AnswerType)
      /\ conn = "up" /\ UNCHANGED <<lock, conn, pending, packet, seqno>> /\ rl_file_serve
      /\ stdout \in [Procs -> Seq(Nat)]
  BY DEF SessionInv, TypeInv, ChannelType, ServerStep, fsVars, ServerType
<1>1. PICK m : m = Request
  OBVIOUS
<1>2. /\ m \in RequestType /\ requests # <<>> /\ requests' = Tail(requests)
      /\ \/ m.kind # "CLOSE" /\ \E a \in AnswerType : Answers(m, a) /\ answers' = Append(answers, a)
         \/ m.kind = "CLOSE" /\ answers' = answers
  BY <1>0, <1>1, ServerStepServes DEF Serves
<1>3. /\ 1 \in DOMAIN requests /\ m = requests[1]
      /\ \A i \in DOMAIN requests' :
           /\ i \in Nat /\ i + 1 \in DOMAIN requests /\ i + 1 # 1 /\ requests'[i] = requests[i + 1]
           /\ 1 < i + 1
  <2>1. /\ 1 \in DOMAIN requests /\ m = requests[1] /\ Len(requests) \in Nat
        /\ DOMAIN requests = 1 .. Len(requests)
        /\ \A i \in DOMAIN requests' :
             i \in Nat /\ i + 1 \in DOMAIN requests /\ i + 1 # 1 /\ requests'[i] = requests[i + 1]
    BY <1>0, <1>1, <1>2, TailFacts DEF Request
  <2> QED
    BY <2>1
<1>4. MessagesOk /\ WritesInOrder /\ WritersWait
  BY <1>0 DEF WriteInv
<1>5. ASSUME NEW i \in DOMAIN answers', IsWrite(answers'[i])
      PROVE  \/ \E j \in DOMAIN answers : answers'[i] = answers[j]
             \/ IsWrite(m) /\ answers'[i].seq = m.seq
  <2>1. CASE answers' = answers
    BY <2>1
  <2>2. ASSUME NEW a \in AnswerType, Answers(m, a), answers' = Append(answers, a)
        PROVE  \/ \E j \in DOMAIN answers : answers'[i] = answers[j]
               \/ IsWrite(m) /\ answers'[i].seq = m.seq
    <3>1. /\ DOMAIN answers = 1 .. Len(answers) /\ Len(answers) \in Nat
          /\ DOMAIN answers' = 1 .. Len(answers) + 1 /\ answers'[Len(answers) + 1] = a
          /\ \A k \in DOMAIN answers : answers'[k] = answers[k]
      BY <1>0, <2>2, AppendFacts
    <3>2. CASE i \in DOMAIN answers
      BY <3>1, <3>2
    <3>3. CASE i = Len(answers) + 1
      BY <1>5, <2>2, <3>1, <3>3 DEF Answers, IsWrite
    <3> QED
      BY <3>1, <3>2, <3>3
  <2> QED
    BY <1>2, <2>1, <2>2
<1>6. /\ ~IsWrite(m) => UNCHANGED stdout
      /\ \A q \in Procs : IsWrite(m) /\ q # m.writer => stdout'[q] = stdout[q]
  <2>1. ~IsWrite(m) => UNCHANGED stdout
    BY <1>0, <1>1, OnlyWritesPrint DEF IsWrite
  <2>2. ASSUME IsWrite(m), NEW q \in Procs, q # m.writer PROVE stdout'[q] = stdout[q]
    <3>1. write_file_request
      BY <1>0, <1>1, <2>2 DEF rl_file_serve, IsWrite
    <3> QED
      BY <1>0, <1>1, <2>2, <3>1 DEF write_file_request
  <2> QED
    BY <2>1, <2>2
<1>7. ASSUME NEW q \in Procs, IsWrite(m) => q # m.writer, NEW n, Printed(q, n)
      PROVE  Printed(q, n)'
  BY <1>0, <1>6, <1>7 DEF Printed, WriteData
<1>8. \A k \in DOMAIN pending : pending[k].packet \in Procs
  BY <1>0 DEF OpInv, Held
<1>9. PartInv' /\ \A q \in Procs : WriteOk(q)'
  <2>1. PartInv'
    BY <1>0 DEF WriteInv, PartInv
  <2>2. ASSUME NEW q \in Procs PROVE WriteOk(q)'
    <3>1. CASE ~WriteReplied(q)
      BY <1>0, <3>1 DEF WriteOk, WriteReplied
    <3>2. CASE WriteReplied(q)
      <4>1. IsWrite(m) => q # m.writer
        BY <1>3, <1>4, <3>2 DEF WritersWait
      <4>2. /\ OwnLock(q, packet[q].arg, TRUE) /\ packet[q].res = packet[q].count
            /\ Printed(q, packet[q].count)
        BY <3>2 DEF WriteInv, WriteOk
      <4>3. PICK n : n = packet[q].count
        OBVIOUS
      <4>4. Printed(q, n)'
        BY <1>7, <4>1, <4>2, <4>3
      <4> QED
        BY <1>0, <4>2, <4>3, <4>4 DEF WriteOk, OwnLock, Printed
    <3> QED
      BY <3>1, <3>2
  <2> QED
    BY <2>1, <2>2
<1>10. WritesInOrder'
  <2>1. ASSUME NEW i \in DOMAIN requests', NEW j \in DOMAIN requests', IsWrite(requests'[i]),
               IsWrite(requests'[j]), i < j
        PROVE  requests'[i].seq < requests'[j].seq
    <3>1. i + 1 < j + 1
      BY <1>3, <2>1
    <3> QED
      BY <1>3, <1>4, <2>1, <3>1 DEF WritesInOrder
  <2>2. ASSUME NEW i \in DOMAIN requests', NEW j \in DOMAIN answers', IsWrite(requests'[i]),
               IsWrite(answers'[j])
        PROVE  answers'[j].seq < requests'[i].seq
    <3>1. CASE \E k \in DOMAIN answers : answers'[j] = answers[k]
      BY <1>3, <1>4, <2>2, <3>1 DEF WritesInOrder
    <3>2. CASE IsWrite(m) /\ answers'[j].seq = m.seq
      BY <1>3, <1>4, <2>2, <3>2 DEF WritesInOrder
    <3> QED
      BY <1>5, <2>2, <3>1, <3>2
  <2> QED
    BY <2>1, <2>2 DEF WritesInOrder
<1>11. WritersWait'
  <2>1. ASSUME NEW i \in DOMAIN requests', IsWrite(requests'[i])
        PROVE  /\ ~WriteReplied(requests[i].writer)'
               /\ \A k \in DOMAIN pending' : pending'[k].packet = requests'[i].writer =>
                    requests'[i].seq <= pending'[k].request_seqno
    BY <1>0, <1>3, <1>4, <2>1 DEF WritersWait, WriteReplied
  <2>2. ASSUME NEW i \in DOMAIN requests', NEW j \in DOMAIN requests', NEW k \in DOMAIN pending',
               IsWrite(requests'[i]), IsWrite(requests'[j]),
               requests'[i].writer = requests'[j].writer,
               pending'[k].request_seqno = requests'[i].seq, pending'[k].source # 0
        PROVE  i = j
    <3>1. i + 1 = j + 1
      BY <1>0, <1>3, <1>4, <2>2 DEF WritersWait
    <3> QED
      BY <1>3, <3>1
  <2> QED
    BY <2>1, <2>2 DEF WritersWait
<1>12. ASSUME NEW i \in DOMAIN requests', IsWrite(requests'[i])
       PROVE  requests'[i].seq < seqno' /\ WriteAsked(requests[i])'
  <2>1. PICK r : r = requests[i + 1]
    OBVIOUS
  <2>2. /\ r = requests'[i] /\ IsWrite(r) /\ r.seq < seqno /\ WriteAsked(r) /\ i + 1 \in DOMAIN requests
        /\ i + 1 # 1
    BY <1>3, <1>4, <1>12, <2>1 DEF MessagesOk
  <2>3. ASSUME NEW k \in DOMAIN pending, pending[k].request_seqno = r.seq, pending[k].source # 0
        PROVE  Printed(pending[k].packet, pending[k].source)'
    <3>1. PICK q \in Procs : q = pending[k].packet
      BY <1>8
    <3>2. PICK n : n = pending[k].source
      OBVIOUS
    <3>3. Printed(q, n) /\ r.writer = q
      BY <2>2, <2>3, <3>1, <3>2 DEF WriteAsked
    <3>4. IsWrite(m) => m.writer # q
      BY <1>3, <1>4, <2>1, <2>2, <2>3, <3>3 DEF WritersWait
    <3>5. Printed(q, n)'
      BY <1>7, <3>3, <3>4
    <3> QED
      BY <1>0, <3>1, <3>2, <3>5 DEF Printed
  <2>4. WriteAsked(r)'
    BY <1>0, <2>2, <2>3, SMTT(30) DEF WriteAsked, Printed, WriteData
  <2> QED
    BY <1>0, <2>2, <2>4 DEF WriteAsked, WriteData
<1>13. ASSUME IsWrite(m) PROVE m.seq < seqno /\ WriteDone(m.seq)'
  <2>1. m.seq < seqno /\ WriteAsked(m) /\ write_file_request
    BY <1>0, <1>1, <1>3, <1>4, <1>13 DEF MessagesOk, rl_file_serve, IsWrite
  <2>2. ASSUME NEW k \in DOMAIN pending, pending[k].request_seqno = m.seq,
               lock[packet[pending[k].packet].arg].type = "VIRTUAL_OUTPUT"
        PROVE  stdout'[pending[k].packet] = WriteData(0, pending[k].source + pending[k].length)
    <3>1. PICK q \in Procs : q = pending[k].packet
      BY <1>8
    <3>2. PICK a \in Nat, b \in Nat : a = pending[k].source /\ b = pending[k].length
      BY <1>0, PendingFacts DEF TypeInv, OpType
    <3>3. /\ pending[k].expects = "WRITE" /\ m.writer = q /\ m.handle = lock[packet[q].arg].handle_id
          /\ m.source = a /\ m.data = WriteData(a, b)
          /\ a # 0 => Printed(q, a)
      BY <2>1, <2>2, <3>1, <3>2 DEF WriteAsked
    <3>4. packet[q].type = "WRITE" /\ q \in Held
      BY <1>0, <3>1, <3>3 DEF OpInv, Waits
    <3>5. packet[q].arg \in LockIds /\ lock[packet[q].arg] # NoLock
      BY <3>4 DEF SessionInv, ArgInv, ArgOk, OwnLock
    <3>6. m.handle = RL_FILEHANDLE_VIRTUAL_OUTPUT
      BY <2>2, <3>1, <3>3, <3>5 DEF OutInv, OutLock
    <3>7. stdout'[q] = IF a = 0 THEN WriteData(a, b) ELSE stdout[q] \o WriteData(a, b)
      BY <1>0, <1>1, <2>1, <3>3, <3>6 DEF write_file_request
    <3>8. CASE a = 0
      BY <3>1, <3>2, <3>7, <3>8
    <3>9. CASE a # 0
      <4>1. stdout[q] = WriteData(0, a)
        BY <2>2, <3>1, <3>3, <3>9 DEF Printed
      <4> QED
        BY <3>1, <3>2, <3>7, <3>9, <4>1, JoinWrites
    <3> QED
      BY <3>8, <3>9
  <2>3. \A k \in DOMAIN pending : pending[k].request_seqno = m.seq => pending[k].expects = "WRITE"
    BY <2>1 DEF WriteAsked
  <2> QED
    BY <1>0, <2>1, <2>2, <2>3 DEF WriteDone, Printed, WriteData
<1>14. ASSUME NEW i \in DOMAIN answers', IsWrite(answers'[i])
       PROVE  answers'[i].seq < seqno' /\ WriteDone(answers[i].seq)'
  <2>1. CASE \E j \in DOMAIN answers : answers'[i] = answers[j]
    <3>1. PICK j \in DOMAIN answers : answers'[i] = answers[j]
      BY <2>1
    <3>2. PICK seq : seq = answers[j].seq
      OBVIOUS
    <3>3. seq < seqno /\ WriteDone(seq) /\ seq = answers'[i].seq
      BY <1>4, <1>14, <3>1, <3>2 DEF MessagesOk
    <3>4. ASSUME NEW k \in DOMAIN pending, pending[k].request_seqno = seq
          PROVE  Printed(pending[k].packet, pending[k].source + pending[k].length)'
      <4>1. PICK q \in Procs : q = pending[k].packet
        BY <1>8
      <4>2. PICK n : n = pending[k].source + pending[k].length
        OBVIOUS
      <4>3. Printed(q, n)
        BY <3>3, <3>4, <4>1, <4>2 DEF WriteDone
      <4>4. ASSUME IsWrite(m), m.writer = q PROVE FALSE
        <5>1. m.seq <= seq
          BY <1>3, <1>4, <3>4, <4>1, <4>4 DEF WritersWait
        <5>2. seq < m.seq
          BY <1>3, <1>4, <1>14, <3>1, <3>2, <4>4 DEF WritesInOrder
        <5>3. m.seq \in Nat /\ seq \in Nat
          <6>1. m.seq \in Nat
            BY <1>2 DEF RequestType
          <6>2. pending[k].request_seqno \in Nat
            BY <1>0, PendingFacts DEF TypeInv, OpType
          <6> QED
            BY <3>4, <6>1, <6>2
        <5> QED
          BY <5>1, <5>2, <5>3
      <4>5. Printed(q, n)'
        BY <1>7, <4>3, <4>4
      <4> QED
        BY <1>0, <4>1, <4>2, <4>5 DEF Printed
    <3>5. WriteDone(seq)'
      BY <1>0, <3>3, <3>4 DEF WriteDone, Printed
    <3> QED
      BY <1>0, <3>3, <3>5 DEF WriteDone
  <2>2. CASE IsWrite(m) /\ answers'[i].seq = m.seq
    BY <1>0, <1>13, <2>2 DEF WriteDone
  <2> QED
    BY <1>5, <1>14, <2>1, <2>2
<1>15. MessagesOk'
  BY <1>12, <1>14 DEF MessagesOk
<1> QED
  BY <1>9, <1>10, <1>11, <1>15 DEF WriteInv

LEMMA WriteInvStep ==
  ASSUME SessionInv, OutInv, WriteInv, [Next]_vars
  PROVE  WriteInv'
<1>0. SessionInv'
  BY SessionStep
<1>1. ASSUME NEW p \in Procs, process_fs_packet(p), UNCHANGED serverVars PROVE WriteInv'
  BY <1>0, <1>1, WritePacket DEF serverVars
<1>2. CASE NetworkStep
  <2>1. rl_amigafs_process_network_message /\ UNCHANGED stdout
    BY <1>2 DEF NetworkStep, serverVars
  <2> QED
    BY <1>0, <2>1, WriteNetwork, Zenon
<1>3. CASE ServerStep
  BY <1>3, WriteServer
<1>4. ASSUME UNCHANGED <<packet, lock, pending, stdout>> PROVE PartInv' /\ \A q \in Procs : WriteOk(q)'
  BY <1>4 DEF WriteInv, PartInv, WriteOk, WriteReplied, OwnLock, Printed, WriteData
<1>5. CASE spawn_failure
  <2>1. /\ conn = "up" /\ UNCHANGED <<answers, packet, lock, pending, seqno, conn, stdout>>
        /\ requests \in Seq(RequestType)
    BY <1>5, SpawnSends DEF fsVars, serverVars, SessionInv, TypeInv, ChannelType
  <2>2. PICK msg : msg = ErrorAnswer(0, "SPAWN_FAILURE")
    OBVIOUS
  <2>3. msg \in RequestType /\ ~IsWrite(msg)
    BY <2>2 DEF ErrorAnswer, RequestType, NetErrors, IsWrite
  <2>4. requests' = Append(requests, msg)
    BY <1>5, <2>2 DEF spawn_failure
  <2>5. \A i \in DOMAIN requests' : IsWrite(requests'[i]) =>
          i \in DOMAIN requests /\ requests'[i] = requests[i]
    <3>1. /\ DOMAIN requests = 1 .. Len(requests) /\ Len(requests) \in Nat
          /\ DOMAIN requests' = 1 .. Len(requests) + 1 /\ requests'[Len(requests) + 1] = msg
          /\ \A k \in DOMAIN requests : requests'[k] = requests[k]
      BY <2>1, <2>3, <2>4, AppendFacts
    <3> QED
      BY <2>3, <3>1
  <2>6. MessagesOk /\ WritesInOrder /\ WritersWait
    BY <2>1 DEF WriteInv
  <2>7. MessagesOk'
    BY <2>1, <2>5, <2>6 DEF MessagesOk, WriteAsked, WriteDone, Printed, WriteData
  <2>8. WritesInOrder'
    BY <2>1, <2>5, <2>6 DEF WritesInOrder
  <2>9. WritersWait'
    BY <2>1, <2>5, <2>6 DEF WritersWait, WriteReplied
  <2> QED
    BY <1>4, <2>1, <2>7, <2>8, <2>9 DEF WriteInv
<1>6. CASE connection_lost \/ (rl_amigafs_destroy /\ UNCHANGED serverVars)
  <2>1. conn' # "up" /\ UNCHANGED <<packet, lock, pending, stdout>>
    BY <1>6 DEF connection_lost, rl_amigafs_destroy, serverVars
  <2> QED
    BY <1>4, <2>1 DEF WriteInv
<1>7. CASE UNCHANGED vars
  <2>1. UNCHANGED <<requests, answers, packet, lock, pending, seqno, conn, stdout>>
    BY <1>7 DEF vars, channels, fsVars, serverVars
  <2>2. /\ MessagesOk => MessagesOk'
        /\ WritesInOrder => WritesInOrder'
        /\ WritersWait => WritersWait'
    BY <2>1 DEF MessagesOk, WriteAsked, WriteDone, Printed, WriteData, WritesInOrder, WritersWait,
       WriteReplied
  <2> QED
    BY <1>4, <2>1, <2>2 DEF WriteInv
<1> QED
  BY <1>1, <1>2, <1>3, <1>5, <1>6, <1>7 DEF Next

LEMMA WriteInit ==
  ASSUME Init
  PROVE  WriteInv
<1>1. DOMAIN requests = {} /\ DOMAIN answers = {} /\ DOMAIN pending = {}
  BY DEF Init, FsInit
<1>2. \A p \in Procs : packet[p].type = "NONE"
  BY DEF Init, FsInit, Idle
<1> QED
  BY <1>1, <1>2 DEF WriteInv, PartInv, WriteOk, WriteReplied, MessagesOk, WritesInOrder, WritersWait

(* WriteComplete: when a write to the virtual output returns success, every *)
(* byte of it has been printed, in order and once, however many parts it    *)
(* took (action_write, complete_write and the server's write_file_request). *)
(* It needs that the writes under way are ordered by their numbers, and that*)
(* a part other than the first is alone under way for its writer: a first   *)
(* part may be left behind by the error that answers a failed launch        *)
(* (spawn_failure), whose number is that of the first request.              *)
THEOREM WritesAreComplete == Spec => []WriteComplete
<1>1. Init => OutInv /\ WriteInv
  BY OutInit, WriteInit
<1>2. SessionInv /\ OutInv /\ WriteInv /\ [Next]_vars => OutInv' /\ WriteInv'
  <2> SUFFICES ASSUME SessionInv, OutInv, WriteInv, [Next]_vars PROVE OutInv' /\ WriteInv'
    OBVIOUS
  <2> QED
    BY OutStep, WriteInvStep, Zenon
<1>3. WriteInv => WriteComplete
  BY DEF WriteInv, WriteOk, WriteReplied, Printed, WriteComplete
<1> QED
  BY <1>1, <1>2, <1>3, SessionInvariant, PTL DEF Spec


-----------------------------------------------------------------------------
(* Listing a directory.  The first request's number, zero, is also that of  *)
(* the error that answers a failed launch, so that error may be taken for   *)
(* the answer to the first request; which is never about a lock that has a  *)
(* handle of the server.                                                    *)

LockOf(op) == packet[op.packet].arg

FirstInv ==
  conn = "up" =>
    /\ Holding # {} => seqno # 0
    /\ \A i \in DOMAIN requests :
         requests[i].kind = "FIND" /\ requests[i].handle \in HandleIds => requests[i].seq # 0
    /\ \A k \in DOMAIN pending :
         pending[k].expects = "FIND" /\ LockOf(pending[k]) \in Holding =>
           pending[k].request_seqno # 0

(* What the handler sends in a step for p. *)
Sends(p) ==
  /\ seqno' \in Nat /\ seqno' >= seqno
  /\ \A i \in DOMAIN requests' :
       \/ \E j \in DOMAIN requests : requests'[i] = requests[j]
       \/ requests'[i].kind = "CLOSE"
       \/ /\ requests'[i].seq = seqno /\ seqno' = seqno + 1
          /\ \E k \in DOMAIN pending' :
               pending'[k].packet = p /\ Asks(requests[i], pending[k])'

LEMMA SendsOne ==
  ASSUME requests \in Seq(RequestType), seqno \in Nat, NEW p, NEW msg \in RequestType,
         transmit_message(msg), seqno' = seqno + 1, conn' = "up",
         \/ msg.kind = "CLOSE"
         \/ /\ msg.seq = seqno
            /\ \E k \in DOMAIN pending' : pending'[k].packet = p /\ Asks(msg, pending[k])'
  PROVE  conn = "up" /\ Sends(p)
<1>1. conn = "up" /\ requests' = Append(requests, msg)
  BY TransmitFacts
<1>2. \A i \in DOMAIN requests' :
        requests'[i] = msg \/ \E j \in DOMAIN requests : requests'[i] = requests[j]
  BY <1>1, SentOne
<1>3. seqno' \in Nat /\ seqno' >= seqno
  OBVIOUS
<1>4. ASSUME NEW i \in DOMAIN requests', requests'[i] = msg, msg.kind # "CLOSE"
      PROVE  /\ requests'[i].seq = seqno /\ seqno' = seqno + 1
             /\ \E k \in DOMAIN pending' :
                  pending'[k].packet = p /\ Asks(requests[i], pending[k])'
  <2>1. PICK k \in DOMAIN pending' : pending'[k].packet = p /\ Asks(msg, pending[k])'
    BY <1>4
  <2>2. Asks(requests[i], pending[k])'
    BY <1>4, <2>1 DEF Asks, PathOf, normalize_object_path
  <2> QED
    BY <1>4, <2>1, <2>2
<1> QED
  BY <1>1, <1>2, <1>3, <1>4 DEF Sends

LEMMA SendsNothing ==
  ASSUME seqno \in Nat, NEW p, UNCHANGED <<requests, seqno>>
  PROVE  Sends(p)
BY DEF Sends

LEMMA PacketAsks ==
  ASSUME SessionInv, NEW p \in Procs, Room(p), PacketStep(p), conn' = "up"
  PROVE  conn = "up" /\ Sends(p)
<1>0. FsType /\ OpInv /\ requests \in Seq(RequestType) /\ seqno \in Nat /\ p \notin Held
  BY DEF SessionInv, TypeInv, ChannelType, FsType, Room, Held
<1>1. CASE HoldStep(p)
  <2>1. PICK op \in OpType, msg \in RequestType :
          /\ pending' = <<op>> \o pending /\ op.packet = p /\ op.request_seqno = seqno
          /\ transmit_message(msg) /\ seqno' = seqno + 1 /\ Asks(msg, op)'
    BY <1>1 DEF HoldStep
  <2>2. 1 \in DOMAIN pending' /\ pending'[1] = op
    BY <1>0, <2>1, HoldOthersWait
  <2>3. msg.seq = seqno /\ Asks(msg, pending[1])'
    BY <2>1, <2>2 DEF Asks, PathOf, normalize_object_path
  <2> QED
    BY <1>0, <2>1, <2>2, <2>3, SendsOne
<1>2. CASE NothingSent \/ LostStep(p)
  <2>1. UNCHANGED <<requests, seqno>> /\ conn = "up"
    BY <1>2 DEF NothingSent, LostStep
  <2> QED
    BY <1>0, <2>1, SendsNothing
<1>3. ASSUME NEW l \in LockIds, Freed(p, l), seqno' = seqno + 1,
             transmit_message(CloseRequest(seqno, lock[l].handle_id))
      PROVE  conn = "up" /\ Sends(p)
  <2>1. PICK h \in Int : h = lock[l].handle_id
    BY <1>0, <1>3, LockTypes DEF Freed, LockType
  <2>2. PICK msg \in RequestType : msg = CloseRequest(seqno, h) /\ msg.kind = "CLOSE"
    BY <1>0, CloseMessage
  <2>3. transmit_message(msg)
    BY <1>3, <2>1, <2>2
  <2> QED
    BY <1>0, <1>3, <2>2, <2>3, SendsOne
<1> QED
  BY <1>1, <1>2, <1>3 DEF PacketStep, ReplyStep

LEMMA AnswerAsks ==
  ASSUME NEW op, SessionInv, Waiting(op), Received \in AnswerType, conn' = "up",
         CompleteStep(op) \/ RequeueStep(op)
  PROVE  Sends(op.packet)
<1>0. FsType /\ OpInv /\ requests \in Seq(RequestType) /\ seqno \in Nat
  BY DEF SessionInv, TypeInv, ChannelType, FsType
<1>1. CASE RequeueStep(op)
  <2>1. PICK new \in OpType, msg \in RequestType :
       /\ pending' = [i \in DOMAIN pending |-> IF pending[i] # op THEN pending[i] ELSE new]
       /\ new.packet = op.packet /\ new.request_seqno = seqno
       /\ transmit_message(msg) /\ seqno' = seqno + 1 /\ Asks(msg, new)'
    BY <1>1 DEF RequeueStep
  <2>2. PICK k \in DOMAIN pending : op = pending[k]
    BY DEF Waiting
  <2>3. k \in DOMAIN pending' /\ pending'[k] = new
    BY <1>0, <2>1, <2>2, RequeueFacts
  <2>4. msg.seq = seqno /\ Asks(msg, pending[k])'
    BY <2>1, <2>3 DEF Asks, PathOf, normalize_object_path
  <2> QED
    BY <1>0, <2>1, <2>3, <2>4, SendsOne
<1>2. CASE CompleteStep(op)
  <2>1. CASE NothingSent
    BY <1>0, <2>1, SendsNothing DEF NothingSent
  <2>2. CASE /\ Received.kind = "OPEN" /\ seqno' = seqno + 1
             /\ transmit_message(CloseRequest(seqno, Received.handle))
    <3>1. PICK h \in Int : h = Received.handle
      BY <2>2, OpenAnswered
    <3>2. PICK msg \in RequestType : msg = CloseRequest(seqno, h) /\ msg.kind = "CLOSE"
      BY <1>0, CloseMessage
    <3>3. transmit_message(msg)
      BY <2>2, <3>1, <3>2
    <3> QED
      BY <1>0, <2>2, <3>2, <3>3, SendsOne
  <2> QED
    BY <1>2, <2>1, <2>2 DEF CompleteStep
<1> QED
  BY <1>1, <1>2

LEMMA FirstHandler ==
  ASSUME SessionInv, SessionInv', FirstInv, NEW p \in Procs, NEW pkt \in PacketType, conn = "up",
         Puts(p, pkt), LockStep(p), OthersWait(p), Sends(p), Holding' # {} => seqno # 0
  PROVE  FirstInv'
<1>0. /\ FsType /\ OpInv /\ OpInv' /\ ArgInv /\ ArgInv' /\ seqno \in Nat /\ seqno' \in Nat
      /\ seqno' >= seqno
  BY DEF SessionInv, TypeInv, FsType, Sends
<1>1. Holding' # {} => seqno' # 0
  BY <1>0
<1>2. ASSUME NEW i \in DOMAIN requests', requests'[i].kind = "FIND", requests'[i].handle \in HandleIds
      PROVE  requests'[i].seq # 0
  <2>1. CASE \E j \in DOMAIN requests : requests'[i] = requests[j]
    BY <1>2, <2>1 DEF FirstInv
  <2>2. ASSUME requests'[i].seq = seqno, NEW k \in DOMAIN pending', pending'[k].packet = p,
               Asks(requests[i], pending[k])'
        PROVE  seqno # 0
    <3>1. /\ pending'[k].expects = "FIND" /\ pending'[k].expects = Waits(packet'[p].type)
          /\ requests'[i].handle = lock'[packet'[p].arg].handle_id
      BY <1>2, <2>2 DEF Asks
    <3>2. packet'[p].type = "EXAMINE_NEXT" /\ p \in Held'
      BY <1>0, <2>2, <3>1 DEF Waits, OpInv
    <3>3. packet'[p].arg \in LockIds /\ lock'[packet'[p].arg] # NoLock
      BY <1>0, <3>2 DEF ArgInv, ArgOk, OwnLock
    <3>4. packet'[p].arg \in Holding'
      BY <1>2, <3>1, <3>3 DEF Holding
    <3> QED
      BY <3>4
  <2> QED
    BY <1>2, <2>1, <2>2 DEF Sends
<1>3. ASSUME NEW j \in DOMAIN pending', pending'[j].expects = "FIND", LockOf(pending[j])' \in Holding'
      PROVE  pending'[j].request_seqno # 0
  <2>1. CASE pending'[j].request_seqno = seqno
    BY <1>3, <2>1
  <2>2. ASSUME pending'[j].packet # p, NEW k \in DOMAIN pending, pending'[j] = pending[k]
        PROVE  pending'[j].request_seqno # 0
    <3>1. PICK q \in Procs : q = pending[k].packet /\ q \in Held /\ pending[k].expects = Waits(packet[q].type)
      BY <1>0 DEF OpInv, Held
    <3>2. packet[q].type = "EXAMINE_NEXT"
      BY <1>3, <2>2, <3>1 DEF Waits
    <3>3. OwnLock(q, packet[q].arg, FALSE)
      BY <1>0, <3>1, <3>2 DEF ArgInv, ArgOk
    <3>4. SameHandle(lock'[packet[q].arg], lock[packet[q].arg]) /\ packet'[q] = packet[q]
      <4>1. q # p
        BY <2>2, <3>1
      <4>2. packet'[q] = packet[q]
        BY <1>0, <4>1, HeldChanges
      <4>3. SameHandle(lock'[packet[q].arg], lock[packet[q].arg])
        BY <1>0, <3>3, <4>1, OthersKeepLocks
      <4> QED
        BY <4>2, <4>3
    <3>5. packet[q].arg \in Holding
      BY <1>3, <2>2, <3>1, <3>3, <3>4 DEF Holding, LockOf, SameHandle, OwnLock
    <3> QED
      BY <1>3, <2>2, <3>1, <3>5 DEF FirstInv, LockOf
  <2> QED
    BY <2>1, <2>2 DEF OthersWait
<1> QED
  BY <1>1, <1>2, <1>3 DEF FirstInv

LEMMA FirstPacket ==
  ASSUME SessionInv, SessionInv', FirstInv, "COPY_DIR" \notin Ops, NEW p \in Procs, Room(p),
         PacketStep(p)
  PROVE  FirstInv'
<1>0. FsType
  BY DEF SessionInv, TypeInv
<1>1. CASE conn' # "up"
  BY <1>1 DEF FirstInv
<1>2. CASE conn' = "up"
  <2>1. PICK pkt \in PacketType : Puts(p, pkt)
    BY DEF PacketStep, ReplyStep, HoldStep, LostStep
  <2>2. conn = "up" /\ Sends(p) /\ OthersWait(p)
    BY <1>2, PacketAsks, PacketWaits DEF OnlyWaits
  <2>3. LockStep(p) /\ Holding' \subseteq Holding
    <3>1. CASE UNCHANGED lock
      BY <1>0, <3>1, TouchedRefl DEF Holding, LockStep
    <3>2. CASE Touched
      BY <1>0, <3>2, LocksKept DEF LockStep
    <3>3. ASSUME NEW r \in LockType, Created(p, r), r.handle_id \notin HandleIds
          PROVE  LockStep(p) /\ Holding' \subseteq Holding
      <4>1. LockStep(p)
        BY <3>3 DEF LockStep
      <4> QED
        BY <1>0, <3>3, <4>1, LocksKept
    <3>4. ASSUME NEW l \in LockIds, Freed(p, l) PROVE LockStep(p) /\ Holding' \subseteq Holding
      <4>1. LockStep(p)
        BY <3>4 DEF LockStep
      <4> QED
        BY <1>0, <3>4, <4>1, LocksKept
    <3> QED
      BY <3>1, <3>2, <3>3, <3>4 DEF PacketStep, ReplyStep, HoldStep, LostStep
  <2>4. Holding' # {} => seqno # 0
    BY <2>2, <2>3 DEF FirstInv
  <2> QED
    BY <2>1, <2>2, <2>3, <2>4, FirstHandler
<1> QED
  BY <1>1, <1>2

LEMMA FirstNetwork ==
  ASSUME SessionInv, SessionInv', FirstInv, rl_amigafs_process_network_message
  PROVE  FirstInv'
<1>0. FsType /\ OpInv /\ conn = "up" /\ Received \in AnswerType /\ seqno \in Nat
  BY NetworkSteps DEF SessionInv, TypeInv, FsType
<1>1. CASE conn' # "up"
  BY <1>1 DEF FirstInv
<1>2. CASE conn' = "up"
  <2>1. PICK op : Waiting(op) /\ (CompleteStep(op) \/ RequeueStep(op))
    BY <1>2, NetworkSteps
  <2>2. PICK p \in Procs, pkt \in PacketType : p = op.packet /\ Puts(p, pkt)
    BY <2>1 DEF CompleteStep, RequeueStep, Waiting
  <2>3. Sends(p) /\ OthersWait(p)
    BY <1>0, <1>2, <2>1, <2>2, AnswerAsks, AnswerWaits DEF OnlyWaits
  <2>4. LockStep(p)
    BY <1>0, <2>1, <2>2, TouchedRefl DEF CompleteStep, RequeueStep, LockStep
  <2>5. seqno # 0
    <3>1. PICK k \in DOMAIN pending : op = pending[k]
      BY <2>1 DEF Waiting
    <3>2. op.request_seqno < seqno /\ op.request_seqno \in Nat
      BY <1>0, <2>1, <3>1 DEF OpInv, Waiting, OpType
    <3> QED
      BY <3>2
  <2> QED
    BY <1>0, <2>2, <2>3, <2>4, <2>5, FirstHandler
<1> QED
  BY <1>1, <1>2

LEMMA FirstStep ==
  ASSUME SessionInv, FirstInv, [Next]_vars, "COPY_DIR" \notin Ops
  PROVE  FirstInv'
<1>0. SessionInv'
  BY SessionStep
<1>1. ASSUME NEW p \in Procs, process_fs_packet(p) PROVE FirstInv'
  <2>1. Room(p) /\ PacketStep(p)
    BY <1>1, PacketSteps DEF SessionInv
  <2> QED
    BY <1>0, <2>1, FirstPacket
<1>2. CASE NetworkStep
  <2>1. rl_amigafs_process_network_message
    BY <1>2 DEF NetworkStep
  <2> QED
    BY <1>0, <2>1, FirstNetwork, Zenon
<1>3. ASSUME conn' = "up" => conn = "up", UNCHANGED <<lock, packet, pending, seqno>>,
             \A i \in DOMAIN requests' :
               requests'[i].kind = "ERROR" \/ \E j \in DOMAIN requests : requests'[i] = requests[j]
      PROVE  FirstInv'
  BY <1>3 DEF FirstInv, Holding, LockOf
<1>4. CASE ServerStep
  <2>1. /\ requests \in Seq(RequestType) /\ UNCHANGED <<lock, conn, pending, packet, seqno>>
        /\ requests # <<>> /\ requests' = Tail(requests)
    BY <1>4 DEF SessionInv, TypeInv, ChannelType, ServerStep, fsVars, rl_file_serve
  <2>2. \A i \in DOMAIN requests' : \E j \in DOMAIN requests : requests'[i] = requests[j]
    BY <2>1, TailFacts
  <2> QED
    BY <1>3, <2>1, <2>2
<1>5. CASE spawn_failure
  BY <1>3, <1>5, SpawnSends DEF fsVars
<1>6. CASE connection_lost \/ rl_amigafs_destroy
  BY <1>6 DEF connection_lost, rl_amigafs_destroy, FirstInv
<1>7. CASE UNCHANGED vars
  BY <1>3, <1>7 DEF vars, channels, fsVars
<1> QED
  BY <1>1, <1>2, <1>4, <1>5, <1>6, <1>7 DEF Next

LEMMA FirstInit ==
  ASSUME Init
  PROVE  FirstInv
<1>1. DOMAIN requests = {} /\ DOMAIN pending = {} /\ Holding = {}
  BY DEF Init, FsInit, Holding
<1> QED
  BY <1>1 DEF FirstInv

IsDir(l) == l \in Holding /\ lock[l].type = "DIR"

(* The server's DIR* for the lock's directory has returned n entries. *)
At(l, n) == slot[lock[l].handle_id].dir = <<lock[l].path, n>> /\ n <= DirSize(lock[l].path)

ListedBy(q, l) ==
  packet[q].state = "held" /\ packet[q].type = "EXAMINE_NEXT" /\ packet[q].arg = l
Listing(l) == \E q \in Procs : ListedBy(q, l)

(* Between two EXAMINE_NEXT packets the DIR* has returned what was seen. *)
EnumOk(l) == IsDir(l) /\ lock[l].enum = TRUE /\ ~Listing(l) => At(l, lock[l].seen)

(* An answered EXAMINE_NEXT packet is what ListingInOrder says. *)
ListOk(q) ==
  LET pkt == packet[q]
      h == lock[pkt.arg]
  IN  pkt.type = "EXAMINE_NEXT" /\ pkt.state = "replied" =>
        /\ OwnLock(q, pkt.arg, FALSE)
        /\ h.handle_id # ROOT =>
             /\ pkt.err = "0" => pkt.data = <<<<h.path, h.seen>>>>
             /\ pkt.err = "NO_MORE_ENTRIES" => h.seen = DirSize(h.path)

(* A find request under way continues where the program is, or rewinds. *)
ListAsked(m) ==
  \A k \in DOMAIN pending : pending[k].request_seqno = m.seq =>
    LET l == LockOf(pending[k])
    IN  /\ pending[k].expects = "FIND" /\ m.handle = lock[l].handle_id
        /\ IsDir(l) => IF m.reset = TRUE THEN lock[l].seen = 0 ELSE At(l, lock[l].seen)

(* Its answer is the next entry, or the end after the last one... *)
ListFound(a) ==
  \A k \in DOMAIN pending : pending[k].request_seqno = a.seq =>
    LET l == LockOf(pending[k])
    IN  /\ pending[k].expects = "FIND"
        /\ lock[l].handle_id # ROOT => IsDir(l)
        /\ IsDir(l) =>
             IF a.end_of_sequence = TRUE
               THEN At(l, lock[l].seen) /\ lock[l].seen = DirSize(lock[l].path)
               ELSE a.entry = <<lock[l].path, lock[l].seen + 1>> /\ At(l, lock[l].seen + 1)

(* ... and no error, unless the lock is not one on a directory. *)
ListFailed(a) ==
  \A k \in DOMAIN pending :
    pending[k].request_seqno = a.seq /\ pending[k].expects = "FIND" => ~IsDir(LockOf(pending[k]))

ListInv ==
  /\ \A q \in Procs : ListOk(q)
  /\ conn = "up" =>
       /\ \A l \in LockIds : EnumOk(l)
       /\ \A i \in DOMAIN requests : requests[i].kind = "FIND" =>
            requests[i].seq < seqno /\ ListAsked(requests[i])
       /\ \A i \in DOMAIN answers : answers[i].kind = "FIND" =>
            answers[i].seq < seqno /\ ListFound(answers[i])
       /\ \A i \in DOMAIN answers : answers[i].kind = "ERROR" => ListFailed(answers[i])

LEMMA ListOkKept ==
  ASSUME SessionInv, NEW p \in Procs, NEW pkt \in PacketType, Puts(p, pkt), OthersLocks(p),
         NEW q \in Procs, q # p, ListOk(q)
  PROVE  ListOk(q)'
<1>1. packet'[q] = packet[q]
  BY HeldChanges DEF SessionInv, TypeInv
<1>2. CASE packet[q].type = "EXAMINE_NEXT" /\ packet[q].state = "replied"
  <2>1. OwnLock(q, packet[q].arg, FALSE)
    BY <1>2 DEF ListOk
  <2>2. lock'[packet[q].arg] = lock[packet[q].arg]
    BY <2>1 DEF OwnLock, OthersLocks
  <2> QED
    BY <1>1, <1>2, <2>1, <2>2 DEF ListOk, OwnLock
<1>3. CASE ~(packet[q].type = "EXAMINE_NEXT" /\ packet[q].state = "replied")
  BY <1>1, <1>3 DEF ListOk
<1> QED
  BY <1>2, <1>3

LEMMA DirKept ==
  ASSUME NEW l, lock'[l] = lock[l], UNCHANGED slot
  PROVE  /\ IsDir(l)' <=> IsDir(l)
         /\ \A n : At(l, n)' <=> At(l, n)
<1>1. IsDir(l)' <=> IsDir(l)
  BY DEF IsDir, Holding
<1>2. \A n : At(l, n)' <=> At(l, n)
  BY DEF At
<1> QED
  BY <1>1, <1>2

(* What the others' operations wait for stays as it is. *)
LEMMA ListAskedKept ==
  ASSUME SessionInv, NEW p \in Procs, NEW pkt \in PacketType, Puts(p, pkt), OthersLocks(p),
         OthersWait(p), UNCHANGED slot
  PROVE  /\ \A m : m.seq \in Nat /\ m.seq < seqno /\ ListAsked(m) => ListAsked(m)'
         /\ \A a : a.seq \in Nat /\ a.seq < seqno /\ ListFound(a) => ListFound(a)'
         /\ \A a : a.seq # seqno /\ ListFailed(a) => ListFailed(a)'
<1>0. seqno \in Nat
  BY DEF SessionInv, TypeInv, FsType
<1>1. ASSUME NEW j \in DOMAIN pending', pending'[j].request_seqno # seqno
      PROVE  \E k \in DOMAIN pending : pending'[j] = pending[k] /\ pending[k].packet # p
  BY <1>1 DEF OthersWait
<1>2. ASSUME NEW k \in DOMAIN pending, pending[k].expects = "FIND", pending[k].packet # p, NEW l,
             l = LockOf(pending[k])
      PROVE  packet'[pending[k].packet].arg = l /\ lock'[l] = lock[l]
  BY <1>2, WaitersKept DEF LockOf
<1>3. ASSUME NEW m, m.seq \in Nat, m.seq < seqno, ListAsked(m) PROVE ListAsked(m)'
  <2> SUFFICES ASSUME NEW j \in DOMAIN pending', pending'[j].request_seqno = m.seq, NEW l,
                      l = packet'[pending'[j].packet].arg
               PROVE  /\ pending'[j].expects = "FIND" /\ m.handle = lock'[l].handle_id
                      /\ IsDir(l)' => IF m.reset = TRUE THEN lock'[l].seen = 0 ELSE At(l, lock[l].seen)'
    BY DEF ListAsked, LockOf
  <2>1. PICK k \in DOMAIN pending : pending'[j] = pending[k] /\ pending[k].packet # p
    BY <1>0, <1>1, <1>3
  <2>2. pending[k].expects = "FIND"
    BY <1>3, <2>1 DEF ListAsked
  <2>3. l = LockOf(pending[k]) /\ lock'[l] = lock[l]
    BY <1>2, <2>1, <2>2
  <2>4. /\ m.handle = lock[l].handle_id
        /\ IsDir(l) => IF m.reset = TRUE THEN lock[l].seen = 0 ELSE At(l, lock[l].seen)
    BY <1>3, <2>1, <2>3 DEF ListAsked
  <2> QED
    BY <2>1, <2>2, <2>3, <2>4, DirKept DEF At
<1>4. ASSUME NEW a, a.seq \in Nat, a.seq < seqno, ListFound(a) PROVE ListFound(a)'
  <2> SUFFICES ASSUME NEW j \in DOMAIN pending', pending'[j].request_seqno = a.seq, NEW l,
                      l = packet'[pending'[j].packet].arg
               PROVE  /\ pending'[j].expects = "FIND"
                      /\ lock'[l].handle_id # ROOT => IsDir(l)'
                      /\ IsDir(l)' =>
                           IF a.end_of_sequence = TRUE
                             THEN At(l, lock[l].seen)' /\ lock'[l].seen = DirSize(lock'[l].path)
                             ELSE /\ a.entry = <<lock'[l].path, lock'[l].seen + 1>>
                                  /\ At(l, lock[l].seen + 1)'
    BY DEF ListFound, LockOf
  <2>1. PICK k \in DOMAIN pending : pending'[j] = pending[k] /\ pending[k].packet # p
    BY <1>0, <1>1, <1>4
  <2>2. pending[k].expects = "FIND"
    BY <1>4, <2>1 DEF ListFound
  <2>3. l = LockOf(pending[k]) /\ lock'[l] = lock[l]
    BY <1>2, <2>1, <2>2
  <2>4. /\ lock[l].handle_id # ROOT => IsDir(l)
        /\ IsDir(l) =>
             IF a.end_of_sequence = TRUE
               THEN At(l, lock[l].seen) /\ lock[l].seen = DirSize(lock[l].path)
               ELSE a.entry = <<lock[l].path, lock[l].seen + 1>> /\ At(l, lock[l].seen + 1)
    BY <1>4, <2>1, <2>3 DEF ListFound
  <2> QED
    BY <2>1, <2>2, <2>3, <2>4, DirKept DEF At
<1>5. ASSUME NEW a, a.seq # seqno, ListFailed(a) PROVE ListFailed(a)'
  <2> SUFFICES ASSUME NEW j \in DOMAIN pending', pending'[j].request_seqno = a.seq,
                      pending'[j].expects = "FIND", NEW l, l = packet'[pending'[j].packet].arg
               PROVE  ~IsDir(l)'
    BY DEF ListFailed, LockOf
  <2>1. PICK k \in DOMAIN pending : pending'[j] = pending[k] /\ pending[k].packet # p
    BY <1>1, <1>5
  <2>2. l = LockOf(pending[k]) /\ lock'[l] = lock[l]
    BY <1>2, <2>1
  <2>3. ~IsDir(l)
    BY <1>5, <2>1, <2>2 DEF ListFailed
  <2> QED
    BY <2>2, <2>3, DirKept
<1> QED
  BY <1>3, <1>4, <1>5

(* The locks of p stay in step with the server: a lock that is new, changed *)
(* or no longer being listed is one whose flag is clear, or that p lists    *)
(* now, or whose DIR* has returned what was seen.                           *)
EnumKept(p) ==
  \A l \in LockIds : lock'[l] # NoLock =>
    \/ lock[l] # NoLock /\ lock[l].owner # p
    \/ lock'[l].enum # TRUE
    \/ ListedBy(p, l)'
    \/ (IsDir(l)' => At(l, lock[l].seen)')
    \/ /\ lock[l] # NoLock /\ SameHandle(lock'[l], lock[l]) /\ lock'[l].enum = lock[l].enum
       /\ lock'[l].seen = lock[l].seen /\ ~ListedBy(p, l)

LEMMA EnumHandler ==
  ASSUME SessionInv, NEW p \in Procs, NEW pkt \in PacketType, Puts(p, pkt), OthersLocks(p),
         UNCHANGED slot, EnumKept(p), NEW l \in LockIds, EnumOk(l)
  PROVE  EnumOk(l)'
<1> SUFFICES ASSUME IsDir(l)', lock'[l].enum = TRUE, ~Listing(l)'
             PROVE  At(l, lock[l].seen)'
  BY DEF EnumOk
<1>0. FsType /\ ArgInv
  BY DEF SessionInv, TypeInv
<1>1. lock'[l] # NoLock
  BY DEF IsDir, Holding
<1>2. ASSUME lock[l] # NoLock, SameHandle(lock'[l], lock[l]), lock'[l].enum = lock[l].enum,
             lock'[l].seen = lock[l].seen, lock[l].owner # p \/ ~ListedBy(p, l)
      PROVE  At(l, lock[l].seen)'
  <2>1. IsDir(l) /\ lock[l].enum = TRUE
    BY <1>2 DEF IsDir, Holding, SameHandle
  <2>2. ASSUME NEW q \in Procs, ListedBy(q, l) PROVE FALSE
    <3>1. q \in Held /\ lock[l].owner = q
      BY <1>0, <2>2 DEF ListedBy, Held, ArgInv, ArgOk, OwnLock
    <3>2. q # p
      BY <1>2, <2>2, <3>1
    <3>3. packet'[q] = packet[q]
      BY <1>0, <3>2, HeldChanges
    <3>4. ListedBy(q, l)'
      BY <2>2, <3>3 DEF ListedBy
    <3> QED
      BY <3>4 DEF Listing
  <2>3. At(l, lock[l].seen)
    BY <2>1, <2>2 DEF EnumOk, Listing
  <2> QED
    BY <1>2, <2>3 DEF At, SameHandle
<1>3. CASE lock[l] # NoLock /\ lock[l].owner # p
  <2>1. lock'[l] = lock[l]
    BY <1>3 DEF OthersLocks
  <2>2. SameHandle(lock'[l], lock[l])
    BY <2>1 DEF SameHandle
  <2> QED
    BY <1>2, <1>3, <2>1, <2>2
<1>4. ~ListedBy(p, l)'
  BY DEF Listing
<1> QED
  BY <1>1, <1>2, <1>3, <1>4 DEF EnumKept

(* A find request that is sent in a step for p is in step with the server. *)
NewFind ==
  \A i \in DOMAIN requests' : requests'[i].kind = "FIND" =>
    \/ \E j \in DOMAIN requests : requests'[i] = requests[j]
    \/ requests'[i].seq < seqno' /\ ListAsked(requests[i])'

NumInv == SeqInv({0})

LEMMA NumbersOut ==
  ASSUME SessionInv, NumInv, conn = "up", NEW i \in DOMAIN answers, answers[i].seq # 0
  PROVE  answers[i].seq # seqno
<1>1. SeqOk(requests, answers, Expected, {0}) /\ FsType /\ OpInv
  BY DEF NumInv, SeqInv, SessionInv, TypeInv
<1>2. i \in Answering(answers, {0})
  BY DEF Answering
<1>3. PICK x \in Expected : x[1] = answers[i].seq
  BY <1>1, <1>2 DEF SeqOk
<1> QED
  BY <1>1, <1>3, ExpectedNew

LEMMA ListHandler ==
  ASSUME SessionInv, NumInv, FirstInv', ListInv, NEW p \in Procs, NEW pkt \in PacketType,
         Puts(p, pkt), OthersLocks(p), OthersWait(p), UNCHANGED slot, ListOk(p)',
         conn' = "up" =>
           /\ conn = "up" /\ seqno' \in Nat /\ seqno' >= seqno /\ NewFind /\ EnumKept(p)
           /\ \A i \in DOMAIN answers' : \E j \in DOMAIN answers : answers'[i] = answers[j]
  PROVE  ListInv'
<1>0. /\ requests \in Seq(RequestType) /\ answers \in Seq(AnswerType) /\ seqno \in Nat
  BY DEF SessionInv, TypeInv, ChannelType, FsType
<1>1. ASSUME NEW q \in Procs PROVE ListOk(q)'
  BY ListOkKept DEF ListInv
<1> SUFFICES ASSUME conn' = "up"
             PROVE  /\ \A l \in LockIds : EnumOk(l)'
                    /\ \A i \in DOMAIN requests' : requests'[i].kind = "FIND" =>
                         requests'[i].seq < seqno' /\ ListAsked(requests[i])'
                    /\ \A i \in DOMAIN answers' : answers'[i].kind = "FIND" =>
                         answers'[i].seq < seqno' /\ ListFound(answers[i])'
                    /\ \A i \in DOMAIN answers' : answers'[i].kind = "ERROR" =>
                         ListFailed(answers[i])'
  BY <1>1 DEF ListInv
<1>2. conn = "up" /\ seqno' \in Nat /\ seqno' >= seqno
  OBVIOUS
<1>3. ASSUME NEW l \in LockIds PROVE EnumOk(l)'
  <2>1. EnumOk(l)
    BY <1>2 DEF ListInv
  <2> QED
    BY <2>1, EnumHandler
<1>4. ASSUME NEW i \in DOMAIN requests', requests'[i].kind = "FIND"
      PROVE  requests'[i].seq < seqno' /\ ListAsked(requests[i])'
  <2>1. CASE \E j \in DOMAIN requests : requests'[i] = requests[j]
    <3>1. PICK j \in DOMAIN requests : requests'[i] = requests[j]
      BY <2>1
    <3>2. PICK m \in RequestType : m = requests[j]
      BY <1>0, <3>1, ElementOfSeq, LenProperties
    <3>3. m.seq \in Nat /\ m.seq < seqno /\ ListAsked(m)
      BY <1>2, <1>4, <3>1, <3>2 DEF ListInv, RequestType
    <3>4. ListAsked(m)'
      BY <3>3, ListAskedKept
    <3>5. m.seq < seqno'
      BY <1>0, <1>2, <3>3
    <3> QED
      BY <3>1, <3>2, <3>4, <3>5 DEF ListAsked
  <2> QED
    BY <1>4, <2>1 DEF NewFind
<1>5. ASSUME NEW i \in DOMAIN answers', answers'[i].kind = "FIND"
      PROVE  answers'[i].seq < seqno' /\ ListFound(answers[i])'
  <2>1. PICK j \in DOMAIN answers : answers'[i] = answers[j]
    BY <1>5
  <2>2. PICK a \in AnswerType : a = answers[j]
    BY <1>0, <2>1, ElementOfSeq, LenProperties
  <2>3. a.seq \in Nat /\ a.seq < seqno /\ ListFound(a)
    BY <1>2, <1>5, <2>1, <2>2 DEF ListInv, AnswerType
  <2>4. ListFound(a)'
    BY <2>3, ListAskedKept
  <2>5. a.seq < seqno'
    BY <1>0, <1>2, <2>3
  <2> QED
    BY <2>1, <2>2, <2>4, <2>5 DEF ListFound
<1>6. ASSUME NEW i \in DOMAIN answers', answers'[i].kind = "ERROR" PROVE ListFailed(answers[i])'
  <2>1. PICK j \in DOMAIN answers : answers'[i] = answers[j]
    BY <1>6
  <2>2. PICK a : a = answers[j]
    OBVIOUS
  <2>3. ListFailed(a)
    BY <1>2, <1>6, <2>1, <2>2 DEF ListInv
  <2>4. ListFailed(a)'
    <3>1. CASE a.seq # seqno
      BY <2>3, <3>1, ListAskedKept
    <3>2. CASE a.seq = seqno
      <4>1. a.seq = 0
        BY <1>2, <2>1, <2>2, <3>2, NumbersOut
      <4> QED
        BY <4>1 DEF FirstInv, ListFailed, IsDir
    <3> QED
      BY <3>1, <3>2
  <2> QED
    BY <2>1, <2>2, <2>4 DEF ListFailed
<1> QED
  BY <1>3, <1>4, <1>5, <1>6

(* The handler sends a find request for an EXAMINE_NEXT packet only. *)
LEMMA NoFind ==
  ASSUME OpInv', NEW p, Sends(p), packet'[p].type # "EXAMINE_NEXT" \/ packet'[p].state # "held"
  PROVE  NewFind
<1>1. ASSUME NEW i \in DOMAIN requests', requests'[i].kind = "FIND", NEW k \in DOMAIN pending',
             pending'[k].packet = p, Asks(requests[i], pending[k])'
      PROVE  FALSE
  <2>1. Waits(packet'[p].type) = "FIND" /\ p \in Held'
    BY <1>1 DEF Asks, OpInv
  <2>2. packet'[p].type = "EXAMINE_NEXT"
    BY <2>1 DEF Waits
  <2> QED
    BY <2>1, <2>2 DEF Held
<1> QED
  BY <1>1 DEF Sends, NewFind

LEMMA EnumCalm ==
  ASSUME NEW p, Calm(p), \A l \in LockIds : ~ListedBy(p, l)
  PROVE  EnumKept(p)
BY DEF Calm, FreshFor, SameData, EnumKept

LEMMA ListOtherPacket ==
  ASSUME NEW p \in Procs, SessionInv, SessionInv', NumInv, FirstInv', ListInv, Room(p),
         PacketStep(p), UNCHANGED <<answers, slot>>, Calm(p), packet'[p].type # "EXAMINE_NEXT"
  PROVE  ListInv'
<1>1. PICK pkt \in PacketType : Puts(p, pkt)
  BY DEF PacketStep, ReplyStep, HoldStep, LostStep
<1>2. OthersWait(p) /\ OthersLocks(p) /\ OpInv' /\ ListOk(p)'
  BY PacketWaits DEF OnlyWaits, Calm, SessionInv, ListOk
<1>3. EnumKept(p)
  BY EnumCalm DEF Room, ListedBy
<1>4. ASSUME conn' = "up"
      PROVE  /\ conn = "up" /\ seqno' \in Nat /\ seqno' >= seqno /\ NewFind
             /\ \A i \in DOMAIN answers' : \E j \in DOMAIN answers : answers'[i] = answers[j]
  <2>1. conn = "up" /\ Sends(p)
    BY <1>4, PacketAsks
  <2> QED
    BY <1>2, <2>1, NoFind DEF Sends
<1> QED
  BY <1>1, <1>2, <1>3, <1>4, ListHandler

(* EXAMINE_NEXT asks for the next entry, or for the first one when the flag *)
(* is clear.                                                                *)
LEMMA ListBegun ==
  ASSUME NEW p \in Procs, SessionInv, SessionInv', NumInv, FirstInv', ListInv,
         action_examine_next(p), Room(p), PacketStep(p), UNCHANGED <<answers, slot>>
  PROVE  ListInv'
<1>0. /\ FsType /\ ArgInv /\ requests \in Seq(RequestType) /\ seqno \in Nat /\ p \notin Held
      /\ OpInv' /\ TypeInv'
  BY DEF SessionInv, TypeInv, ChannelType, FsType, Room, Held
<1>1. PICK l \in Locks(p, FALSE) :
         \/ /\ Hold(p, NewPacket("EXAMINE_NEXT", l, <<>>, 0, 0), "FIND", 0,
                    FindRequest(seqno, lock[l].handle_id, ~EnumInProgress(lock[l])))
            /\ lock' = [lock EXCEPT ![l].enum = lock[l].type # "DEVICE",
                                    ![l].seen = IF ~EnumInProgress(lock[l]) THEN 0 ELSE @]
         \/ HoldFails(p, NewPacket("EXAMINE_NEXT", l, <<>>, 0, 0)) /\ UNCHANGED lock
  BY Zenon DEF action_examine_next
<1>2. PICK reset \in BOOLEAN : reset = ~EnumInProgress(lock[l])
  BY Zenon
<1>3. PICK pkt : pkt = NewPacket("EXAMINE_NEXT", l, <<>>, 0, 0)
  OBVIOUS
<1>4. \/ /\ Hold(p, pkt, "FIND", 0, FindRequest(seqno, lock[l].handle_id, reset))
         /\ lock' = [lock EXCEPT ![l].enum = lock[l].type # "DEVICE",
                                 ![l].seen = IF reset THEN 0 ELSE @]
      \/ HoldFails(p, pkt) /\ UNCHANGED lock
  BY <1>1, <1>2, <1>3
<1>5. l \in LockIds /\ lock[l] # NoLock /\ lock[l].owner = p /\ lock[l].fh = FALSE /\ lock[l] \in LockType
  BY <1>0, <1>1, LockTypes DEF Locks
<1>6. /\ pkt \in PacketType /\ pkt.type = "EXAMINE_NEXT" /\ pkt.arg = l /\ pkt.state = "held"
  <2>1. /\ "EXAMINE_NEXT" \in Types /\ <<>> \in Seq(STRING) /\ 0 \in Nat
        /\ l \in LockIds \cup {NullLock}
    BY <1>5 DEF Types
  <2>2. FreshPacket(pkt, "EXAMINE_NEXT", l, <<>>, 0, 0)
    BY <1>3, <2>1, NewPacketIsFresh, Zenon
  <2> QED
    BY <2>2 DEF FreshPacket
<1>7. OthersWait(p) /\ OthersLocks(p)
  BY <1>0, PacketWaits, ExamineTaken DEF OnlyWaits
<1>8. \A k \in LockIds : ~ListedBy(p, k)
  BY <1>0 DEF ListedBy, Held
<1>9. CASE HoldFails(p, pkt) /\ UNCHANGED lock
  <2>1. PICK x : x = Replied(pkt, 0, "NO_FREE_STORE")
    OBVIOUS
  <2>2. /\ x \in PacketType /\ x.state = "replied" /\ x.type = "EXAMINE_NEXT" /\ x.arg = l
        /\ x.err = "NO_FREE_STORE"
    <3>1. 0 \in Int \cup LockIds /\ "NO_FREE_STORE" \in DosErrors
      BY DEF DosErrors
    <3> QED
      BY <1>6, <2>1, <3>1, RepliedType
  <2>3. Puts(p, x) /\ packet'[p] = x
    BY <1>0, <1>9, <2>1, <2>2 DEF HoldFails, reply_to_packet, Puts, FsType
  <2>4. ListOk(p)'
    BY <1>5, <1>9, <2>2, <2>3 DEF ListOk, OwnLock
  <2>5. EnumKept(p)
    BY <1>8, <1>9, CalmSame, EnumCalm
  <2>6. ASSUME conn' = "up"
        PROVE  /\ conn = "up" /\ seqno' \in Nat /\ seqno' >= seqno /\ NewFind
               /\ \A i \in DOMAIN answers' : \E j \in DOMAIN answers : answers'[i] = answers[j]
    <3>1. conn = "up" /\ Sends(p)
      BY <2>6, PacketAsks
    <3>2. NewFind
      BY <1>0, <2>2, <2>3, <3>1, NoFind
    <3> QED
      BY <3>1, <3>2 DEF Sends
  <2> QED
    BY <1>7, <2>2, <2>3, <2>4, <2>5, <2>6, ListHandler
<1>10. CASE /\ Hold(p, pkt, "FIND", 0, FindRequest(seqno, lock[l].handle_id, reset))
           /\ lock' = [lock EXCEPT ![l].enum = lock[l].type # "DEVICE",
                                   ![l].seen = IF reset THEN 0 ELSE @]
  <2>1. Puts(p, pkt) /\ packet'[p] = pkt
    BY <1>0, <1>6, <1>10 DEF Hold, Puts, FsType
  <2>2. ListOk(p)'
    BY <1>6, <2>1 DEF ListOk
  <2>3. /\ \A k \in LockIds : k # l => lock'[k] = lock[k]
        /\ SameHandle(lock'[l], lock[l]) /\ lock'[l].seen = IF reset THEN 0 ELSE lock[l].seen
    <3>1. PICK enum \in BOOLEAN : enum = (lock[l].type # "DEVICE")
      OBVIOUS
    <3>2. PICK seen : seen = IF reset THEN 0 ELSE lock[l].seen
      OBVIOUS
    <3>3. PICK r : r = [lock[l] EXCEPT !.enum = enum, !.seen = seen]
      OBVIOUS
    <3>4. lock' = [lock EXCEPT ![l] = r]
      BY <1>0, <1>5, <1>10, <3>1, <3>2, <3>3 DEF FsType
    <3>5. SameHandle(r, lock[l]) /\ r.seen = seen
      BY <1>5, <3>3 DEF LockType, SameHandle
    <3>6. \A k \in LockIds : lock'[k] = IF k = l THEN r ELSE lock[k]
      BY <1>0, <3>4 DEF FsType
    <3> QED
      BY <1>5, <3>2, <3>5, <3>6
  <2>4. EnumKept(p)
    <3>1. ListedBy(p, l)'
      BY <1>6, <2>1 DEF ListedBy
    <3>2. ASSUME NEW k \in LockIds, lock'[k] # NoLock, k # l
          PROVE  /\ lock[k] # NoLock /\ SameHandle(lock'[k], lock[k])
                 /\ lock'[k].enum = lock[k].enum /\ lock'[k].seen = lock[k].seen
      BY <2>3, <3>2 DEF SameHandle
    <3> QED
      BY <1>8, <3>1, <3>2 DEF EnumKept
  <2>5. PICK op, msg :
          /\ op = [request_seqno |-> seqno, packet |-> p, expects |-> "FIND", source |-> 0, length |-> 0]
          /\ msg = FindRequest(seqno, lock[l].handle_id, reset)
    OBVIOUS
  <2>6. /\ op \in OpType /\ op.request_seqno = seqno /\ op.packet = p /\ op.expects = "FIND"
        /\ msg \in RequestType /\ msg.kind = "FIND" /\ msg.seq = seqno
        /\ msg.handle = lock[l].handle_id /\ msg.reset = reset
    <3>1. lock[l].handle_id \in Int
      BY <1>5 DEF LockType
    <3>2. msg \in RequestType
      BY <1>0, <2>5, <3>1, RequestTypes
    <3> QED
      BY <1>0, <2>5, <3>2 DEF OpType, FindRequest
  <2>7. pending' = <<op>> \o pending /\ transmit_message(msg) /\ seqno' = seqno + 1
    BY <1>10, <2>5 DEF Hold, alloc_pending
  <2>8. 1 \in DOMAIN pending' /\ pending'[1] = op
    BY <1>0, <2>6, <2>7, PrependFacts, PendingFacts
  <2>9. \A k \in DOMAIN pending' : pending'[k].request_seqno = seqno => pending'[k] = op
    BY <1>0, <2>6, <2>8 DEF OpInv
  <2>10. ASSUME IsDir(l)', conn = "up"
         PROVE  IF msg.reset = TRUE THEN lock'[l].seen = 0 ELSE At(l, lock[l].seen)'
    <3>1. IsDir(l) /\ lock[l].type = "DIR"
      BY <1>5, <2>3, <2>10 DEF IsDir, Holding, SameHandle
    <3>2. CASE reset
      BY <2>3, <2>6, <3>2
    <3>3. CASE ~reset
      <4>1. lock[l].enum = TRUE
        <5>1. EnumInProgress(lock[l]) = lock[l].enum
          BY <3>1 DEF EnumInProgress
        <5>2. lock[l].enum \in BOOLEAN
          BY <1>5 DEF LockType
        <5> QED
          BY <1>2, <3>3, <5>1, <5>2
      <4>2. ASSUME NEW q \in Procs, ListedBy(q, l) PROVE FALSE
        <5>1. q \in Held /\ lock[l].owner = q
          BY <1>0, <4>2 DEF ListedBy, Held, ArgInv, ArgOk, OwnLock
        <5> QED
          BY <1>0, <1>5, <5>1
      <4>3. At(l, lock[l].seen)
        BY <1>5, <2>10, <3>1, <4>1, <4>2 DEF ListInv, EnumOk, Listing
      <4>4. lock'[l].seen = lock[l].seen
        BY <2>3, <3>3
      <4>5. At(l, lock[l].seen)'
        BY <2>3, <4>3, <4>4 DEF At, SameHandle
      <4> QED
        BY <2>6, <3>3, <4>5
    <3> QED
      BY <3>2, <3>3
  <2>11. ASSUME conn = "up" PROVE ListAsked(msg)'
    <3>1. ASSUME NEW k \in DOMAIN pending', pending'[k].request_seqno = msg.seq
          PROVE  /\ pending'[k].expects = "FIND" /\ packet'[pending'[k].packet].arg = l
                 /\ msg.handle = lock'[l].handle_id
      BY <1>6, <2>1, <2>3, <2>6, <2>9, <3>1 DEF SameHandle
    <3> QED
      BY <2>10, <2>11, <3>1 DEF ListAsked, LockOf
  <2>12. ASSUME conn' = "up"
         PROVE  /\ conn = "up" /\ seqno' \in Nat /\ seqno' >= seqno /\ NewFind
                /\ \A i \in DOMAIN answers' : \E j \in DOMAIN answers : answers'[i] = answers[j]
    <3>1. conn = "up" /\ requests' = Append(requests, msg)
      BY <1>0, <2>6, <2>7, <2>12, TransmitFacts
    <3>2. \A i \in DOMAIN requests' :
            requests'[i] = msg \/ \E j \in DOMAIN requests : requests'[i] = requests[j]
      BY <1>0, <2>6, <3>1, SentOne
    <3>3. msg.seq < seqno' /\ seqno' \in Nat /\ seqno' >= seqno
      BY <1>0, <2>6, <2>7
    <3>4. NewFind
      <4>1. ASSUME NEW i \in DOMAIN requests', requests'[i] = msg PROVE ListAsked(requests[i])'
        BY <2>11, <3>1, <4>1 DEF ListAsked
      <4> QED
        BY <3>2, <3>3, <4>1 DEF NewFind
    <3> QED
      BY <3>1, <3>3, <3>4
  <2> QED
    BY <1>6, <1>7, <2>1, <2>2, <2>4, <2>12, ListHandler
<1> QED
  BY <1>4, <1>9, <1>10

LEMMA ListPacket ==
  ASSUME SessionInv, SessionInv', OutInv, NumInv, FirstInv', ListInv, NEW p \in Procs,
         process_fs_packet(p), UNCHANGED slot
  PROVE  ListInv'
<1>0. FsType
  BY DEF SessionInv, TypeInv
<1>1. Room(p) /\ PacketStep(p) /\ answers' = answers
  BY PacketSteps DEF SessionInv
<1>2. CASE Quiet(p)
  BY <1>1, <1>2, ListOtherPacket DEF Quiet, DataTypes
<1>3. CASE action_read(p)
  <2>1. Calm(p) /\ packet'[p].type = "READ"
    BY <1>0, <1>3, ReadMoves
  <2> QED
    BY <1>1, <2>1, ListOtherPacket
<1>4. CASE action_write(p)
  <2>1. Calm(p) /\ packet'[p].type = "WRITE"
    BY <1>0, <1>4, WriteTaken, CalmSame
  <2> QED
    BY <1>1, <2>1, ListOtherPacket
<1>5. CASE action_examine_next(p)
  BY <1>1, <1>5, ListBegun
<1> QED
  BY <1>0, <1>2, <1>3, <1>4, <1>5, QuietPackets

LEMMA TouchedAnswer ==
  ASSUME FsType, NEW op, CompleteStep(op) \/ RequeueStep(op), Received.kind # "OPEN"
  PROVE  Touched
BY TouchedRefl DEF CompleteStep, RequeueStep

LEMMA ListOtherAnswer ==
  ASSUME NEW op, NEW p \in Procs, SessionInv, SessionInv', NumInv, FirstInv', ListInv,
         p = op.packet, Waiting(op), conn = "up", Received \in AnswerType, answers # <<>>,
         answers' = Tail(answers), CompleteStep(op) \/ RequeueStep(op), UNCHANGED slot,
         OthersLocks(p), ListOk(p)', conn' = "up" => EnumKept(p),
         packet'[p].type # "EXAMINE_NEXT" \/ packet'[p].state # "held"
  PROVE  ListInv'
<1>1. PICK pkt \in PacketType : Puts(p, pkt)
  BY DEF CompleteStep, RequeueStep
<1>2. OthersWait(p) /\ OpInv' /\ answers \in Seq(AnswerType)
  BY AnswerWaits DEF OnlyWaits, SessionInv, TypeInv, ChannelType
<1>3. \A i \in DOMAIN answers' : \E j \in DOMAIN answers : answers'[i] = answers[j]
  BY <1>2, TailFacts
<1>4. ASSUME conn' = "up" PROVE seqno' \in Nat /\ seqno' >= seqno /\ NewFind
  <2>1. Sends(p)
    BY <1>4, AnswerAsks
  <2> QED
    BY <1>2, <2>1, NoFind DEF Sends
<1> QED
  BY <1>1, <1>2, <1>3, <1>4, ListHandler

(* An error ends a listing only of what is no directory. *)
LEMMA ListRefused ==
  ASSUME NEW op, NEW p \in Procs, SessionInv, ListInv, p = op.packet, Waiting(op), conn = "up",
         op.request_seqno = Received.seq, answers # <<>>, UNCHANGED slot, FailedStep(op)
  PROVE  /\ OthersLocks(p) /\ ListOk(p)' /\ packet'[p].state # "held"
         /\ conn' = "up" => EnumKept(p)
<1>0. FsType /\ answers \in Seq(AnswerType)
  BY DEF SessionInv, TypeInv, ChannelType
<1>1. PICK err, x :
        /\ err \in DosErrors \ {"0", "NO_MORE_ENTRIES"} /\ packet' = [packet EXCEPT ![p] = x]
        /\ x = Replied(packet[p], 0, err) /\ UNCHANGED lock
  BY DEF FailedStep
<1>2. packet[p] \in PacketType /\ ArgOk(p)
  BY DEF Waiting
<1>3. /\ packet'[p] = x /\ x.state = "replied" /\ x.err = err /\ x.type = packet[p].type
      /\ x.arg = packet[p].arg
  BY <1>0, <1>1, <1>2 DEF FsType, Replied, PacketType
<1>4. ListOk(p)'
  BY <1>1, <1>2, <1>3 DEF ListOk, ArgOk, OwnLock
<1>5. ASSUME conn' = "up" PROVE EnumKept(p)
  <2>1. Received.kind = "ERROR"
    BY <1>5 DEF FailedStep
  <2>2. Received = answers[1] /\ 1 \in DOMAIN answers
    BY <1>0, TailFacts DEF Received
  <2>3. ListFailed(Received)
    BY <2>1, <2>2 DEF ListInv
  <2>4. ASSUME NEW l \in LockIds, ListedBy(p, l) PROVE ~IsDir(l)'
    <3>1. op.expects = "FIND" /\ LockOf(op) = l
      BY <2>4 DEF Waiting, ListedBy, Waits, LockOf
    <3>2. PICK k \in DOMAIN pending : op = pending[k]
      BY DEF Waiting
    <3>3. ~IsDir(l)
      BY <2>3, <3>1, <3>2 DEF ListFailed
    <3>4. lock'[l] = lock[l]
      BY <1>1
    <3> QED
      BY <3>3, <3>4, DirKept
  <2>5. \A l \in LockIds : SameHandle(lock'[l], lock[l])
    BY <1>1 DEF SameHandle
  <2> QED
    BY <1>1, <2>4, <2>5 DEF EnumKept
<1>6. OthersLocks(p)
  BY <1>1 DEF OthersLocks
<1> QED
  BY <1>3, <1>4, <1>5, <1>6

(* An entry, or the end, is passed on. *)
LEMMA ListContinued ==
  ASSUME NEW op, NEW p \in Procs, SessionInv, ListInv, p = op.packet, Waiting(op), conn = "up",
         op.request_seqno = Received.seq, answers # <<>>, Received \in AnswerType, UNCHANGED slot,
         packet[p].type = "EXAMINE_NEXT", Received.kind = op.expects, complete_examine_next(op)
  PROVE  OthersLocks(p) /\ ListOk(p)' /\ packet'[p].state # "held" /\ EnumKept(p)
<1>0. FsType /\ answers \in Seq(AnswerType)
  BY DEF SessionInv, TypeInv, ChannelType
<1>1. PICK pkt \in PacketType : pkt = packet[p] /\ pkt.type = "EXAMINE_NEXT"
  BY DEF Waiting
<1>2. PICK l \in LockIds : l = pkt.arg /\ OwnLock(p, l, FALSE)
  BY <1>1 DEF Waiting, ArgOk, OwnLock
<1>3. PICK h \in LockType : h = lock[l] /\ h.owner = p /\ h.seen \in Nat /\ h.enum \in BOOLEAN
  <2>1. lock[l] \in LockType
    BY <1>0, <1>2, LockTypes DEF OwnLock
  <2> QED
    BY <1>2, <2>1 DEF OwnLock, LockType
<1>4. PICK more \in BOOLEAN : more = ~Received.end_of_sequence
  BY Zenon
<1>5. Received.end_of_sequence \in BOOLEAN /\ Received.kind = "FIND" /\ op.expects = "FIND"
  <2>1. Received.kind = "FIND" /\ op.expects = "FIND"
    BY DEF Waiting, Waits
  <2> QED
    BY <2>1 DEF AnswerType
<1>6. PICK data : data = IF more THEN <<Received.entry>> ELSE <<>>
  OBVIOUS
<1>7. PICK err : err = IF more THEN "0" ELSE "NO_MORE_ENTRIES"
  OBVIOUS
<1>8. PICK x : x = Replied([pkt EXCEPT !.data = data], IF more THEN 1 ELSE 0, err)
  OBVIOUS
<1>9. packet' = [packet EXCEPT ![p] = x]
  BY <1>0, <1>1, <1>4, <1>6, <1>7, <1>8 DEF complete_examine_next, FsType
<1>10. /\ packet'[p] = x /\ x.type = "EXAMINE_NEXT" /\ x.state = "replied" /\ x.arg = l
       /\ x.data = data /\ x.err = err
  <2>1. /\ x.type = "EXAMINE_NEXT" /\ x.state = "replied" /\ x.arg = l
        /\ x.data = data /\ x.err = err
    BY <1>1, <1>2, <1>8 DEF Replied, PacketType
  <2> QED
    BY <1>0, <1>9, <2>1 DEF FsType
<1>11. PICK enum \in BOOLEAN : enum = (h.enum /\ more)
  BY Zenon
<1>12. PICK seen \in Nat : seen = IF more THEN h.seen + 1 ELSE h.seen
  BY <1>3
<1>13. PICK r : r = [h EXCEPT !.enum = enum, !.seen = seen]
  OBVIOUS
<1>14. lock' = [lock EXCEPT ![l] = r]
  <2>1. lock' = [lock EXCEPT ![l].enum = h.enum /\ more,
                             ![l].seen = IF more THEN h.seen + 1 ELSE h.seen]
    BY <1>0, <1>1, <1>2, <1>3, <1>4 DEF complete_examine_next, FsType
  <2> QED
    BY <1>0, <1>3, <1>11, <1>12, <1>13, <2>1 DEF FsType, LockType
<1>15. r \in LockType /\ SameHandle(r, h) /\ r.enum = enum /\ r.seen = seen
  BY <1>13 DEF LockType, SameHandle
<1>16. lock'[l] = r /\ \A k \in LockIds : k # l => lock'[k] = lock[k]
  BY <1>0, <1>2, <1>14 DEF FsType
<1>17. OthersLocks(p)
  BY <1>3, <1>16 DEF OthersLocks
<1>18. /\ h.handle_id # ROOT => IsDir(l)
       /\ IsDir(l) =>
            IF Received.end_of_sequence = TRUE
              THEN At(l, h.seen) /\ h.seen = DirSize(h.path)
              ELSE Received.entry = <<h.path, h.seen + 1>> /\ At(l, h.seen + 1)
  <2>1. Received = answers[1] /\ 1 \in DOMAIN answers
    BY <1>0, TailFacts DEF Received
  <2>2. ListFound(Received)
    BY <1>5, <2>1 DEF ListInv
  <2>3. PICK k \in DOMAIN pending : op = pending[k]
    BY DEF Waiting
  <2>4. LockOf(op) = l
    BY <1>1, <1>2 DEF LockOf
  <2> QED
    BY <1>3, <2>2, <2>3, <2>4 DEF ListFound
<1>19. /\ more => Received.end_of_sequence # TRUE
       /\ ~more => Received.end_of_sequence = TRUE
  BY <1>4, <1>5
<1>20. ListOk(p)'
  <2>1. OwnLock(p, l, FALSE)'
    BY <1>2, <1>3, <1>15, <1>16, LockTypes DEF OwnLock, SameHandle
  <2>2. ASSUME r.handle_id # ROOT
        PROVE  /\ x.err = "0" => x.data = <<<<r.path, r.seen>>>>
               /\ x.err = "NO_MORE_ENTRIES" => r.seen = DirSize(r.path)
    <3>1. IsDir(l) /\ r.path = h.path
      BY <1>15, <1>18, <2>2 DEF SameHandle
    <3>2. CASE more
      <4>1. Received.entry = <<h.path, seen>>
        BY <1>12, <1>18, <1>19, <3>1, <3>2
      <4> QED
        BY <1>6, <1>7, <1>10, <1>15, <3>1, <3>2, <4>1
    <3>3. CASE ~more
      BY <1>7, <1>10, <1>12, <1>15, <1>18, <1>19, <3>1, <3>3
    <3> QED
      BY <3>2, <3>3
  <2> QED
    BY <1>10, <1>16, <2>1, <2>2 DEF ListOk
<1>21. EnumKept(p)
  <2>1. ASSUME NEW k \in LockIds, k # l, lock'[k] # NoLock
        PROVE  /\ lock[k] # NoLock /\ SameHandle(lock'[k], lock[k])
               /\ lock'[k].enum = lock[k].enum /\ lock'[k].seen = lock[k].seen /\ ~ListedBy(p, k)
    BY <1>1, <1>2, <1>16, <2>1 DEF SameHandle, ListedBy
  <2>2. ASSUME more, IsDir(l)' PROVE At(l, lock[l].seen)'
    <3>1. IsDir(l)
      BY <1>2, <1>3, <1>15, <1>16, <2>2 DEF IsDir, Holding, SameHandle, OwnLock
    <3>2. At(l, seen)
      BY <1>12, <1>18, <1>19, <2>2, <3>1
    <3> QED
      BY <1>3, <1>15, <1>16, <3>2 DEF At, SameHandle
  <2>3. ~more => lock'[l].enum # TRUE
    BY <1>11, <1>15, <1>16
  <2> QED
    BY <2>1, <2>2, <2>3 DEF EnumKept
<1> QED
  BY <1>10, <1>17, <1>20, <1>21

LEMMA ListNetwork ==
  ASSUME SessionInv, SessionInv', OutInv, NumInv, FirstInv', ListInv,
         rl_amigafs_process_network_message, UNCHANGED slot
  PROVE  ListInv'
<1>0. FsType /\ answers \in Seq(AnswerType) /\ answers # <<>> /\ conn = "up"
      /\ answers' = Tail(answers) /\ Received \in AnswerType
  BY NetworkSteps DEF SessionInv, TypeInv, ChannelType
<1>1. CASE ~Found
  <2>1. conn' = "failed" /\ UNCHANGED <<packet, lock>>
    BY <1>1, NetworkSteps
  <2>2. \A q \in Procs : ListOk(q)'
    BY <2>1 DEF ListInv, ListOk, OwnLock
  <2> QED
    BY <2>1, <2>2 DEF ListInv
<1>2. CASE Found
  <2>0. PICK op : op = find_pending_op
    OBVIOUS
  <2>1. PICK p \in Procs : p = op.packet /\ Waiting(op)
    BY <1>2, <2>0, FoundWaits DEF Waiting
  <2>2. (CompleteStep(op) \/ RequeueStep(op)) /\ op.request_seqno = Received.seq
    BY <1>0, <1>2, <2>0, NetworkSteps, FoundOp
  <2>3. ASSUME OthersLocks(p), EnumKept(p), packet'[p].type # "EXAMINE_NEXT" PROVE ListInv'
    <3>1. ListOk(p)'
      BY <2>3 DEF ListOk
    <3> QED
      BY <1>0, <2>1, <2>2, <2>3, <3>1, ListOtherAnswer
  <2>4. CASE Quiet(p) /\ packet[p].type \notin DataTypes
    <3>1. EnumKept(p)
      BY <2>4, EnumCalm DEF Quiet, DataTypes, ListedBy
    <3> QED
      BY <2>3, <2>4, <3>1 DEF Quiet, Calm, DataTypes
  <2>5. CASE FailedStep(op)
    <3>1. /\ OthersLocks(p) /\ ListOk(p)' /\ packet'[p].state # "held"
          /\ conn' = "up" => EnumKept(p)
      BY <1>0, <2>1, <2>2, <2>5, ListRefused
    <3> QED
      BY <1>0, <2>1, <2>2, <3>1, ListOtherAnswer
  <2>6. CASE packet[p].type = "READ" /\ complete_read(op) /\ Received.kind = op.expects
    <3>1. /\ packet'[p].type = "READ" /\ OthersLocks(p)
          /\ \A k \in LockIds : lock[k] # NoLock =>
               lock'[k].enum = lock[k].enum /\ lock'[k].seen = lock[k].seen
      BY <2>1, <2>6, ReadReturns
    <3>2. Touched
      <4>1. Received.kind = "READ"
        BY <2>1, <2>6 DEF Waiting, Waits
      <4> QED
        BY <1>0, <2>2, <4>1, TouchedAnswer
    <3>3. EnumKept(p)
      BY <2>6, <3>1, <3>2 DEF EnumKept, Touched, ListedBy
    <3> QED
      BY <2>3, <3>1, <3>3
  <2>7. CASE packet[p].type = "WRITE" /\ complete_write(op)
    <3>1. UNCHANGED lock /\ packet'[p].type = "WRITE"
      <4>1. PICK x : x = packet[p] /\ x \in PacketType
        BY <2>1 DEF Waiting
      <4>2. \/ UNCHANGED packet
            \/ packet' = [packet EXCEPT ![p] = Replied(x, x.count, "0")]
        BY <2>1, <2>7, <4>1 DEF complete_write, Complete, reply_to_packet
      <4>3. Replied(x, x.count, "0").type = x.type
        BY <4>1 DEF Replied, PacketType
      <4> QED
        BY <1>0, <2>7, <4>1, <4>2, <4>3 DEF FsType, complete_write
    <3>2. Calm(p)
      BY <3>1, CalmSame
    <3>3. EnumKept(p)
      BY <2>7, <3>2, EnumCalm DEF ListedBy
    <3> QED
      BY <2>3, <3>1, <3>2, <3>3 DEF Calm
  <2>8. CASE /\ packet[p].type = "EXAMINE_NEXT" /\ complete_examine_next(op)
             /\ Received.kind = op.expects
    <3>1. OthersLocks(p) /\ ListOk(p)' /\ packet'[p].state # "held" /\ EnumKept(p)
      BY <1>0, <2>1, <2>2, <2>8, ListContinued
    <3> QED
      BY <1>0, <2>1, <2>2, <3>1, ListOtherAnswer
  <2> QED
    BY <1>2, <2>0, <2>1, <2>4, <2>5, <2>6, <2>7, <2>8, QuietAnswers
<1> QED
  BY <1>1, <1>2

(* Only find requests move a DIR*. *)
LEMMA OtherDirs ==
  ASSUME TypeInv, rl_file_serve, Request.kind # "FIND", NEW h \in HandleIds
  PROVE  slot'[h].dir = slot[h].dir
<1>1. slot \in [HandleIds -> SlotType] /\ slot[h] \in SlotType
  BY DEF TypeInv, ServerType
<1>2. CASE UNCHANGED slot
  BY <1>2
<1>3. CASE open_handle_fails
  <2>1. FreeId \in HandleIds /\ slot' = [slot EXCEPT ![FreeId].type = "FILE"]
    BY <1>3, FreeIdIsFree DEF open_handle_fails
  <2> QED
    BY <1>1, <2>1 DEF SlotType
<1>4. CASE open_handle_succeeds
  <2>1. PICK handle, type, path :
          slot' = [slot EXCEPT ![FreeId].handle = handle, ![FreeId].type = type,
                               ![FreeId].path = path]
    BY <1>4 DEF open_handle_succeeds
  <2>2. FreeId \in HandleIds
    BY <1>4, FreeIdIsFree DEF open_handle_succeeds
  <2> QED
    BY <1>1, <2>1, <2>2 DEF SlotType
<1>5. CASE close_handle_request
  BY <1>1, <1>5 DEF close_handle_request, closed_slot, SlotType
<1> QED
  BY <1>2, <1>3, <1>4, <1>5 DEF rl_file_serve, open_handle_request, open_handle_too_many,
     open_handle_not_found, read_file_request, write_file_request, bad_request, serverVars

(* The answer to a find request for a directory: d is the DIR* that it      *)
(* continues.                                                               *)
NextEntry(d, a, after) ==
  IF d[2] >= DirSize(d[1]) THEN a.end_of_sequence = TRUE /\ after = d
  ELSE /\ a.end_of_sequence = FALSE /\ a.entry = <<d[1], d[2] + 1>>
       /\ after = <<d[1], d[2] + 1>>

LEMMA FindServed ==
  ASSUME TypeInv, IoMayFail = FALSE, rl_file_serve, NEW m, m = Request, m.kind = "FIND"
  PROVE  \/ /\ ~IsDirectory(m.handle) /\ UNCHANGED slot
            /\ \E a : a.kind = "ERROR" /\ answers' = Append(answers, a)
         \/ /\ IsDirectory(m.handle)
            /\ \A h \in HandleIds : h # m.handle => slot'[h] = slot[h]
            /\ \E a : /\ a.kind = "FIND" /\ answers' = Append(answers, a)
                      /\ m.handle \in HandleIds =>
                           NextEntry(rewound(slot[m.handle].dir, slot[m.handle].path), a,
                                     slot'[m.handle].dir)
<1>1. find_next_file_not_dir \/ find_next_file_succeeds
  BY DEF rl_file_serve, find_next_file_request, find_next_file_fails
<1>2. CASE find_next_file_not_dir
  <2>1. PICK a : a = ErrorAnswer(m.seq, "NOT_A_DIRECTORY")
    OBVIOUS
  <2>2. a.kind = "ERROR" /\ answers' = Append(answers, a)
    BY <1>2, <2>1 DEF find_next_file_not_dir, reply_with_error, Answer, ErrorAnswer
  <2> QED
    BY <1>2, <2>2 DEF find_next_file_not_dir, serverVars
<1>3. CASE find_next_file_succeeds
  <2>0. slot \in [HandleIds -> SlotType] /\ IsDirectory(m.handle)
    BY <1>3 DEF TypeInv, ServerType, find_next_file_succeeds
  <2>1. PICK d : d = FindDir
    OBVIOUS
  <2>9. PICK end \in BOOLEAN : end = (d[2] >= DirSize(d[1]))
    <3>1. (d[2] >= DirSize(d[1])) \in BOOLEAN
      OBVIOUS
    <3> QED
      BY <3>1, Zenon
  <2>2. PICK next : next = <<d[1], d[2] + 1>>
    OBVIOUS
  <2>3. PICK a : a = FindAnswer(m.seq, end, IF end THEN NoDir ELSE next)
    OBVIOUS
  <2>4. PICK after : after = IF end THEN d ELSE next
    OBVIOUS
  <2>5. /\ a.kind = "FIND" /\ a.end_of_sequence = end /\ (~end => a.entry = next)
    BY <2>3 DEF FindAnswer
  <2>6. answers' = Append(answers, a) /\ SetFindDir(after)
    BY <1>3, <2>1, <2>2, <2>3, <2>4, <2>9 DEF find_next_file_succeeds, Answer
  <2>7. CASE m.handle = ROOT
    <3>1. UNCHANGED slot /\ m.handle \notin HandleIds
      BY <2>6, <2>7, SpecialIds DEF SetFindDir
    <3> QED
      BY <2>0, <2>5, <2>6, <3>1
  <2>8. CASE m.handle # ROOT
    <3>1. slot' = [slot EXCEPT ![m.handle].dir = after] /\ m.handle \in HandleIds
      BY <2>0, <2>6, <2>8 DEF SetFindDir, IsDirectory
    <3>2. /\ slot'[m.handle].dir = after
          /\ \A h \in HandleIds : h # m.handle => slot'[h] = slot[h]
      BY <2>0, <3>1 DEF SlotType
    <3>3. d = rewound(slot[m.handle].dir, slot[m.handle].path)
      BY <2>1, <2>8 DEF FindDir
    <3>4. NextEntry(d, a, after)
      BY <2>2, <2>4, <2>5, <2>9 DEF NextEntry
    <3> QED
      BY <2>0, <2>5, <2>6, <3>2, <3>3, <3>4
  <2> QED
    BY <2>7, <2>8
<1> QED
  BY <1>1, <1>2, <1>3

(* The locks that operations list. *)
LEMMA FindOps ==
  ASSUME SessionInv
  PROVE  /\ \A k \in DOMAIN pending : pending[k].expects = "FIND" =>
              /\ LockOf(pending[k]) \in LockIds /\ lock[LockOf(pending[k])] # NoLock
              /\ Listing(LockOf(pending[k]))
         /\ \A j, k \in DOMAIN pending :
              (/\ pending[j].expects = "FIND" /\ pending[k].expects = "FIND"
               /\ LockOf(pending[j]) = LockOf(pending[k]))
              => j = k
<1>1. ASSUME NEW k \in DOMAIN pending, pending[k].expects = "FIND", NEW q, q = pending[k].packet
      PROVE  q \in Procs /\ packet[q].type = "EXAMINE_NEXT" /\ OwnLock(q, packet[q].arg, FALSE)
             /\ packet[q].state = "held"
  <2>1. q \in Held /\ packet[q].type = "EXAMINE_NEXT"
    BY <1>1 DEF SessionInv, OpInv, Waits
  <2> QED
    BY <2>1 DEF SessionInv, ArgInv, ArgOk, Held
<1>2. ASSUME NEW k \in DOMAIN pending, pending[k].expects = "FIND"
      PROVE  /\ LockOf(pending[k]) \in LockIds /\ lock[LockOf(pending[k])] # NoLock
             /\ Listing(LockOf(pending[k])) /\ lock[LockOf(pending[k])].owner = pending[k].packet
  <2>1. PICK q : q = pending[k].packet
    OBVIOUS
  <2>2. PICK l : l = packet[q].arg
    OBVIOUS
  <2>3. /\ q \in Procs /\ packet[q].type = "EXAMINE_NEXT" /\ packet[q].state = "held"
        /\ l \in LockIds /\ lock[l] # NoLock /\ lock[l].owner = q
    BY <1>1, <1>2, <2>1, <2>2 DEF OwnLock
  <2>4. LockOf(pending[k]) = l
    BY <2>1, <2>2 DEF LockOf
  <2>5. Listing(l)
    BY <2>2, <2>3 DEF Listing, ListedBy
  <2> QED
    BY <2>1, <2>3, <2>4, <2>5
<1>3. ASSUME NEW j \in DOMAIN pending, NEW k \in DOMAIN pending, pending[j].expects = "FIND",
             pending[k].expects = "FIND", LockOf(pending[j]) = LockOf(pending[k])
      PROVE  j = k
  <2>1. pending[j].packet = pending[k].packet
    BY <1>2, <1>3
  <2> QED
    BY <2>1 DEF SessionInv, OpInv
<1> QED
  BY <1>2, <1>3

(* The operation that waits for the answer to a request. *)
LEMMA OpOfRequest ==
  ASSUME SessionInv, NumInv, conn = "up", NEW i \in DOMAIN requests, requests[i].kind # "CLOSE",
         requests[i].seq # 0
  PROVE  /\ \E k \in DOMAIN pending :
              pending[k].request_seqno = requests[i].seq /\ pending[k].expects = requests[i].kind
         /\ \A j \in DOMAIN requests :
              requests[j].kind # "CLOSE" /\ requests[j].seq = requests[i].seq => j = i
         /\ \A j \in DOMAIN answers : answers[j].seq # requests[i].seq
<1>1. SeqOk(requests, answers, Expected, {0})
  BY DEF NumInv, SeqInv
<1>2. i \in Asking(requests, {0})
  BY DEF Asking
<1>3. <<requests[i].seq, requests[i].kind>> \in Expected
  BY <1>1, <1>2 DEF SeqOk
<1>4. \E k \in DOMAIN pending :
        pending[k].request_seqno = requests[i].seq /\ pending[k].expects = requests[i].kind
  <2>1. PICK k \in DOMAIN pending :
          <<requests[i].seq, requests[i].kind>> = <<pending[k].request_seqno, pending[k].expects>>
    BY <1>3, Zenon DEF Expected
  <2> QED
    BY <2>1
<1>5. ASSUME NEW j \in DOMAIN requests, requests[j].kind # "CLOSE", requests[j].seq = requests[i].seq
      PROVE  j = i
  <2>1. j \in Asking(requests, {0})
    BY <1>5 DEF Asking
  <2> QED
    BY <1>1, <1>2, <1>5, <2>1 DEF SeqOk
<1>6. ASSUME NEW j \in DOMAIN answers, answers[j].seq = requests[i].seq PROVE FALSE
  <2>1. j \in Answering(answers, {0})
    BY <1>6 DEF Answering
  <2> QED
    BY <1>1, <1>2, <1>6, <2>1 DEF SeqOk
<1> QED
  BY <1>4, <1>5, <1>6


(* A find request for the handle of a lock: its operation lists that lock. *)
LEMMA FindOwner ==
  ASSUME SessionInv, OwnInv, NumInv, FirstInv, ListInv, conn = "up", NEW i \in DOMAIN requests,
         requests[i].kind = "FIND", NEW l \in Holding, lock[l].handle_id = requests[i].handle
  PROVE  /\ requests[i].seq # 0
         /\ \E k \in DOMAIN pending :
              /\ pending[k].request_seqno = requests[i].seq /\ pending[k].expects = "FIND"
              /\ LockOf(pending[k]) = l
<1>1. requests[i].seq # 0
  BY DEF FirstInv, Holding
<1>2. PICK k \in DOMAIN pending :
        pending[k].request_seqno = requests[i].seq /\ pending[k].expects = requests[i].kind
  BY <1>1, OpOfRequest
<1>3. PICK m : m = LockOf(pending[k])
  OBVIOUS
<1>4. lock[m].handle_id = requests[i].handle
  <2>1. ListAsked(requests[i])
    BY DEF ListInv
  <2> QED
    BY <1>2, <1>3, <2>1 DEF ListAsked
<1>5. m \in LockIds /\ lock[m] # NoLock
  BY <1>2, <1>3, FindOps
<1>6. m \in Holding /\ DistinctLocks
  BY <1>4, <1>5 DEF Holding, OwnInv
<1>7. m = l
  BY <1>4, <1>6 DEF DistinctLocks
<1> QED
  BY <1>1, <1>2, <1>3, <1>7

(* The server moves the DIR* of a lock only for a request that lists it. *)
LEMMA DirServed ==
  ASSUME SessionInv, OwnInv, NumInv, FirstInv, ListInv, ServerStep, IoMayFail = FALSE,
         NEW l \in Holding, NEW m, m = Request, requests # <<>>, 1 \in DOMAIN requests,
         m = requests[1],
         slot'[lock[l].handle_id].dir # slot[lock[l].handle_id].dir
  PROVE  /\ m.kind = "FIND" /\ m.handle = lock[l].handle_id /\ m.seq # 0
         /\ \E k \in DOMAIN pending :
              /\ pending[k].request_seqno = m.seq /\ pending[k].expects = "FIND"
              /\ LockOf(pending[k]) = l
<1>1. TypeInv /\ conn = "up" /\ rl_file_serve
  BY DEF SessionInv, ServerStep
<1>2. PICK h \in HandleIds : h = lock[l].handle_id
  BY DEF Holding
<1>3. m.kind = "FIND"
  BY <1>1, <1>2, OtherDirs
<1>4. m.handle = h
  <2>1. UNCHANGED slot \/ \A g \in HandleIds : g # m.handle => slot'[g] = slot[g]
    BY <1>1, <1>3, FindServed
  <2> QED
    BY <1>2, <2>1
<1> QED
  BY <1>1, <1>2, <1>3, <1>4, FindOwner

(* The answer that the server gives for a directory. *)
LEMMA ListServed ==
  ASSUME SessionInv, NameInv, conn = "up", UNCHANGED <<lock, pending, packet>>,
         NEW m \in RequestType, m = Request, m.kind = "FIND", ListAsked(m), IsDirectory(m.handle),
         NEW a, a.seq = m.seq,
         m.handle \in HandleIds =>
           NextEntry(rewound(slot[m.handle].dir, slot[m.handle].path), a, slot'[m.handle].dir)
  PROVE  ListFound(a)'
<1>1. SUFFICES ASSUME NEW k \in DOMAIN pending, pending[k].request_seqno = a.seq,
                      NEW l, l = LockOf(pending[k])
               PROVE  /\ pending[k].expects = "FIND"
                      /\ lock[l].handle_id # ROOT => IsDir(l)
                      /\ IsDir(l) =>
                           IF a.end_of_sequence = TRUE
                             THEN At(l, lock[l].seen)' /\ lock[l].seen = DirSize(lock[l].path)
                             ELSE /\ a.entry = <<lock[l].path, lock[l].seen + 1>>
                                  /\ At(l, lock[l].seen + 1)'
  <2>1. \A l : IsDir(l)' <=> IsDir(l)
    BY DEF IsDir, Holding
  <2>2. \A k \in DOMAIN pending : LockOf(pending[k])' = LockOf(pending[k])
    BY DEF LockOf
  <2> QED
    BY <2>1, <2>2 DEF ListFound, At
<1>2. /\ pending[k].expects = "FIND" /\ m.handle = lock[l].handle_id
      /\ IsDir(l) => IF m.reset = TRUE THEN lock[l].seen = 0 ELSE At(l, lock[l].seen)
  BY <1>1 DEF ListAsked
<1>3. l \in LockIds /\ lock[l] # NoLock
  BY <1>1, <1>2, FindOps
<1>4. slot \in [HandleIds -> SlotType] /\ lock[l] \in LockType
  BY <1>3 DEF SessionInv, TypeInv, ServerType, FsType
<1>5. ASSUME lock[l].handle_id # ROOT PROVE IsDir(l)
  <2>1. m.handle \in HandleIds /\ slot[m.handle].type = "DIR"
    BY <1>2, <1>5 DEF IsDirectory
  <2>2. l \in Holding
    BY <1>2, <1>3, <2>1 DEF Holding
  <2>3. Named(l)
    BY <2>2 DEF NameInv
  <2> QED
    BY <1>2, <2>1, <2>2, <2>3 DEF Named, IsDir
<1>6. ASSUME IsDir(l)
      PROVE  IF a.end_of_sequence = TRUE
               THEN At(l, lock[l].seen)' /\ lock[l].seen = DirSize(lock[l].path)
               ELSE a.entry = <<lock[l].path, lock[l].seen + 1>> /\ At(l, lock[l].seen + 1)'
  <2>1. PICK h \in HandleIds : h = lock[l].handle_id
    BY <1>6 DEF IsDir, Holding
  <2>2. PICK path : path = lock[l].path
    OBVIOUS
  <2>3. PICK n \in Nat : n = lock[l].seen
    BY <1>4 DEF LockType
  <2>4. slot[h].path = path /\ path \in Paths
    <3>1. Named(l)
      BY <1>6 DEF IsDir, NameInv
    <3>2. slot[h].path \in Paths
      BY <1>4, <2>1 DEF SlotType, Paths
    <3> QED
      BY <2>1, <2>2, <3>1, <3>2 DEF Named
  <2>5. DirSize(path) \in Nat
    BY <2>4, PathTypes
  <2>6. PICK d : d = rewound(slot[h].dir, slot[h].path)
    OBVIOUS
  <2>7. d = <<path, n>> /\ n <= DirSize(path)
    <3>1. CASE m.reset = TRUE
      <4>1. n = 0
        BY <1>2, <1>6, <2>3, <3>1
      <4>2. d = <<path, 0>>
        BY <2>4, <2>6, <3>1 DEF rewound
      <4> QED
        BY <2>5, <4>1, <4>2
    <3>2. CASE m.reset # TRUE
      <4>1. At(l, n)
        BY <1>2, <1>6, <2>3, <3>2
      <4>2. slot[h].dir = <<path, n>> /\ n <= DirSize(path)
        BY <2>1, <2>2, <4>1 DEF At
      <4>3. slot[h].dir # NoDir
        BY <4>2 DEF NoDir
      <4>4. m.reset = FALSE
        BY <3>2 DEF RequestType
      <4>5. d = slot[h].dir
        BY <2>6, <4>3, <4>4 DEF rewound
      <4> QED
        BY <4>2, <4>5
    <3> QED
      BY <3>1, <3>2
  <2>8. NextEntry(d, a, slot'[h].dir)
    BY <1>2, <2>1, <2>6
  <2>9. d[1] = path /\ d[2] = n
    BY <2>7
  <2>10. CASE n >= DirSize(path)
    <3>1. a.end_of_sequence = TRUE /\ slot'[h].dir = <<path, n>> /\ n = DirSize(path)
      BY <2>5, <2>7, <2>8, <2>9, <2>10 DEF NextEntry
    <3>2. At(l, n)'
      BY <2>1, <2>2, <2>7, <3>1 DEF At
    <3> QED
      BY <2>2, <2>3, <3>1, <3>2 DEF At
  <2>11. CASE ~(n >= DirSize(path))
    <3>1. /\ a.end_of_sequence = FALSE /\ a.entry = <<path, n + 1>>
          /\ slot'[h].dir = <<path, n + 1>>
      BY <2>8, <2>9, <2>11 DEF NextEntry
    <3>2. n + 1 <= DirSize(path)
      BY <2>5, <2>11
    <3>3. At(l, n + 1)'
      BY <2>1, <2>2, <3>1, <3>2 DEF At
    <3> QED
      BY <2>2, <2>3, <3>1, <3>3 DEF At
  <2> QED
    BY <2>10, <2>11
<1> QED
  BY <1>2, <1>5, <1>6


LEMMA ListServer ==
  ASSUME SessionInv, OwnInv, NameInv, NumInv, FirstInv, ListInv, ServerStep, IoMayFail = FALSE
  PROVE  ListInv'
<1>0. /\ TypeInv /\ OpInv /\ requests \in Seq(RequestType) /\ answers \in Seq(AnswerType)
      /\ conn = "up" /\ UNCHANGED <<lock, conn, pending, packet, seqno>> /\ rl_file_serve
  BY DEF SessionInv, TypeInv, ChannelType, ServerStep, fsVars
<1>1. PICK m : m = Request
  OBVIOUS
<1>2. /\ m \in RequestType /\ requests # <<>> /\ requests' = Tail(requests)
      /\ \/ m.kind # "CLOSE" /\ \E a \in AnswerType : Answers(m, a) /\ answers' = Append(answers, a)
         \/ m.kind = "CLOSE" /\ answers' = answers
  BY <1>0, <1>1, ServerStepServes DEF Serves
<1>3. /\ 1 \in DOMAIN requests /\ m = requests[1]
      /\ \A i \in DOMAIN requests' :
           i + 1 \in DOMAIN requests /\ i + 1 # 1 /\ requests'[i] = requests[i + 1]
  BY <1>0, <1>1, <1>2, TailFacts DEF Request
<1>4. /\ \A l : IsDir(l)' <=> IsDir(l)
      /\ \A l : Listing(l)' <=> Listing(l)
      /\ \A k \in DOMAIN pending : LockOf(pending[k])' = LockOf(pending[k])
  BY <1>0 DEF IsDir, Holding, Listing, ListedBy, LockOf
<1>5. ASSUME NEW k \in DOMAIN pending, NEW l, l = LockOf(pending[k]), pending[k].expects = "FIND",
             m.kind = "FIND" /\ m.seq # 0 => pending[k].request_seqno # m.seq, IsDir(l),
             NEW n, At(l, n)
      PROVE  At(l, n)'
  <2>1. l \in Holding
    BY <1>5 DEF IsDir
  <2>2. CASE slot'[lock[l].handle_id].dir = slot[lock[l].handle_id].dir
    BY <1>0, <1>5, <2>2 DEF At
  <2>3. CASE slot'[lock[l].handle_id].dir # slot[lock[l].handle_id].dir
    <3>1. /\ m.kind = "FIND" /\ m.seq # 0
          /\ \E j \in DOMAIN pending :
               /\ pending[j].request_seqno = m.seq /\ pending[j].expects = "FIND"
               /\ LockOf(pending[j]) = l
      BY <1>1, <1>2, <1>3, <2>1, <2>3, DirServed
    <3>2. PICK j \in DOMAIN pending :
            /\ pending[j].request_seqno = m.seq /\ pending[j].expects = "FIND"
            /\ LockOf(pending[j]) = l
      BY <3>1
    <3>3. j = k
      BY <1>5, <3>2, FindOps
    <3> QED
      BY <1>5, <3>1, <3>2, <3>3
  <2> QED
    BY <2>2, <2>3
<1>6. ASSUME NEW q \in Procs PROVE ListOk(q)'
  BY <1>0 DEF ListInv, ListOk, OwnLock
<1>7. ASSUME NEW l \in LockIds PROVE EnumOk(l)'
  <2>1. SUFFICES ASSUME IsDir(l), lock[l].enum = TRUE, ~Listing(l) PROVE At(l, lock[l].seen)'
    BY <1>0, <1>4 DEF EnumOk, At
  <2>2. l \in Holding /\ At(l, lock[l].seen)
    BY <1>0, <1>7, <2>1 DEF ListInv, EnumOk, IsDir
  <2>3. CASE slot'[lock[l].handle_id].dir = slot[lock[l].handle_id].dir
    BY <1>0, <2>2, <2>3 DEF At
  <2>4. CASE slot'[lock[l].handle_id].dir # slot[lock[l].handle_id].dir
    <3>1. \E j \in DOMAIN pending : pending[j].expects = "FIND" /\ LockOf(pending[j]) = l
      BY <1>1, <1>2, <1>3, <2>2, <2>4, DirServed
    <3>2. Listing(l)
      BY <3>1, FindOps
    <3> QED
      BY <2>1, <3>2
  <2> QED
    BY <2>3, <2>4
<1>8. ASSUME NEW r, ListAsked(r), m.kind = "FIND" /\ m.seq # 0 => r.seq # m.seq
      PROVE  ListAsked(r)'
  <2>1. SUFFICES ASSUME NEW k \in DOMAIN pending, pending[k].request_seqno = r.seq,
                        NEW l, l = LockOf(pending[k])
                 PROVE  /\ pending[k].expects = "FIND" /\ r.handle = lock[l].handle_id
                        /\ IsDir(l) => IF r.reset = TRUE THEN lock[l].seen = 0
                                       ELSE At(l, lock[l].seen)'
    BY <1>0, <1>4 DEF ListAsked, At
  <2>2. /\ pending[k].expects = "FIND" /\ r.handle = lock[l].handle_id
        /\ IsDir(l) => IF r.reset = TRUE THEN lock[l].seen = 0 ELSE At(l, lock[l].seen)
    BY <1>8, <2>1 DEF ListAsked
  <2>3. PICK n : n = lock[l].seen
    OBVIOUS
  <2>4. IsDir(l) /\ At(l, n) => At(l, n)'
    BY <1>5, <1>8, <2>1, <2>2
  <2> QED
    BY <1>0, <2>2, <2>3, <2>4 DEF At
<1>9. ASSUME NEW a, ListFound(a), m.kind = "FIND" /\ m.seq # 0 => a.seq # m.seq
      PROVE  ListFound(a)'
  <2>1. SUFFICES ASSUME NEW k \in DOMAIN pending, pending[k].request_seqno = a.seq,
                        NEW l, l = LockOf(pending[k])
                 PROVE  /\ pending[k].expects = "FIND"
                        /\ lock[l].handle_id # ROOT => IsDir(l)
                        /\ IsDir(l) =>
                             IF a.end_of_sequence = TRUE
                               THEN At(l, lock[l].seen)' /\ lock[l].seen = DirSize(lock[l].path)
                               ELSE /\ a.entry = <<lock[l].path, lock[l].seen + 1>>
                                    /\ At(l, lock[l].seen + 1)'
    BY <1>0, <1>4 DEF ListFound, At
  <2>2. /\ pending[k].expects = "FIND"
        /\ lock[l].handle_id # ROOT => IsDir(l)
        /\ IsDir(l) =>
             IF a.end_of_sequence = TRUE
               THEN At(l, lock[l].seen) /\ lock[l].seen = DirSize(lock[l].path)
               ELSE a.entry = <<lock[l].path, lock[l].seen + 1>> /\ At(l, lock[l].seen + 1)
    BY <1>9, <2>1 DEF ListFound
  <2>3. PICK n : n = lock[l].seen
    OBVIOUS
  <2>4. PICK n1 : n1 = lock[l].seen + 1
    OBVIOUS
  <2>5. IsDir(l) => (At(l, n) => At(l, n)') /\ (At(l, n1) => At(l, n1)')
    BY <1>5, <1>9, <2>1, <2>2
  <2> QED
    BY <1>0, <2>2, <2>3, <2>4, <2>5 DEF At
<1>10. ASSUME NEW i \in DOMAIN requests', requests'[i].kind = "FIND"
       PROVE  requests'[i].seq < seqno' /\ ListAsked(requests[i])'
  <2>1. PICK r : r = requests[i + 1]
    OBVIOUS
  <2>2. /\ r = requests'[i] /\ r.kind = "FIND" /\ r.seq < seqno /\ ListAsked(r)
        /\ i + 1 \in DOMAIN requests /\ i + 1 # 1
    BY <1>0, <1>3, <1>10, <2>1 DEF ListInv
  <2>3. m.kind = "FIND" /\ m.seq # 0 => r.seq # m.seq
    BY <1>0, <1>3, <2>1, <2>2, OpOfRequest
  <2>4. ListAsked(r)'
    BY <1>8, <2>2, <2>3
  <2> QED
    BY <1>0, <2>2, <2>4 DEF ListAsked
<1>11. ASSUME NEW i \in DOMAIN answers', \E j \in DOMAIN answers : answers'[i] = answers[j]
       PROVE  /\ answers'[i].kind = "FIND" => answers'[i].seq < seqno' /\ ListFound(answers[i])'
              /\ answers'[i].kind = "ERROR" => ListFailed(answers[i])'
  <2>1. PICK j \in DOMAIN answers : answers'[i] = answers[j]
    BY <1>11
  <2>2. PICK a : a = answers[j]
    OBVIOUS
  <2>3. m.kind = "FIND" /\ m.seq # 0 => a.seq # m.seq
    BY <1>0, <1>3, <2>2, OpOfRequest
  <2>4. /\ a.kind = "FIND" => a.seq < seqno /\ ListFound(a)
        /\ a.kind = "ERROR" => ListFailed(a)
    BY <1>0, <2>2 DEF ListInv
  <2>5. a.kind = "FIND" => ListFound(a)'
    BY <1>9, <2>3, <2>4
  <2>6. a.kind = "ERROR" => ListFailed(a)'
    BY <1>0, <1>4, <2>4 DEF ListFailed
  <2> QED
    BY <1>0, <2>1, <2>2, <2>4, <2>5, <2>6 DEF ListFound, ListFailed
<1>12. ASSUME NEW a \in AnswerType, Answers(m, a), answers' = Append(answers, a)
       PROVE  /\ a.kind = "FIND" => a.seq < seqno /\ ListFound(a)'
              /\ a.kind = "ERROR" => ListFailed(a)'
  <2>1. a.seq = m.seq /\ a.kind \in {"ERROR", m.kind}
    BY <1>12 DEF Answers
  <2>2. CASE m.kind # "FIND"
    <3>1. ASSUME NEW k \in DOMAIN pending, pending[k].request_seqno = a.seq,
                 pending[k].expects = "FIND", IsDir(LockOf(pending[k]))
          PROVE  FALSE
      <4>1. m.seq # 0
        BY <1>0, <2>1, <3>1 DEF FirstInv, IsDir
      <4>2. m.kind # "CLOSE"
        BY <1>2, <1>12
      <4>3. PICK j \in DOMAIN pending :
              pending[j].request_seqno = m.seq /\ pending[j].expects = m.kind
        BY <1>0, <1>3, <4>1, <4>2, OpOfRequest
      <4>4. j = k
        BY <1>0, <2>1, <3>1, <4>3 DEF OpInv
      <4> QED
        BY <2>2, <3>1, <4>3, <4>4
    <3>2. a.kind # "FIND"
      BY <2>1, <2>2
    <3> QED
      BY <1>0, <1>4, <3>1, <3>2 DEF ListFailed
  <2>3. CASE m.kind = "FIND"
    <3>1. m.seq < seqno /\ ListAsked(m)
      BY <1>0, <1>3, <2>3 DEF ListInv
    <3>2. CASE /\ ~IsDirectory(m.handle)
               /\ \E e : e.kind = "ERROR" /\ answers' = Append(answers, e)
      <4>1. a.kind = "ERROR"
        BY <1>0, <1>12, <3>2, AppendLast
      <4>2. ASSUME NEW k \in DOMAIN pending, pending[k].request_seqno = a.seq,
                   NEW l, l = LockOf(pending[k]), IsDir(l)
            PROVE  FALSE
        <5>1. m.handle = lock[l].handle_id
          BY <2>1, <3>1, <4>2 DEF ListAsked
        <5>2. l \in Holding /\ lock[l].type = "DIR" /\ m.handle \in HandleIds
          BY <4>2, <5>1 DEF IsDir, Holding
        <5>3. slot[m.handle].type = "DIR"
          BY <1>0, <5>1, <5>2 DEF NameInv, Named
        <5> QED
          BY <3>2, <5>2, <5>3 DEF IsDirectory
      <4> QED
        BY <1>0, <1>4, <4>1, <4>2 DEF ListFailed
    <3>3. CASE /\ IsDirectory(m.handle)
               /\ \E e : /\ e.kind = "FIND" /\ answers' = Append(answers, e)
                         /\ m.handle \in HandleIds =>
                              NextEntry(rewound(slot[m.handle].dir, slot[m.handle].path), e,
                                        slot'[m.handle].dir)
      <4>1. PICK e : /\ e.kind = "FIND" /\ answers' = Append(answers, e)
                     /\ m.handle \in HandleIds =>
                          NextEntry(rewound(slot[m.handle].dir, slot[m.handle].path), e,
                                    slot'[m.handle].dir)
        BY <3>3
      <4>2. e = a
        BY <1>0, <1>12, <4>1, AppendLast
      <4>3. ListFound(a)'
        BY <1>0, <1>1, <1>2, <2>1, <2>3, <3>1, <3>3, <4>1, <4>2, ListServed
      <4> QED
        BY <2>1, <3>1, <4>1, <4>2, <4>3
    <3> QED
      BY <1>0, <1>1, <2>3, <3>2, <3>3, FindServed
  <2> QED
    BY <2>2, <2>3
<1>13. ASSUME NEW i \in DOMAIN answers'
       PROVE  /\ answers'[i].kind = "FIND" => answers'[i].seq < seqno' /\ ListFound(answers[i])'
              /\ answers'[i].kind = "ERROR" => ListFailed(answers[i])'
  <2>1. CASE answers' = answers
    BY <1>11, <1>13, <2>1
  <2>2. ASSUME NEW a \in AnswerType, Answers(m, a), answers' = Append(answers, a)
        PROVE  /\ answers'[i].kind = "FIND" => answers'[i].seq < seqno' /\ ListFound(answers[i])'
               /\ answers'[i].kind = "ERROR" => ListFailed(answers[i])'
    <3>1. /\ DOMAIN answers = 1 .. Len(answers) /\ Len(answers) \in Nat
          /\ DOMAIN answers' = 1 .. Len(answers) + 1 /\ answers'[Len(answers) + 1] = a
          /\ \A k \in DOMAIN answers : answers'[k] = answers[k]
      BY <1>0, <2>2, AppendFacts
    <3>2. CASE i \in DOMAIN answers
      BY <1>11, <3>1, <3>2
    <3>3. CASE i = Len(answers) + 1
      <4>1. answers'[i] = a
        BY <3>1, <3>3
      <4>2. /\ a.kind = "FIND" => a.seq < seqno /\ ListFound(a)'
            /\ a.kind = "ERROR" => ListFailed(a)'
        BY <1>12, <2>2
      <4> QED
        BY <1>0, <4>1, <4>2 DEF ListFound, ListFailed
    <3> QED
      BY <1>13, <3>1, <3>2, <3>3
  <2> QED
    BY <1>2, <2>1, <2>2
<1> QED
  BY <1>6, <1>7, <1>10, <1>13 DEF ListInv


LEMMA ListInvStep ==
  ASSUME SessionInv, OwnInv, NameInv, OutInv, NumInv, FirstInv, ListInv, [Next]_vars,
         IoMayFail = FALSE, "COPY_DIR" \notin Ops
  PROVE  ListInv'
<1>0. SessionInv' /\ FirstInv'
  BY SessionStep, FirstStep
<1>1. ASSUME NEW p \in Procs, process_fs_packet(p), UNCHANGED serverVars PROVE ListInv'
  <2>1. UNCHANGED slot
    BY <1>1 DEF serverVars
  <2> QED
    BY <1>0, <1>1, <2>1, ListPacket
<1>2. CASE NetworkStep
  <2>1. rl_amigafs_process_network_message /\ UNCHANGED slot
    BY <1>2 DEF NetworkStep, serverVars
  <2> QED
    BY <1>0, <2>1, ListNetwork, Zenon
<1>3. CASE ServerStep
  BY <1>3, ListServer
<1>4. ASSUME UNCHANGED <<answers, packet, lock, pending, seqno, conn, slot>>,
             \A i \in DOMAIN requests' :
               \/ requests'[i].kind = "ERROR"
               \/ \E j \in DOMAIN requests : requests'[i] = requests[j]
      PROVE  ListInv'
  <2>1. \A q \in Procs : ListOk(q)'
    BY <1>4 DEF ListInv, ListOk, OwnLock
  <2>2. ASSUME conn = "up", NEW l \in LockIds PROVE EnumOk(l)'
    BY <1>4, <2>2 DEF ListInv, EnumOk, IsDir, Holding, Listing, ListedBy, At
  <2>5. /\ \A l : IsDir(l)' <=> IsDir(l)
        /\ \A k \in DOMAIN pending : LockOf(pending[k])' = LockOf(pending[k])
    BY <1>4 DEF IsDir, Holding, LockOf
  <2>3. ASSUME conn = "up", NEW i \in DOMAIN requests', requests'[i].kind = "FIND"
        PROVE  requests'[i].seq < seqno' /\ ListAsked(requests[i])'
    <3>1. PICK j \in DOMAIN requests : requests'[i] = requests[j]
      BY <1>4, <2>3
    <3>2. requests[j].seq < seqno /\ ListAsked(requests[j])
      BY <2>3, <3>1 DEF ListInv
    <3> QED
      BY <1>4, <2>5, <3>1, <3>2, SMTT(30) DEF ListAsked, At
  <2>4. ASSUME conn = "up", NEW i \in DOMAIN answers'
        PROVE  /\ answers'[i].kind = "FIND" => answers'[i].seq < seqno' /\ ListFound(answers[i])'
               /\ answers'[i].kind = "ERROR" => ListFailed(answers[i])'
    <3>1. /\ answers[i].kind = "FIND" => answers[i].seq < seqno /\ ListFound(answers[i])
          /\ answers[i].kind = "ERROR" => ListFailed(answers[i])
      BY <1>4, <2>4 DEF ListInv
    <3>2. ListFound(answers[i]) => ListFound(answers[i])'
      BY <1>4, <2>5, SMTT(30) DEF ListFound, At
    <3>3. ListFailed(answers[i]) => ListFailed(answers[i])'
      BY <1>4, <2>5 DEF ListFailed
    <3> QED
      BY <1>4, <3>1, <3>2, <3>3
  <2> QED
    BY <1>4, <2>1, <2>2, <2>3, <2>4 DEF ListInv
<1>5. CASE spawn_failure
  BY <1>4, <1>5, SpawnSends DEF fsVars, serverVars
<1>6. CASE connection_lost \/ rl_amigafs_destroy
  <2>1. conn' # "up" /\ UNCHANGED <<packet, lock>>
    BY <1>6 DEF connection_lost, rl_amigafs_destroy
  <2>2. \A q \in Procs : ListOk(q)'
    BY <2>1 DEF ListInv, ListOk, OwnLock
  <2> QED
    BY <2>1, <2>2 DEF ListInv
<1>7. CASE UNCHANGED vars
  BY <1>4, <1>7 DEF vars, channels, fsVars, serverVars
<1> QED
  BY <1>1, <1>2, <1>3, <1>5, <1>6, <1>7 DEF Next

LEMMA ListInit ==
  ASSUME Init
  PROVE  ListInv
<1>1. DOMAIN requests = {} /\ DOMAIN answers = {} /\ \A l \in LockIds : lock[l] = NoLock
  BY DEF Init, FsInit
<1>2. \A p \in Procs : packet[p].type = "NONE"
  BY DEF Init, FsInit, Idle
<1> QED
  BY <1>1, <1>2 DEF ListInv, ListOk, EnumOk, IsDir, Holding

(* ListingInOrder: a listing of a directory below the root that goes on     *)
(* returns the entry after the last one shown, and reports the end when all *)
(* have been shown, no sooner (action_examine_next, complete_examine_next,  *)
(* find_next_file_request).  The place of a listing is kept twice: the      *)
(* handler's lock says whether one has begun, the server's DIR* where it    *)
(* is.  The invariant says that the two agree whenever no request is under  *)
(* way for the lock, and what the one request or answer under way does to   *)
(* them.  An I/O error is excluded: it leaves the DIR* where it fell, one   *)
(* entry further or closed.  So is DupLock (action_copy_dir), which gives   *)
(* two locks the one DIR*.                                                  *)
THEOREM ListingsAreInOrder ==
  ASSUME IoMayFail = FALSE, "COPY_DIR" \notin Ops
  PROVE  Spec => []ListingInOrder
<1>1. Init => OwnInv /\ NameInv /\ OutInv /\ NumInv /\ FirstInv /\ ListInv
  BY OwnInit, NameInit, OutInit, SeqInit, FirstInit, ListInit DEF NumInv
<1>2. SessionInv /\ OwnInv /\ NameInv /\ OutInv /\ NumInv /\ FirstInv /\ ListInv /\ [Next]_vars
        => OwnInv' /\ NameInv' /\ OutInv' /\ NumInv' /\ FirstInv' /\ ListInv'
  <2> SUFFICES ASSUME SessionInv, OwnInv, NameInv, OutInv, NumInv, FirstInv, ListInv, [Next]_vars
               PROVE  OwnInv' /\ NameInv' /\ OutInv' /\ NumInv' /\ FirstInv' /\ ListInv'
    OBVIOUS
  <2>1. OwnInv' /\ NameInv' /\ OutInv'
    BY OwnStep, NameStep, OutStep, Zenon
  <2>2. NumInv'
    <3>1. 0 \in {0}
      OBVIOUS
    <3> QED
      BY <3>1, SeqStep, Zenon DEF NumInv
  <2>3. FirstInv' /\ ListInv'
    BY FirstStep, ListInvStep, Zenon
  <2> QED
    BY <2>1, <2>2, <2>3
<1>3. ListInv => ListingInOrder
  BY DEF ListInv, ListOk, ListingInOrder
<1> QED
  BY <1>1, <1>2, <1>3, SessionInvariant, PTL DEF Spec
=============================================================================
