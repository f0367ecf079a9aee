------------------------------ MODULE AmigaFs -------------------------------
(***************************************************************************)
(* The target's AmigaDOS file system handler, src/amigafs.c.  Programs send*)
(* it packets; it answers some at once and holds others, each with an      *)
(* operation in the list `pending' that waits for the controller's answer  *)
(* to the request with the operation's sequence number.                    *)
(*                                                                         *)
(* A program waits for the reply to its packet before it sends another     *)
(* (DoPkt), so a packet is named by the program that sent it.  The time a  *)
(* packet spends in the device port is not modelled: a program sends it    *)
(* when the handler takes it.                                              *)
(*                                                                         *)
(* Definitions such as alloc_pending_same_seqno, each placed before the one*)
(* whose name it extends, are faulty variants of it: no action uses them,  *)
(* they serve to confirm that the properties notice the fault.             *)
(***************************************************************************)
EXTENDS FileProtocol, SequencesExt

CONSTANTS
  Procs,           \* AmigaDOS programs using the volume
  Ops,             \* the packet types they send
  Names,           \* relative paths they use
  Counts,          \* byte counts of their reads and writes
  SeekTargets,     \* positions they seek to
  LockIds,         \* bound: locks alive at one time
  MaxPackets,      \* bound: packets sent
  AllocMayFail,    \* whether memory allocation in the handler may fail
  ConnMayFail      \* whether the connection may break, or a transmission fail

ASSUME FsAssumption ==
  /\ Names \subseteq Seq(STRING) /\ Counts \subseteq Nat
  /\ SeekTargets \subseteq Int /\ IsFiniteSet(LockIds) /\ IsFiniteSet(Procs)
  /\ MaxPackets \in Nat
  /\ AllocMayFail \in BOOLEAN /\ ConnMayFail \in BOOLEAN

VARIABLES
  packet,          \* packet[p]: the latest packet of p, see PacketType
  lock,            \* FileLock and its handle, or NoLock, see LockType
  root_enum,       \* FILE_ENUM_IN_PROGRESS of root_handle
  pending,         \* list of pending operations, newest first
  seqno,           \* next sequence number
  conn,            \* "up", "failed" (peer in error), "gone" (device torn
                   \* down) or "crashed" (the target corrupted its memory)
  sent             \* number of packets sent

fsVars == <<packet, lock, root_enum, pending, seqno, conn, sent>>

NoLock == [type |-> "NONE"]
NullLock == "NULL"

Types == {"FINDINPUT", "FINDOUTPUT", "LOCATE_OBJECT", "FREE_LOCK", "END",
          "READ", "WRITE", "SEEK", "EXAMINE_NEXT", "COPY_DIR", "PARENT",
          "INFO", "QUERY", "REFUSED", "DIE", "NONE"}

(* dp_Res2, the ERROR_ codes of AmigaDOS that the handler uses. *)
DosErrors ==
  {"0", "NO_FREE_STORE", "OBJECT_NOT_FOUND", "OBJECT_WRONG_TYPE", "OBJECT_IN_USE",
   "DISK_NOT_VALIDATED", "DEVICE_NOT_MOUNTED", "INVALID_LOCK", "WRITE_PROTECTED",
   "ACTION_NOT_KNOWN", "NO_MORE_ENTRIES"}

(* fh: the lock stands for an open FileHandle.  The handle's fields follow; *)
(* buffer holds the bytes from buffer_start.  seen is history: the entries  *)
(* returned since the last rewind.                                          *)
LockType ==
  [owner : Procs, fh : BOOLEAN, handle_id : Int,
   type : {"FILE", "DIR", "DEVICE", "VIRTUAL_INPUT", "VIRTUAL_OUTPUT"},
   path : Seq(STRING), size : Nat, offset : Nat, enum : BOOLEAN,
   buffer_start : Nat, buffer : Seq(Seq(STRING) \X Nat), seen : Nat]

(* arg: the lock; path: the name; count: the number of bytes.  data is what *)
(* the program's buffer or info block has received, from (history) the file *)
(* position when the packet was sent.                                       *)
PacketType ==
  [state : {"idle", "held", "replied"}, type : Types,
   arg : LockIds \cup {NullLock}, path : Seq(STRING), count : Nat,
   data : Seq(Seq(STRING) \X Nat), from : Nat,
   res : Int \cup LockIds, err : DosErrors]

Idle == [state |-> "idle", type |-> "NONE", arg |-> NullLock, path |-> <<>>,
         count |-> 0, data |-> <<>>, from |-> 0, res |-> 0, err |-> "0"]

FsInit ==
  /\ packet = [p \in Procs |-> Idle]
  /\ lock = [l \in LockIds |-> NoLock]
  /\ root_enum = FALSE
  /\ pending = <<>>
  /\ seqno = 0
  /\ conn = "up"
  /\ sent = 0

-----------------------------------------------------------------------------
(* Building blocks.                                                         *)

(* peer_transmit_message returns 0 whatever happens: in a peer that is not  *)
(* connected, or that cannot allocate a buffer, it only sets PEER_ERROR.    *)
transmit_message(msg) ==
  \/ conn = "up" /\ requests' = Append(requests, msg) /\ UNCHANGED conn
  \/ /\ conn = "failed" \/ ConnMayFail
     /\ conn' = "failed" /\ UNCHANGED requests

AllocResults == IF AllocMayFail THEN BOOLEAN ELSE {TRUE}

Replied(pkt, res, err) == [pkt EXCEPT !.state = "replied", !.res = res, !.err = err]

reply_to_packet(p, pkt, res, err) ==
  packet' = [packet EXCEPT ![p] = Replied(pkt, res, err)]

alloc_pending_same_seqno(p, expects, length) ==
  /\ pending' = <<[request_seqno |-> seqno, packet |-> p, expects |-> expects,
                   source |-> 0, length |-> length]>> \o pending
  /\ UNCHANGED seqno

(* source and length describe the part of a write that is under way. *)
alloc_pending(p, expects, length) ==
  /\ pending' = <<[request_seqno |-> seqno, packet |-> p, expects |-> expects,
                   source |-> 0, length |-> length]>> \o pending
  /\ seqno' = seqno + 1

(* What an action_* function does to wait for the controller. *)
Hold(p, pkt, expects, length, msg) ==
  /\ packet' = [packet EXCEPT ![p] = pkt]
  /\ alloc_pending(p, expects, length)
  /\ transmit_message(msg)

(* alloc_pending returns NULL. *)
HoldFails(p, pkt) ==
  /\ AllocMayFail
  /\ reply_to_packet(p, pkt, 0, "NO_FREE_STORE")
  /\ UNCHANGED <<pending, seqno, conn, requests>>

unlink_pending_first(op) == pending' = Tail(pending)

unlink_pending(op) ==
  \E i \in DOMAIN pending : pending[i] = op /\ pending' = RemoveAt(pending, i)

(* The same operation waits for a further answer. *)
requeue(op, source, length) ==
  /\ pending' = [i \in DOMAIN pending |-> IF pending[i] # op THEN pending[i]
       ELSE [op EXCEPT !.request_seqno = seqno, !.source = source, !.length = length]]
  /\ seqno' = seqno + 1

NewLockId == CHOOSE l \in LockIds : lock[l] = NoLock

allocate_lock(p, fh, type, id, path, size) ==
  [owner |-> p, fh |-> fh, type |-> type, handle_id |-> id, path |-> path,
   size |-> size, offset |-> 0, enum |-> FALSE, buffer_start |-> 0,
   buffer |-> <<>>, seen |-> 0]

alloc_root_lock(p) == allocate_lock(p, FALSE, "DEVICE", ROOT, <<>>, 0)

Locks(p, fh) == {l \in LockIds : lock[l] # NoLock /\ lock[l].owner = p /\ lock[l].fh = fh}

(* Bounds: a program may send a packet while there is room for every lock   *)
(* that it and the packets under way may create.                            *)
MaySend(p, type) ==
  /\ type \in Ops
  /\ conn \in {"up", "failed"}
  /\ packet[p].state # "held"
  /\ sent < MaxPackets
  /\ Cardinality({l \in LockIds : lock[l] = NoLock})
       > Cardinality({q \in Procs : packet[q].state = "held"})

NewPacket(type, arg, path, count, from) ==
  [state |-> "held", type |-> type, arg |-> arg, path |-> path, count |-> count,
   data |-> <<>>, from |-> from, res |-> 0, err |-> "0"]

Min2(a, b) == IF a < b THEN a ELSE b

(* A name that starts with a device is one that is relative to no lock. *)
normalize_object_path(dir, path) ==
  IF dir = NullLock \/ lock[dir].type = "DEVICE" THEN path ELSE lock[dir].path \o path

-----------------------------------------------------------------------------
(* One action per packet type.                                              *)

VirtualInput == <<"+virtual-input+">>
VirtualOutput == <<"+virtual-output+">>

(* Replies at once with a lock, or with failure when it cannot be allocated.*)
ReplyLock(p, pkt, newLock, err) ==
  /\ \/ /\ lock' = [lock EXCEPT ![NewLockId] = newLock]
        /\ reply_to_packet(p, pkt, NewLockId, "0")
     \/ /\ AllocMayFail
        /\ reply_to_packet(p, pkt, 0, err)
        /\ UNCHANGED lock
  /\ UNCHANGED <<requests, root_enum, pending, seqno, conn>>

(* The name is looked up from the root whatever the directory lock.         *)
FindinputPath(dir, path) == path

action_findinput(p) ==
  /\ MaySend(p, "FINDINPUT")
  /\ \E dir \in Locks(p, FALSE) \cup {NullLock}, path \in Names \ {<<>>} :
       LET pkt == NewPacket("FINDINPUT", dir, path, 0, 0)
       IN  IF path = VirtualInput
             THEN ReplyLock(p, pkt, allocate_lock(p, TRUE, "VIRTUAL_INPUT",
                    RL_FILEHANDLE_VIRTUAL_INPUT, path, 0), "NO_FREE_STORE")
             ELSE /\ \/ Hold(p, pkt, "OPEN", 0, OpenRequest(seqno, FindinputPath(dir, path)))
                     \/ HoldFails(p, pkt)
                  /\ UNCHANGED <<lock, root_enum>>

(* Anything but the virtual output file is refused. *)
action_findoutput(p) ==
  /\ MaySend(p, "FINDOUTPUT")
  /\ \E path \in Names \ {<<>>} :
       LET pkt == NewPacket("FINDOUTPUT", NullLock, path, 0, 0)
       IN  IF path = VirtualOutput
             THEN ReplyLock(p, pkt, allocate_lock(p, TRUE, "VIRTUAL_OUTPUT",
                    RL_FILEHANDLE_VIRTUAL_OUTPUT, path, 0), "0")
             ELSE /\ reply_to_packet(p, pkt, 0, "0")
                  /\ UNCHANGED <<requests, lock, root_enum, pending, seqno, conn>>

(* A lock on the root is given at once.  Should its allocation fail, the    *)
(* function unlinks and frees a pending_op that it never initialised.       *)
action_locate_object(p) ==
  /\ MaySend(p, "LOCATE_OBJECT")
  /\ \E dir \in Locks(p, FALSE) \cup {NullLock}, path \in Names :
       LET pkt == NewPacket("LOCATE_OBJECT", dir, path, 0, 0)
           full_path == normalize_object_path(dir, path)
       IN  IF full_path = <<>>
             THEN \/ ReplyLock(p, pkt, alloc_root_lock(p), "OBJECT_NOT_FOUND")
                  \/ /\ AllocMayFail
                     /\ packet' = [packet EXCEPT ![p] = pkt]
                     /\ conn' = "crashed"
                     /\ UNCHANGED <<requests, lock, root_enum, pending, seqno>>
             ELSE /\ \/ Hold(p, pkt, "OPEN", 0, OpenRequest(seqno, full_path))
                     \/ HoldFails(p, pkt)
                  /\ UNCHANGED <<lock, root_enum>>

(* Frees a lock; the server is told to close its handle, and does not       *)
(* answer.  Locks on the root have no handle of their own.                  *)
rl_amigafs_free_lock(l) ==
  /\ lock' = [lock EXCEPT ![l] = NoLock]
  /\ IF lock[l].type = "DEVICE"
       THEN UNCHANGED <<requests, seqno, conn>>
       ELSE /\ transmit_message(CloseRequest(seqno, lock[l].handle_id))
            /\ seqno' = seqno + 1

action_free_lock(p) ==
  /\ MaySend(p, "FREE_LOCK")
  /\ LET pkt == NewPacket("FREE_LOCK", NullLock, <<>>, 0, 0)
     IN  \/ \E l \in Locks(p, FALSE) :
              rl_amigafs_free_lock(l) /\ reply_to_packet(p, pkt, 1, "0")
         \/ /\ reply_to_packet(p, pkt, 0, "OBJECT_NOT_FOUND")
            /\ UNCHANGED <<requests, lock, seqno, conn>>
  /\ UNCHANGED <<root_enum, pending>>

action_end(p) ==
  /\ MaySend(p, "END")
  /\ \E l \in Locks(p, TRUE) :
       /\ rl_amigafs_free_lock(l)
       /\ reply_to_packet(p, NewPacket("END", NullLock, <<>>, 0, 0), 1, "0")
  /\ UNCHANGED <<root_enum, pending>>

(* DupLock: the copy shares the server's handle with the original. *)
action_copy_dir(p) ==
  /\ MaySend(p, "COPY_DIR")
  /\ \/ \E l \in Locks(p, FALSE) :
          ReplyLock(p, NewPacket("COPY_DIR", l, <<>>, 0, 0),
            allocate_lock(p, FALSE, lock[l].type, lock[l].handle_id, lock[l].path,
                          lock[l].size),
            "NO_FREE_STORE")
     \/ /\ reply_to_packet(p, NewPacket("COPY_DIR", NullLock, <<>>, 0, 0), 0,
                           "OBJECT_NOT_FOUND")
        /\ UNCHANGED <<requests, lock, root_enum, pending, seqno, conn>>

(* ParentDir: a parent below the root gets the root's handle. *)
action_parent(p) ==
  /\ MaySend(p, "PARENT")
  /\ \E l \in Locks(p, FALSE) :
       LET pkt == NewPacket("PARENT", l, <<>>, 0, 0)
           path == lock[l].path
       IN  IF lock[l].type = "DEVICE"
             THEN /\ reply_to_packet(p, pkt, 0, "OBJECT_NOT_FOUND")
                  /\ UNCHANGED <<requests, lock, root_enum, pending, seqno, conn>>
             ELSE ReplyLock(p, pkt,
                    IF Len(path) = 1 THEN alloc_root_lock(p)
                    ELSE allocate_lock(p, FALSE, "DIR", ROOT,
                                       SubSeq(path, 1, Len(path) - 1), 0),
                    "OBJECT_NOT_FOUND")

(* Packets that the handler answers by itself.  QUERY stands for those that *)
(* always succeed: IS_FILESYSTEM, EXAMINE_OBJECT, DISK_INFO, FLUSH and      *)
(* CURRENT_VOLUME, whose result is the volume's address.                    *)
LocalQuery(p) ==
  /\ MaySend(p, "QUERY")
  /\ reply_to_packet(p, NewPacket("QUERY", NullLock, <<>>, 0, 0), 1, "0")

(* INFO succeeds for a lock on the root. *)
action_info(p) ==
  /\ MaySend(p, "INFO")
  /\ \E l \in Locks(p, FALSE) \cup {NullLock} :
       LET pkt == NewPacket("INFO", l, <<>>, 0, 0)
       IN  IF l # NullLock /\ lock[l].type = "DEVICE"
             THEN reply_to_packet(p, pkt, 1, "0")
             ELSE reply_to_packet(p, pkt, 0,
                    IF l = NullLock THEN "INVALID_LOCK" ELSE "OBJECT_NOT_FOUND")

(* REFUSED stands for those that would modify the volume (SET_PROTECT fails *)
(* with WRITE_PROTECTED, the others with no error code) and for the unknown.*)
LocalRefusal(p) ==
  /\ MaySend(p, "REFUSED")
  /\ \E err \in {"0", "WRITE_PROTECTED", "ACTION_NOT_KNOWN"} :
       reply_to_packet(p, NewPacket("REFUSED", NullLock, <<>>, 0, 0), 0, err)

action_local(p) ==
  /\ LocalQuery(p) \/ action_info(p) \/ LocalRefusal(p)
  /\ UNCHANGED <<requests, lock, root_enum, pending, seqno, conn>>

(* An empty function: the packet is kept and never replied to. *)
action_die(p) ==
  /\ MaySend(p, "DIE")
  /\ packet' = [packet EXCEPT ![p] = NewPacket("DIE", NullLock, <<>>, 0, 0)]
  /\ UNCHANGED <<requests, lock, root_enum, pending, seqno, conn>>

-----------------------------------------------------------------------------
(* Reading, writing, seeking and directory listing.                         *)

buffer_overlap_from_start(h, count) ==
  LET hi == h.buffer_start + Len(h.buffer)
  IN  IF h.offset < h.buffer_start \/ hi <= h.offset THEN <<>>
      ELSE SubSeq(h.buffer, 1, Min2(hi - h.offset, count))

(* The buffered bytes that a read of count bytes can start with. *)
buffer_overlap(h, count) ==
  LET hi == h.buffer_start + Len(h.buffer)
      start == h.offset - h.buffer_start
  IN  IF h.offset < h.buffer_start \/ hi <= h.offset THEN <<>>
      ELSE SubSeq(h.buffer, start + 1, start + Min2(hi - h.offset, count))

InBuffer(h) ==
  h.buffer_start <= h.offset /\ h.offset < h.buffer_start + Len(h.buffer)

(* What the buffer cannot give is asked of the controller, from the         *)
(* position after the bytes taken out of the buffer.                        *)
action_read(p) ==
  /\ MaySend(p, "READ")
  /\ \E l \in Locks(p, TRUE), count \in Counts :
       LET h == lock[l]
           got == buffer_overlap(h, count)
           offset == h.offset + Len(got)
           pkt == [NewPacket("READ", l, <<>>, count, h.offset) EXCEPT !.data = got]
       IN  /\ lock' = [lock EXCEPT ![l].offset = offset]
           /\ IF InBuffer(h) /\ Len(got) = count
                THEN /\ reply_to_packet(p, pkt, count, "0")
                     /\ UNCHANGED <<requests, pending, seqno, conn>>
                ELSE \/ Hold(p, pkt, "READ", 0, ReadRequest(seqno, h.handle_id, offset))
                     \/ HoldFails(p, pkt)
  /\ UNCHANGED root_enum

WriteData(source, length) == [i \in 1 .. length |-> source + i]

action_write(p) ==
  /\ MaySend(p, "WRITE")
  /\ \E l \in Locks(p, TRUE), count \in Counts :
       LET pkt == NewPacket("WRITE", l, <<>>, count, 0)
           length == Min2(count, Chunk)
       IN  \/ Hold(p, pkt, "WRITE", length,
                   WriteRequest(seqno, lock[l].handle_id, p, 0, WriteData(0, length)))
           \/ HoldFails(p, pkt)
  /\ UNCHANGED <<lock, root_enum>>

SeekPosition_signed(h, mode, amount) ==
  LET to == CASE mode = "BEGINNING" -> amount
              [] mode = "CURRENT"   -> h.offset + amount
              [] mode = "END"       -> h.size + amount
  IN  IF to > h.size THEN h.size ELSE to

(* Positions are unsigned 32-bit numbers: one before the start of the file  *)
(* wraps round to one past its end, where it is cut off.                    *)
SeekPosition(h, mode, amount) ==
  LET to == CASE mode = "BEGINNING" -> amount
              [] mode = "CURRENT"   -> h.offset + amount
              [] mode = "END"       -> h.size + amount
  IN  IF to < 0 \/ to > h.size THEN h.size ELSE to

action_seek(p) ==
  /\ MaySend(p, "SEEK")
  /\ \E l \in Locks(p, TRUE), mode \in {"BEGINNING", "CURRENT", "END"},
        amount \in SeekTargets :
       /\ lock' = [lock EXCEPT ![l].offset = SeekPosition(lock[l], mode, amount)]
       /\ reply_to_packet(p, NewPacket("SEEK", l, <<>>, 0, 0), lock[l].offset, "0")
  /\ UNCHANGED <<requests, root_enum, pending, seqno, conn>>

EnumInProgress(h) == IF h.type = "DEVICE" THEN root_enum ELSE h.enum

(* The flag lives in the handle, which all locks on the root share.  The    *)
(* directory is rewound when the flag is clear.                             *)
action_examine_next(p) ==
  /\ MaySend(p, "EXAMINE_NEXT")
  /\ \E l \in Locks(p, FALSE) :
       LET h == lock[l]
           reset == ~EnumInProgress(h)
           pkt == NewPacket("EXAMINE_NEXT", l, <<>>, 0, 0)
       IN  \/ /\ Hold(p, pkt, "FIND", 0, FindRequest(seqno, h.handle_id, reset))
              /\ root_enum' = (root_enum \/ h.type = "DEVICE")
              /\ lock' = [lock EXCEPT ![l].enum = h.type # "DEVICE",
                                      ![l].seen = IF reset THEN 0 ELSE @]
           \/ HoldFails(p, pkt) /\ UNCHANGED <<lock, root_enum>>

-----------------------------------------------------------------------------
(* Answers from the controller.                                             *)

Received == Head(answers)

Matching == {i \in DOMAIN pending : pending[i].request_seqno = Received.seq}
Found == Matching # {}
find_pending_op == pending[CHOOSE i \in Matching : \A j \in Matching : i <= j]

Complete(op, res, err) ==
  /\ reply_to_packet(op.packet, packet[op.packet], res, err)
  /\ unlink_pending(op)

complete_findinput_keeps(op) ==
  LET p == op.packet
  IN  /\ \/ /\ Received.type = "FILE"
           /\ lock' = [lock EXCEPT ![NewLockId] =
                allocate_lock(p, TRUE, "FILE", Received.handle, packet[p].path, Received.size)]
           /\ Complete(op, NewLockId, "0")
        \/ /\ Received.type # "FILE"
           /\ Complete(op, 0, "OBJECT_WRONG_TYPE")
           /\ UNCHANGED lock
      /\ UNCHANGED <<requests, root_enum, seqno, conn>>

(* A handle that turns out to be useless is closed again. *)
complete_findinput(op) ==
  LET p == op.packet
      close == transmit_message(CloseRequest(seqno, Received.handle)) /\ seqno' = seqno + 1
  IN  /\ \/ /\ Received.type = "FILE"
           /\ lock' = [lock EXCEPT ![NewLockId] =
                allocate_lock(p, TRUE, "FILE", Received.handle, packet[p].path, Received.size)]
           /\ Complete(op, NewLockId, "0")
           /\ UNCHANGED <<requests, seqno, conn>>
        \/ /\ Received.type = "FILE" => AllocMayFail
           /\ Complete(op, 0, IF Received.type = "FILE" THEN "NO_FREE_STORE"
                              ELSE "OBJECT_WRONG_TYPE")
           /\ close
           /\ UNCHANGED lock
      /\ UNCHANGED root_enum

(* A handle for which no lock can be allocated is forgotten. *)
complete_locate_object(op) ==
  LET p == op.packet
  IN  /\ \/ /\ lock' = [lock EXCEPT ![NewLockId] =
                allocate_lock(p, FALSE, Received.type, Received.handle,
                  normalize_object_path(packet[p].arg, packet[p].path), Received.size)]
           /\ Complete(op, NewLockId, "0")
        \/ /\ AllocMayFail
           /\ Complete(op, 0, "NO_FREE_STORE")
           /\ UNCHANGED lock
      /\ UNCHANGED <<requests, root_enum, seqno, conn>>

complete_examine_next(op) ==
  LET p == op.packet
      l == packet[p].arg
      more == ~Received.end_of_sequence
  IN  /\ packet' = [packet EXCEPT ![p] =
           Replied([@ EXCEPT !.data = IF more THEN <<Received.entry>> ELSE <<>>],
                   IF more THEN 1 ELSE 0, IF more THEN "0" ELSE "NO_MORE_ENTRIES")]
      /\ unlink_pending(op)
      /\ lock' = [lock EXCEPT ![l].enum = @ /\ more, ![l].seen = IF more THEN @ + 1 ELSE @]
      /\ root_enum' = (root_enum /\ (more \/ lock[l].type # "DEVICE"))
      /\ UNCHANGED <<requests, seqno, conn>>

(* The program gets what it asked for and the buffer the rest; a read that  *)
(* is neither complete nor at the end of the file asks for more.            *)
complete_read(op) ==
  LET p == op.packet
      pkt == packet[p]
      h == lock[pkt.arg]
      slice == Min2(pkt.count - Len(pkt.data), Len(Received.data))
      data == pkt.data \o SubSeq(Received.data, 1, slice)
      offset == h.offset + slice
      done == Len(data) = pkt.count \/ Received.data = <<>>
  IN  /\ IF done
           THEN /\ lock' = [lock EXCEPT ![pkt.arg].offset = offset,
                     ![pkt.arg].buffer_start = offset,
                     ![pkt.arg].buffer = SubSeq(Received.data, slice + 1, Len(Received.data))]
                /\ packet' = [packet EXCEPT ![p] =
                     Replied([pkt EXCEPT !.data = data], Len(data), "0")]
                /\ unlink_pending(op)
                /\ UNCHANGED <<requests, seqno, conn>>
           ELSE /\ lock' = [lock EXCEPT ![pkt.arg].offset = offset]
                /\ packet' = [packet EXCEPT ![p].data = data]
                /\ requeue(op, 0, 0)
                /\ transmit_message(ReadRequest(seqno, h.handle_id, offset))
      /\ UNCHANGED root_enum

complete_write_first_part(op) ==
  /\ Complete(op, packet[op.packet].count, "0")
  /\ UNCHANGED <<requests, seqno, conn, lock, root_enum>>

complete_write(op) ==
  LET p == op.packet
      pkt == packet[p]
      curr == op.source + op.length
      length == Min2(pkt.count - curr, Chunk)
  IN  /\ IF curr < pkt.count
           THEN /\ requeue(op, curr, length)
                /\ transmit_message(WriteRequest(seqno, lock[pkt.arg].handle_id, p, curr,
                                                 WriteData(curr, length)))
                /\ UNCHANGED packet
           ELSE /\ Complete(op, pkt.count, "0")
                /\ UNCHANGED <<requests, seqno, conn>>
      /\ UNCHANGED <<lock, root_enum>>

(* An answer that nobody waits for makes the callback fail, and with it the *)
(* connection; so does an answer of the wrong kind.                         *)
network_unexpected ==
  /\ ~Found
  /\ conn' = "failed"
  /\ UNCHANGED <<requests, packet, lock, root_enum, pending, seqno>>

translate_error_code(code) ==
  CASE code = "ACCESS_DENIED" -> "OBJECT_IN_USE"
    [] code = "NOT_FOUND" -> "OBJECT_NOT_FOUND"
    [] code \in {"NOT_A_FILE", "NOT_A_DIRECTORY", "INVALID_VALUE"} -> "OBJECT_WRONG_TYPE"
    [] code = "IO_ERROR" -> "DISK_NOT_VALIDATED"
    [] OTHER -> "DEVICE_NOT_MOUNTED"

network_error ==
  /\ Found /\ Received.kind # find_pending_op.expects
  /\ LET error == Received.kind = "ERROR"
     IN  /\ Complete(find_pending_op, 0,
                     IF error THEN translate_error_code(Received.error_code)
                     ELSE "DEVICE_NOT_MOUNTED")
         /\ conn' = IF error THEN conn ELSE "failed"
  /\ UNCHANGED <<requests, lock, root_enum, seqno>>

network_completes ==
  /\ Found /\ Received.kind = find_pending_op.expects
  /\ LET op == find_pending_op
         type == packet[op.packet].type
     IN  \/ type = "FINDINPUT" /\ complete_findinput(op)
         \/ type = "LOCATE_OBJECT" /\ complete_locate_object(op)
         \/ type = "EXAMINE_NEXT" /\ complete_examine_next(op)
         \/ type = "READ" /\ complete_read(op)
         \/ type = "WRITE" /\ complete_write(op)

rl_amigafs_process_network_message ==
  /\ conn = "up" /\ answers # <<>>
  /\ answers' = Tail(answers)
  /\ network_unexpected \/ network_error \/ network_completes
  /\ UNCHANGED sent

(* serve removes a peer in error and tears the device down.  Packets that   *)
(* wait for an answer are not replied to.                                   *)
rl_amigafs_destroy ==
  /\ conn = "failed"
  /\ conn' = "gone"
  /\ UNCHANGED <<packet, lock, root_enum, pending, seqno, sent, channels>>

process_fs_packet(p) ==
  /\ \/ action_findinput(p) \/ action_findoutput(p) \/ action_locate_object(p)
     \/ action_free_lock(p) \/ action_end(p) \/ action_copy_dir(p)
     \/ action_parent(p) \/ action_local(p) \/ action_die(p)
     \/ action_read(p) \/ action_write(p) \/ action_seek(p)
     \/ action_examine_next(p)
  /\ sent' = sent + 1
  /\ UNCHANGED answers
=============================================================================
