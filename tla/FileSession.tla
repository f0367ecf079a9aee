---------------------------- MODULE FileSession -----------------------------
(***************************************************************************)
(* A connected session: the target's file system handler (AmigaFs) and the *)
(* controller's file server (FileServer) over the two ordered directions of*)
(* one connection, which carry whole messages, as TransportOut and         *)
(* TransportIn show.                                                       *)
(***************************************************************************)
EXTENDS AmigaFs, FileServer

CONSTANTS
  SpawnMayFail     \* whether async_spawn may fail

ASSUME SpawnAssumption == SpawnMayFail \in BOOLEAN

VARIABLES
  launched         \* the launch request has been dealt with

vars == <<channels, fsVars, serverVars, launched>>

Init ==
  /\ requests = <<>> /\ answers = <<>>
  /\ FsInit
  /\ ServerInit(Procs)
  /\ launched = FALSE

(* on_launch_executable_request: a failure is reported with an error answer *)
(* that leaves hdr_in_reply_to zero.                                        *)
spawn_failure ==
  /\ SpawnMayFail /\ ~launched /\ conn = "up"
  /\ launched' = TRUE
  /\ requests' = Append(requests, ErrorAnswer(0, "SPAWN_FAILURE"))
  /\ UNCHANGED <<answers, fsVars, serverVars>>

connection_lost ==
  /\ ConnMayFail /\ conn = "up"
  /\ conn' = "failed"
  /\ UNCHANGED <<channels, packet, lock, root_enum, pending, seqno, sent,
                 serverVars, launched>>

ServerStep == conn = "up" /\ rl_file_serve /\ UNCHANGED <<fsVars, launched>>

NetworkStep ==
  rl_amigafs_process_network_message /\ UNCHANGED <<serverVars, launched>>

Next ==
  \/ \E p \in Procs : process_fs_packet(p) /\ UNCHANGED <<serverVars, launched>>
  \/ NetworkStep
  \/ ServerStep
  \/ spawn_failure
  \/ connection_lost
  \/ rl_amigafs_destroy /\ UNCHANGED <<serverVars, launched>>

Spec == Init /\ [][Next]_vars

(* Both event loops keep running and the connection delivers. *)
FairSpec == Spec /\ WF_vars(NetworkStep) /\ WF_vars(ServerStep)

-----------------------------------------------------------------------------
(* Properties                                                               *)

(* Every packet, lock, pending operation and slot keeps its type; file      *)
(* positions are never negative, also after a seek to before the start.     *)
TypeOK ==
  /\ packet \in [Procs -> PacketType]
  /\ \A l \in LockIds : lock[l] = NoLock \/ lock[l] \in LockType
  /\ root_enum \in BOOLEAN
  /\ \A i \in DOMAIN pending :
       /\ pending[i].request_seqno \in 0 .. seqno - 1
       /\ pending[i].expects \in {"OPEN", "READ", "WRITE", "FIND"}
  /\ conn \in {"up", "failed", "gone", "crashed"}
  /\ slot \in [HandleIds -> SlotType]
  /\ open_fds \in Nat

(* Every packet is answered exactly once: the handler has one pending       *)
(* operation for each packet that it holds, and none for any other.  (An    *)
(* ACTION_DIE packet is kept for ever, and a crash forgets everything.)     *)
OnePendingPerPacket ==
  conn # "crashed" =>
    \A p \in Procs :
      Cardinality({i \in DOMAIN pending : pending[i].packet = p})
        = IF packet[p].state = "held" /\ packet[p].type # "DIE" THEN 1 ELSE 0

InFlight(seq) ==
  Cardinality({i \in DOMAIN requests :
                 requests[i].seq = seq /\ requests[i].kind # "CLOSE"})
    + Cardinality({i \in DOMAIN answers : answers[i].seq = seq})

(* The sequence numbers keep requests and answers together: each pending    *)
(* operation has exactly one message under way, and each answer under way   *)
(* is the one, or the error, that a pending operation waits for.            *)
AnswersMatch ==
  conn = "up" =>
    /\ \A i \in DOMAIN pending : InFlight(pending[i].request_seqno) = 1
    /\ \A i \in DOMAIN answers :
         \E j \in DOMAIN pending :
           /\ pending[j].request_seqno = answers[i].seq
           /\ answers[i].kind \in {"ERROR", pending[j].expects}

Owners(h) ==
  Cardinality({l \in LockIds : lock[l] # NoLock /\ lock[l].handle_id = h})
    + Cardinality({i \in DOMAIN answers : answers[i].kind = "OPEN" /\ answers[i].handle = h})
    + Cardinality({i \in DOMAIN requests : requests[i].kind = "CLOSE" /\ requests[i].handle = h})

(* The controller's handles neither leak nor get shared: each open one      *)
(* belongs to one lock, or to the answer that announces it, or to the       *)
(* request that closes it, and no free one belongs to anything.             *)
SlotOwnership ==
  conn = "up" =>
    \A h \in HandleIds : Owners(h) = IF slot[h].handle = 0 THEN 0 ELSE 1

(* A lock's handle is open on the object that was locked, also when the     *)
(* server has reused the slot many times.                                   *)
LockNamesItsObject ==
  conn = "up" =>
    \A l \in LockIds :
      (lock[l] # NoLock /\ lock[l].handle_id \in HandleIds) =>
        LET s == slot[lock[l].handle_id]
        IN  s.handle # 0 /\ s.path = lock[l].path /\ s.type = lock[l].type

(* A successful read returns the bytes of the file that start at the        *)
(* position the handle had, as many as asked for unless the file ends, and  *)
(* moves the position behind them, whatever the read buffer held.           *)
ReadCorrect ==
  \A p \in Procs :
    LET pkt == packet[p]
        h == lock[pkt.arg]
    IN  (pkt.type = "READ" /\ pkt.state = "replied" /\ pkt.err = "0") =>
          /\ pkt.data = FileBytes(h.path, pkt.from, pkt.count)
          /\ pkt.res = Len(pkt.data)
          /\ h.offset = pkt.from + pkt.res

(* Listing a directory below the root returns its entries in order, each    *)
(* once, and reports the end after the last one.                            *)
ListingInOrder ==
  \A p \in Procs :
    LET pkt == packet[p]
        h == lock[pkt.arg]
    IN  (pkt.type = "EXAMINE_NEXT" /\ pkt.state = "replied" /\ h.handle_id # ROOT) =>
          /\ pkt.err = "0" => pkt.data = <<<<h.path, h.seen>>>>
          /\ pkt.err = "NO_MORE_ENTRIES" => h.seen = DirSize(h.path)

(* What is written to the virtual output file has been printed, completely  *)
(* and in order, when the write returns.                                    *)
WriteComplete ==
  \A p \in Procs :
    LET pkt == packet[p]
    IN  (/\ pkt.type = "WRITE" /\ pkt.state = "replied" /\ pkt.err = "0"
         /\ lock[pkt.arg].type = "VIRTUAL_OUTPUT") =>
          stdout[p] = WriteData(0, pkt.res) /\ pkt.res = pkt.count

(* Every packet is answered as long as the connection holds.                *)
EveryPacketAnswered ==
  \A p \in Procs :
    (packet[p].state = "held" /\ packet[p].type # "DIE")
      ~> (packet[p].state = "replied" \/ conn # "up")

=============================================================================
