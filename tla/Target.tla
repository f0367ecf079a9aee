------------------------------- MODULE Target -------------------------------
(***************************************************************************)
(* The target's daemon (src/target.c): the event loop `serve' with its     *)
(* list of peers and their volumes, and the programs it launches, which    *)
(* are other tasks of the Amiga and run at the same time.                  *)
(*                                                                         *)
(* A peer_t, its rl_amigafs_t and its socket are named by the connection   *)
(* they belong to; `next' and `peers' are the pointers of the list.        *)
(* A turn of the loop has four phases: WaitSelect, the signals, accept, and*)
(* the update of every peer, message by message.  Processes send packets to*)
(* the device port of a volume, and a launcher sends a message to the      *)
(* process port; a signal bit stays set until WaitSelect returns it.       *)
(* Following a pointer to a freed peer, or sending a packet to a deleted   *)
(* port, may do anything: the phase becomes "undefined" and nothing is said*)
(* about what comes after.                                                 *)
(*                                                                         *)
(* A definition whose name extends that of the next one is a faulty variant*)
(* that no action uses.                                                    *)
(***************************************************************************)
EXTENDS Links

CONSTANTS
  NULL,            \* the null pointer
  IndexModulus,    \* peer indices run from 0 to this less one (10 in peer.c)
  MaxProcs         \* bound: processes that use one volume

ASSUME TargetAssumption ==
  /\ NULL \notin Conns
  /\ IndexModulus \in Nat \ {0} /\ MaxProcs \in Nat \ {0}

(* The processes that use a volume: the launcher with the program it runs,  *)
(* and others, such as the Workbench or what the program has started.       *)
Launcher == 1
Procs == 1 .. MaxProcs

VARIABLES
  phase,           \* "boot", "select", "signals", "accept", "update",
                   \* "shutdown", "exited" or "undefined"
  peers, next,     \* head of the list, and peer_t.next
  mem,             \* each peer_t: "none", "live" or "freed"
  state,           \* peer_t.state
  peer_index, peer_count,
  mounted,         \* the volumes that exist, each with its device port
  outq,            \* messages in a peer's transport
  wake,            \* what WaitSelect returned
  ci, loop_next,   \* the update loop's current peer, and its `next'
  got,             \* whether the current peer has had a message delivered
  new_peer         \* the peer accepted in this turn, or NULL

VARIABLES
  prog,            \* the program launched by each connection; "failed": it
                   \* could not be started and its controller is not told
  dev_port,        \* packets in a device port that need the controller: the
                   \* processes that sent them, oldest first
  local,           \* processes with another packet in the device port
  pending,         \* rl_amigafs_t.pending: sequence numbers and processes
  seqno,           \* rl_amigafs_t.seqno
  proc_port,       \* messages in g_process_msg_port, oldest first
  proc_sig, dev_sig,     \* signal bits: of that port, and of device ports
  coalesced        \* history: a program's end found the signal already set

listVars == <<peers, next, mem, state, peer_index, peer_count, mounted>>
turnVars == <<wake, ci, loop_next, got, new_peer>>
fsVars == <<dev_port, local, pending, seqno>>
portVars == <<proc_port, proc_sig, coalesced>>
progVars == <<prog, fsVars, portVars, dev_sig>>
targetVars == <<phase, listVars, turnVars, outq, progVars>>

PeerStates == {"INITIAL", "WAIT_HANDSHAKE", "CONNECTED", "ERROR", "DISCONNECTED"}
NoWake == [read |-> {}, accept |-> FALSE, proc |-> FALSE, dev |-> {}, break |-> FALSE]

TargetInit ==
  /\ phase = "boot"
  /\ peers = NULL /\ next = [n \in Conns |-> NULL]
  /\ mem = [n \in Conns |-> "none"] /\ state = [n \in Conns |-> "INITIAL"]
  /\ peer_index = [n \in Conns |-> 0] /\ peer_count = 0 /\ mounted = {}
  /\ outq = [n \in Conns |-> <<>>]
  /\ wake = NoWake /\ ci = NULL /\ loop_next = NULL /\ got = FALSE /\ new_peer = NULL
  /\ prog = [n \in Conns |-> "none"]
  /\ dev_port = [n \in Conns |-> <<>>] /\ local = [n \in Conns |-> {}]
  /\ pending = [n \in Conns |-> {}] /\ seqno = [n \in Conns |-> 0]
  /\ proc_port = <<>> /\ proc_sig = FALSE /\ dev_sig = {} /\ coalesced = FALSE

-----------------------------------------------------------------------------
(* The list of peers.                                                       *)

(* The i-th pointer met when following the list from its head. *)
Walk[i \in 0 .. MaxConns] ==
  IF i = 0 THEN peers
  ELSE IF Walk[i - 1] = NULL THEN NULL ELSE next[Walk[i - 1]]

Listed == {Walk[i] : i \in 0 .. MaxConns} \ {NULL}
Dangling == \E n \in Listed : mem[n] # "live"

(* The first peer of the list with an index, or NULL. *)
FindPeerHead(index) == peers
FindPeer(index) ==
  LET hits == {i \in 0 .. MaxConns : Walk[i] # NULL /\ peer_index[Walk[i]] = index}
  IN  IF hits = {} THEN NULL
      ELSE Walk[CHOOSE i \in hits : \A j \in hits : i <= j]

-----------------------------------------------------------------------------
(* Starting, and waiting.                                                   *)

(* common_main up to listen(). *)
common_main ==
  /\ phase = "boot"
  /\ \/ phase' = "select" /\ UNCHANGED events
     \/ phase' = "exited" /\ Event
  /\ UNCHANGED <<backlog, c2t, t2c, cfd, tfd, listVars, turnVars, outq, progVars>>

(* The loops over the list that prepare WaitSelect. *)
follow_freed ==
  /\ phase = "select" /\ Dangling
  /\ phase' = "undefined"
  /\ UNCHANGED <<links, listVars, turnVars, outq, progVars>>

ProcSignalForgotten == FALSE
ProcSignal == proc_sig

(* WaitSelect returns what is ready, and the signals, which it clears.  A   *)
(* turn after the timeout of one second does nothing unless a turn that was *)
(* cut short has left a peer to be removed or output to be sent.            *)
WaitSelect ==
  /\ phase = "select" /\ ~Dangling
  /\ \E break \in BOOLEAN :
       LET woken == [read |-> {n \in Listed : TargetReadable(n)},
                     accept |-> backlog # <<>>, proc |-> ProcSignal,
                     dev |-> dev_sig \cap Listed, break |-> break]
       IN  /\ woken # NoWake \/ \E n \in Listed : state[n] = "ERROR" \/ outq[n] # <<>>
           /\ IF break THEN Event ELSE UNCHANGED events
           /\ wake' = woken
           /\ proc_sig' = (proc_sig /\ ~woken.proc)
           /\ dev_sig' = dev_sig \ woken.dev
  /\ phase' = "signals"
  /\ UNCHANGED <<backlog, c2t, t2c, cfd, tfd, listVars, ci, loop_next, got, new_peer,
                 outq, prog, fsVars, proc_port, coalesced>>

-----------------------------------------------------------------------------
(* Signals: packets of programs, and programs that have ended.              *)

(* on_transmit_message, or what other states than CONNECTED do instead. *)
Transmit(st, q, n, msg) ==
  IF st[n] = "CONNECTED"
    THEN <<st, [q EXCEPT ![n] = Append(@, msg)]>>
    ELSE <<[st EXCEPT ![n] = "ERROR"], q>>

(* rl_amigafs_process_device_message takes every packet: those that need    *)
(* the controller become numbered requests, which wait for their answers    *)
(* unless the peer does not take them, and the others are answered.         *)
Requests(n) ==
  [i \in 1 .. Len(dev_port[n]) |-> Numbered("FILE_REQUEST", seqno[n] + i - 1)]

Operations(n) ==
  {[seqno |-> seqno[n] + i - 1, proc |-> dev_port[n][i]] : i \in 1 .. Len(dev_port[n])}

Refused(n) == dev_port[n] # <<>> /\ state[n] # "CONNECTED"

(* One GetMsg on the process port. *)
AfterGetMsgAll == <<>>
AfterGetMsgNone == proc_port
AfterGetMsg == Tail(proc_port)

(* The message has the index of the launching peer.  Whoever has it now is  *)
(* told; if nobody has, a warning is logged.                                *)
report(st, q) ==
  LET n == Head(proc_port)
      peer == FindPeer(peer_index[n])
  IN  IF peer = NULL THEN <<st, q>> ELSE Transmit(st, q, peer, Done(n))

handle_signals ==
  /\ phase = "signals"
  /\ LET st == [n \in Conns |->
                  IF n \in wake.dev /\ Refused(n) THEN "ERROR" ELSE state[n]]
         q == [n \in Conns |->
                 IF n \in wake.dev /\ ~Refused(n) THEN outq[n] \o Requests(n) ELSE outq[n]]
         told == IF wake.proc /\ proc_port # <<>> THEN report(st, q) ELSE <<st, q>>
     IN  state' = told[1] /\ outq' = told[2]
  /\ dev_port' = [n \in Conns |-> IF n \in wake.dev THEN <<>> ELSE dev_port[n]]
  /\ local' = [n \in Conns |-> IF n \in wake.dev THEN {} ELSE local[n]]
  /\ pending' = [n \in Conns |-> IF n \in wake.dev /\ ~Refused(n)
                                   THEN pending[n] \cup Operations(n) ELSE pending[n]]
  /\ seqno' = [n \in Conns |-> IF n \in wake.dev THEN seqno[n] + Len(dev_port[n]) ELSE seqno[n]]
  /\ IF wake.proc /\ proc_port = <<>>
       THEN phase' = "undefined" /\ UNCHANGED proc_port
       ELSE /\ phase' = IF wake.break THEN "shutdown" ELSE "accept"
            /\ proc_port' = IF wake.proc THEN AfterGetMsg ELSE proc_port
  /\ wake' = [wake EXCEPT !.proc = FALSE, !.dev = {}, !.break = FALSE]
  /\ UNCHANGED <<links, peers, next, mem, peer_index, peer_count, mounted, ci, loop_next,
                 got, new_peer, prog, proc_sig, dev_sig, coalesced>>

-----------------------------------------------------------------------------
(* New connections.                                                         *)

IndexOfUnbounded(count) == count
IndexOf(count) == count % IndexModulus

(* mount_volume: FindDosEntry knows the volume TBL<index> already. *)
NameTakenUnchecked(index) == FALSE
NameTaken(index) == \E n \in mounted : peer_index[n] = index

(* The loop's next turn starts with nothing left of this one. *)
NextTurn ==
  /\ phase' = "select"
  /\ wake' = NoWake /\ ci' = NULL /\ loop_next' = NULL /\ got' = FALSE /\ new_peer' = NULL

(* The update loop starts at the head; an empty list goes back to waiting.  *)
StartUpdate(head, new) ==
  IF head = NULL THEN NextTurn
  ELSE /\ phase' = "update"
       /\ ci' = head /\ loop_next' = NULL /\ got' = FALSE /\ new_peer' = new
       /\ wake' = [wake EXCEPT !.accept = FALSE]

(* accept() itself fails, and the connection keeps waiting for it.  Here as *)
(* in the next two, the loop starts over at once.                           *)
accept_fails ==
  /\ Event
  /\ NextTurn
  /\ UNCHANGED <<backlog, c2t, t2c, cfd, tfd, listVars>>

(* The checks and the allocations up to peer_init fail: the socket is       *)
(* closed.                                                                  *)
setup_fails(n) ==
  /\ Event
  /\ backlog' = Tail(backlog)
  /\ tfd' = [tfd EXCEPT ![n] = "closed"] /\ c2t' = [c2t EXCEPT ![n] = <<>>]
  /\ NextTurn
  /\ UNCHANGED <<t2c, cfd, listVars>>

(* peer_init has counted the peer when rl_amigafs_init fails; the socket is *)
(* closed by peer_destroy and once more, which has no effect, by the clean- *)
(* up code.                                                                 *)
mount_fails(n) ==
  /\ IF NameTaken(IndexOf(peer_count)) THEN UNCHANGED events ELSE Event
  /\ backlog' = Tail(backlog)
  /\ peer_count' = peer_count + 1
  /\ tfd' = [tfd EXCEPT ![n] = "closed"] /\ c2t' = [c2t EXCEPT ![n] = <<>>]
  /\ NextTurn
  /\ UNCHANGED <<t2c, cfd, peers, next, mem, state, peer_index, mounted>>

accept_succeeds(n) ==
  LET index == IndexOf(peer_count)
  IN  /\ ~NameTaken(index)
      /\ backlog' = Tail(backlog)
      /\ peer_count' = peer_count + 1
      /\ peer_index' = [peer_index EXCEPT ![n] = index]
      /\ mem' = [mem EXCEPT ![n] = "live"]
      /\ state' = [state EXCEPT ![n] = "WAIT_HANDSHAKE"]
      /\ mounted' = mounted \cup {n}
      /\ next' = [next EXCEPT ![n] = peers] /\ peers' = n
      /\ tfd' = [tfd EXCEPT ![n] = "open"]
      /\ StartUpdate(n, n)
      /\ UNCHANGED <<c2t, t2c, cfd, events>>

accept_peer ==
  /\ phase = "accept" /\ wake.accept
  /\ LET n == Head(backlog)
     IN  accept_fails \/ setup_fails(n) \/ mount_fails(n) \/ accept_succeeds(n)
  /\ UNCHANGED <<outq, progVars>>

no_connection ==
  /\ phase = "accept" /\ ~wake.accept
  /\ StartUpdate(peers, NULL)
  /\ UNCHANGED <<links, listVars, outq, progVars>>

-----------------------------------------------------------------------------
(* Updating the peers.                                                      *)

(* A new peer is read from at once, from a blocking socket.                 *)
Reads(n) == n = new_peer \/ n \in wake.read

(* What one message does to a peer: the new state, the answers, whether a   *)
(* program is launched and the operations that are completed.               *)
Effect(st, out, launch, ops) ==
  [state |-> st, out |-> out, launch |-> launch, ops |-> ops]
Drops == Effect("ERROR", <<>>, FALSE, {})
Sends(type) == Effect("CONNECTED", <<Msg(type)>>, FALSE, {})

(* async_spawn runs out of memory or cannot create the process. *)
SpawnFails == Sends("ERROR_ANSWER")

on_launch_executable_request ==
  {Effect("CONNECTED", <<Msg("LAUNCH_EXECUTABLE_ANSWER")>>, TRUE, {}), SpawnFails}

find_pending_op(n, number) == {op \in pending[n] : op.seqno = number}

(* An answer that no operation waits for ends the connection. *)
rl_amigafs_process_network_message(n, msg) ==
  LET ops == find_pending_op(n, msg.of)
  IN  IF ops = {} THEN Drops ELSE Effect("CONNECTED", <<>>, FALSE, ops)

target_on_message(n, msg) ==
  CASE msg.type = "PING_REQUEST" -> {Sends("PING_ANSWER")}
    [] msg.type = "LAUNCH_EXECUTABLE_REQUEST" -> on_launch_executable_request
    [] OTHER -> {rl_amigafs_process_network_message(n, msg)}

Deliver(n, msg) ==
  CASE state[n] = "WAIT_HANDSHAKE" /\ msg.type = "HANDSHAKE_REQUEST" ->
         {Sends("HANDSHAKE_REQUEST")}
    [] state[n] = "CONNECTED" /\ msg.type # "HANDSHAKE_REQUEST" ->
         target_on_message(n, msg)
    [] OTHER -> {Drops}

(* The controller's error answer is its reply to the report of a failed     *)
(* launch.  When an operation takes it for its own, it goes unnoticed.      *)
ProgramAfter(n, msg, e) ==
  IF e.launch THEN [prog EXCEPT ![n] = "starting"]
  ELSE IF msg.type = "ERROR_ANSWER" /\ e.ops # {} THEN [prog EXCEPT ![n] = "failed"]
  ELSE prog

(* The part of peer_update that delivers one of the messages read. *)
deliver ==
  /\ phase = "update" /\ Reads(ci)
  /\ c2t[ci] # <<>> /\ state[ci] # "ERROR"
  /\ LET n == ci
         msg == Head(c2t[n])
     IN  \E e \in Deliver(n, msg) :
           /\ IF e = SpawnFails THEN Event ELSE UNCHANGED events
           /\ state' = [state EXCEPT ![n] = e.state]
           /\ outq' = [outq EXCEPT ![n] = @ \o e.out]
           /\ pending' = [pending EXCEPT ![n] = @ \ e.ops]
           /\ prog' = ProgramAfter(n, msg, e)
           /\ c2t' = [c2t EXCEPT ![n] = Tail(@)]
  /\ got' = TRUE
  /\ UNCHANGED <<phase, backlog, t2c, cfd, tfd, peers, next, mem, peer_index, peer_count,
                 mounted, wake, ci, loop_next, new_peer, dev_port, local, seqno,
                 portVars, dev_sig>>

(* The removal code: `prev' is the value that `next' had in the previous    *)
(* turn, which is the peer that is being updated now.                       *)
Unlinked(n, prev) ==
  IF prev # NULL
    THEN next' = [next EXCEPT ![prev] = next[n]] /\ UNCHANGED peers
    ELSE peers' = next[n] /\ UNCHANGED next

(* rl_amigafs_destroy, peer_destroy and RL_FREE_TYPED. *)
UnmountedKept(n) == mounted
Unmounted(n) == mounted \ {n}

RemovePeer(n, prev) ==
  /\ Unlinked(n, prev)
  /\ mounted' = Unmounted(n)
  /\ mem' = [mem EXCEPT ![n] = "freed"]
  /\ tfd' = [tfd EXCEPT ![n] = "closed"]
  /\ c2t' = [c2t EXCEPT ![n] = <<>>]
  /\ dev_sig' = dev_sig \ {n}

(* recv() has met the end of the stream: there was nothing before it. *)
EndOfStream(n) == Reads(n) /\ ~got /\ c2t[n] = <<>> /\ cfd[n] = "closed"

(* The rest of peer_update, and of the loop's turn for this peer.  recv()   *)
(* returns at least one message or the end; any number may have come.       *)
update_finish ==
  /\ phase = "update"
  /\ LET n == ci
         prev == loop_next
         st == IF EndOfStream(n) THEN "DISCONNECTED" ELSE state[n]
     IN  /\ Reads(n) /\ state[n] # "ERROR" => got \/ EndOfStream(n)
         /\ state' = [state EXCEPT ![n] = st]
         /\ t2c' = AfterSend(t2c, n, cfd, outq[n])
         /\ outq' = [outq EXCEPT ![n] = <<>>]
         /\ IF st \in {"ERROR", "DISCONNECTED"}
              THEN RemovePeer(n, prev)
              ELSE UNCHANGED <<peers, next, mounted, mem, tfd, c2t, dev_sig>>
         /\ IF next[n] = NULL THEN NextTurn
            ELSE /\ ci' = next[n] /\ loop_next' = next[n] /\ got' = FALSE
                 /\ wake' = [wake EXCEPT !.read = @ \ {n}]
                 /\ UNCHANGED <<phase, new_peer>>
  /\ UNCHANGED <<backlog, cfd, events, peer_index, peer_count, prog, fsVars, portVars>>

(* After the loop all peers are destroyed; common_main closes the listening *)
(* socket, which resets what waits for accept, and main deletes the port.   *)
shutdown ==
  /\ phase = "shutdown"
  /\ phase' = "exited"
  /\ mem' = [n \in Conns |-> IF n \in Listed THEN "freed" ELSE mem[n]]
  /\ mounted' = mounted \ Listed
  /\ peers' = NULL
  /\ LET gone == Listed \cup {backlog[i] : i \in DOMAIN backlog}
     IN  /\ tfd' = [n \in Conns |-> IF n \in gone THEN "closed" ELSE tfd[n]]
         /\ c2t' = [n \in Conns |-> IF n \in gone THEN <<>> ELSE c2t[n]]
  /\ backlog' = <<>> /\ proc_port' = <<>> /\ proc_sig' = FALSE /\ dev_sig' = {}
  /\ UNCHANGED <<t2c, cfd, events, next, state, peer_index, peer_count, turnVars, outq,
                 prog, fsVars, coalesced>>

serve ==
  \/ common_main \/ follow_freed \/ WaitSelect \/ handle_signals
  \/ accept_peer \/ no_connection \/ deliver \/ update_finish \/ shutdown

-----------------------------------------------------------------------------
(* Launched programs: cmd_launcher, and the program SystemTagList runs; and *)
(* other processes that use the volumes.                                    *)

(* A process waits for the reply to its packet. *)
Waits(n, p) ==
  \/ p \in local[n]
  \/ \E i \in 1 .. Len(dev_port[n]) : dev_port[n][i] = p
  \/ \E op \in pending[n] : op.proc = p

(* Locks and file handles keep the address of the device port, which is     *)
(* freed with the volume.                                                   *)
PacketArrives(n) ==
  IF n \in mounted THEN dev_sig' = dev_sig \cup {n} /\ UNCHANGED phase
                   ELSE phase' = "undefined" /\ UNCHANGED dev_sig

SendLocal(n, p) ==
  /\ PacketArrives(n)
  /\ local' = [local EXCEPT ![n] = @ \cup {p}]
  /\ UNCHANGED <<dev_port, pending, seqno>>

(* Without dos.library the launcher leaves without a reply.  Otherwise it   *)
(* opens the virtual input and output by name, which fails if the volume is *)
(* gone, and runs the program.                                              *)
launcher_starts(n) ==
  /\ prog[n] = "starting"
  /\ \/ /\ prog' = [prog EXCEPT ![n] = "running"] /\ UNCHANGED events
        /\ IF n \in mounted THEN SendLocal(n, Launcher)
                            ELSE UNCHANGED <<phase, dev_sig, fsVars>>
     \/ /\ prog' = [prog EXCEPT ![n] = "failed"] /\ Event
        /\ UNCHANGED <<phase, dev_sig, fsVars>>
  /\ UNCHANGED portVars

(* Opening, reading, writing: what needs the controller.  The program has   *)
(* the root of the volume as its current directory; other processes find    *)
(* the volume by its name as long as it is there.                           *)
file_request(n, p) ==
  /\ IF p = Launcher THEN prog[n] = "running" ELSE n \in mounted
  /\ ~Waits(n, p)
  /\ Event
  /\ PacketArrives(n)
  /\ dev_port' = [dev_port EXCEPT ![n] = Append(@, p)]
  /\ UNCHANGED <<prog, local, pending, seqno, portVars>>

(* The current directory is unlocked and the handles are closed. *)
program_ends(n) ==
  /\ prog[n] = "running" /\ ~Waits(n, Launcher)
  /\ prog' = [prog EXCEPT ![n] = "closing"]
  /\ SendLocal(n, Launcher)
  /\ UNCHANGED <<portVars, events>>

(* ReplyMsg to the process port, which is deleted when the daemon ends. *)
launcher_replies(n) ==
  /\ prog[n] = "closing" /\ ~Waits(n, Launcher)
  /\ prog' = [prog EXCEPT ![n] = "ended"]
  /\ IF phase = "exited" THEN phase' = "undefined" /\ UNCHANGED portVars
     ELSE /\ proc_port' = Append(proc_port, n)
          /\ proc_sig' = TRUE
          /\ coalesced' = (coalesced \/ proc_sig)
          /\ UNCHANGED phase
  /\ UNCHANGED <<fsVars, dev_sig, events>>

cmd_launcher(n) ==
  launcher_starts(n) \/ program_ends(n) \/ launcher_replies(n)
=============================================================================
