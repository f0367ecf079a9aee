-------------------------------- MODULE Peer --------------------------------
(***************************************************************************)
(* A controller and a target connected by TCP: the peer state machine of   *)
(* src/peer.c at both ends (handshake, pings and their timeouts, error and *)
(* disconnect handling), driven by peer_update from each side's event loop *)
(* (pump_peer_state_machine, serve), with the callbacks of controller.c    *)
(* and target.c as far as they decide whether the connection lives on.     *)
(*                                                                         *)
(* The transport is represented by what TransportOut and TransportIn show  *)
(* of it: a FIFO queue of whole messages on either side of the socket.     *)
(*                                                                         *)
(* Definitions such as Touch_forgotten, each placed before the one whose   *)
(* name it extends, are faulty variants of it: no action uses them, they   *)
(* serve to confirm that the properties notice the fault.                  *)
(***************************************************************************)
EXTENDS Naturals, Sequences, FiniteSets

CONSTANTS
  RL_PING_TIMEOUT,     \* 30 in the code, in units of Tick
  Version,             \* Version[p] = <<major, minor>> of end p
  HasClock,            \* ends whose rl_time() advances (not the Amiga build)
  MayCrash,            \* ends that may vanish without closing their socket
  AllocMayFail,        \* whether enqueue_output_message may fail
  Prompt,              \* TRUE: every update reads and writes all there is
  EarlyPackets,        \* AmigaDOS may use the volume before the handshake
  MaxReqs              \* bound: file requests the target's programs make

Ends == {"controller", "target"}
Other(p) == IF p = "controller" THEN "target" ELSE "controller"

ASSUME PeerAssumption ==
  /\ RL_PING_TIMEOUT \in Nat \ {0}
  /\ Version \in [Ends -> Nat \X Nat]
  /\ HasClock \subseteq Ends /\ MayCrash \subseteq Ends
  /\ AllocMayFail \in BOOLEAN /\ Prompt \in BOOLEAN /\ EarlyPackets \in BOOLEAN
  /\ MaxReqs \in Nat

VARIABLES
  peer,        \* peer_t of each end, see PeerType
  inbuf,       \* messages recv() has fetched but not yet delivered
  net,         \* net[p]: messages p has written, on their way to the other
  pc,          \* "idle", "update" (inside peer_update) or "gone" (destroyed)
  status,      \* what the transport reports: "ok", "error", "disconnected"
  fresh,       \* ends whose event loop came round since the last Tick
  crashed,     \* ends that have vanished
  reqs,        \* number of file requests made
  exe          \* the launched program: "none", "running", "done"

vars == <<peer, inbuf, net, pc, status, fresh, crashed, reqs, exe>>

Kinds == {"HANDSHAKE", "PING_REQUEST", "PING_ANSWER", "LAUNCH_REQUEST",
          "LAUNCH_ANSWER", "DONE_REQUEST", "FILE_REQUEST", "FILE_ANSWER",
          "ERROR_ANSWER"}

States == {"INITIAL", "WAIT_HANDSHAKE", "CONNECTED", "ERROR", "DISCONNECTED"}

(* `age' is rl_time() - last_activity, which is all the code looks at; it   *)
(* stops growing where no comparison can tell larger values apart.          *)
MaxAge == 2 * (RL_PING_TIMEOUT + 1) + 1

PeerType ==
  [end : Ends, state : States, age : 0 .. MaxAge, ping_on_wire : BOOLEAN,
   outq : Seq(Kinds),
   ctl : {"INITIAL", "WAIT_EXECUTABLE_LAUNCHED", "FILE_SERVING", "ERROR"},
   need_output : BOOLEAN,
   (* history *)
   was_connected : BOOLEAN, stray : SUBSET (States \X {"HANDSHAKE", "MESSAGE"}),
   timed_out : BOOLEAN]

-----------------------------------------------------------------------------
(* The state machine.  Every handler maps the peer's record to its new      *)
(* value; `ok' tells whether enqueue_output_message succeeds in it (no      *)
(* handler enqueues more than one message).                                 *)

enqueue_output_message(e, kind) == [e EXCEPT !.outq = Append(@, kind)]

Failed(e) == [e EXCEPT !.state = "ERROR"]

(* invoke_action(TRANSMIT_MESSAGE): defined in state CONNECTED only. *)
on_transmit_message(e, kind, ok) ==
  IF e.state = "CONNECTED" /\ ok THEN enqueue_output_message(e, kind)
                                 ELSE Failed(e)

(* on_connected of controller.c asks for the program to be launched; that   *)
(* of target.c does nothing.                                                *)
on_connected_copies_state(e, ok) ==
  IF e.end = "controller"
    THEN [on_transmit_message(e, "LAUNCH_REQUEST", ok) EXCEPT !.ctl = e.state]
    ELSE e

on_connected(e, ok) ==
  IF e.end = "controller"
    THEN [on_transmit_message(e, "LAUNCH_REQUEST", ok)
            EXCEPT !.ctl = "WAIT_EXECUTABLE_LAUNCHED"]
    ELSE e

enter_connected(e, ok) ==
  on_connected([e EXCEPT !.state = "CONNECTED", !.was_connected = TRUE], ok)

(* invoke_action(TRANSMIT_HANDSHAKE) in state INITIAL or WAIT_HANDSHAKE. *)
on_transmit_handshake(e, ok) ==
  IF ok
    THEN [enqueue_output_message(e, "HANDSHAKE") EXCEPT !.state = "WAIT_HANDSHAKE"]
    ELSE Failed(e)

SameVersion(e) == Version[e.end][1] = Version[Other(e.end)][1]

on_receive_handshake(e, ok) ==
  IF SameVersion(e)
    THEN enter_connected(IF e.end = "target" THEN on_transmit_handshake(e, ok)
                                             ELSE e, ok)
    ELSE Failed(e)

controller_on_message_done_ignored(e, kind, ok) ==
  IF e.ctl \notin {"WAIT_EXECUTABLE_LAUNCHED", "FILE_SERVING"}
    THEN <<[e EXCEPT !.ctl = "ERROR"], 0>>
  ELSE IF kind = "LAUNCH_ANSWER"
    THEN <<[e EXCEPT !.ctl = "FILE_SERVING"], 0>>
  ELSE IF kind = "DONE_REQUEST"
    THEN <<e, 0>>
    ELSE <<on_transmit_message(e, IF kind = "FILE_REQUEST" THEN "FILE_ANSWER"
                                  ELSE "ERROR_ANSWER", ok), 0>>

(* on_message_received of controller.c; the result is a peer record and the *)
(* callback's return value.  Anything that is not a file request is answered*)
(* by rl_file_serve with an error.                                          *)
controller_on_message(e, kind, ok) ==
  IF e.ctl \notin {"WAIT_EXECUTABLE_LAUNCHED", "FILE_SERVING"}
    THEN <<[e EXCEPT !.ctl = "ERROR"], 0>>
  ELSE IF kind = "LAUNCH_ANSWER"
    THEN <<[e EXCEPT !.ctl = "FILE_SERVING"], 0>>
  ELSE IF kind = "DONE_REQUEST"
    THEN <<e, 1>>
    ELSE <<on_transmit_message(e, IF kind = "FILE_REQUEST" THEN "FILE_ANSWER"
                                  ELSE "ERROR_ANSWER", ok), 0>>

(* on_message_received of target.c.  `good' is an outcome that other parts  *)
(* decide: async_spawn succeeds, or rl_amigafs_process_network_message finds*)
(* the operation that the answer completes (see AmigaFs).                   *)
target_on_message(e, kind, ok, good) ==
  CASE kind = "LAUNCH_REQUEST" ->
         <<on_transmit_message(e, IF good THEN "LAUNCH_ANSWER" ELSE "ERROR_ANSWER", ok), 0>>
    [] kind \in {"FILE_ANSWER", "ERROR_ANSWER"} -> <<e, IF good THEN 0 ELSE 1>>
    [] OTHER -> <<e, 1>>

Touch_forgotten(e) == e

(* last_activity = rl_time(NULL) *)
Touch(e) == [e EXCEPT !.age = 0]

on_receive_message(e0, kind, ok, good) ==
  LET e == Touch(e0)
      r == IF e.end = "controller" THEN controller_on_message(e, kind, ok)
           ELSE target_on_message(e, kind, ok, good)
  IN  CASE kind = "PING_REQUEST" -> on_transmit_message(e, "PING_ANSWER", ok)
        [] kind = "PING_ANSWER"  -> [e EXCEPT !.ping_on_wire = FALSE]
        [] OTHER -> IF r[2] = 0 THEN r[1] ELSE Failed(r[1])

(* peer_deliver_incoming through the table state_actions: a handshake is    *)
(* expected in WAIT_HANDSHAKE only, any other message in CONNECTED only.    *)
peer_deliver_incoming(e, kind, ok, good) ==
  CASE kind = "HANDSHAKE" /\ e.state = "WAIT_HANDSHAKE" ->
         on_receive_handshake(e, ok)
    [] kind # "HANDSHAKE" /\ e.state = "CONNECTED" ->
         on_receive_message(e, kind, ok, good)
    [] OTHER ->
         [Failed(e) EXCEPT !.stray =
            @ \cup {<<e.state, IF kind = "HANDSHAKE" THEN kind ELSE "MESSAGE">>}]

on_disconnect_ignored(e) == e

(* invoke_action(DISCONNECT). *)
on_disconnect(e) ==
  IF e.state = "INITIAL" THEN Failed(e) ELSE [e EXCEPT !.state = "DISCONNECTED"]

threshold(e) ==
  IF e.end = "target" THEN RL_PING_TIMEOUT ELSE RL_PING_TIMEOUT + 1

on_update_connected_repeats(e, ok) ==
  IF e.state # "CONNECTED" THEN e
  ELSE IF e.age > threshold(e)
    THEN [on_transmit_message(e, "PING_REQUEST", ok) EXCEPT !.ping_on_wire = TRUE]
    ELSE e

on_update_connected_waits(e, ok) ==
  IF e.state = "CONNECTED" /\ e.age > threshold(e) /\ ~e.ping_on_wire
    THEN [on_transmit_message(e, "PING_REQUEST", ok) EXCEPT !.ping_on_wire = TRUE]
    ELSE e

(* invoke_action(UPDATE): only state CONNECTED has something to do. *)
on_update_connected(e, ok) ==
  IF e.state # "CONNECTED" THEN e
  ELSE IF e.age > threshold(e) /\ ~e.ping_on_wire
    THEN [on_transmit_message(e, "PING_REQUEST", ok) EXCEPT !.ping_on_wire = TRUE]
  ELSE IF e.ping_on_wire /\ e.age > 2 * threshold(e)
    THEN [Failed(e) EXCEPT !.timed_out = TRUE]
    ELSE e

-----------------------------------------------------------------------------
NewPeer(p) ==
  [end |-> p, state |-> "INITIAL", age |-> 0, ping_on_wire |-> FALSE,
   outq |-> <<>>, ctl |-> "INITIAL", need_output |-> TRUE,
   was_connected |-> FALSE, stray |-> {}, timed_out |-> FALSE]

(* need_output starts out TRUE because the event loops let a new peer write *)
(* in its first update (first_update, new_peer_socket).                     *)
peer_init_both_send(p, ok) == on_transmit_handshake(NewPeer(p), ok)

peer_init_none_sends(p, ok) == [NewPeer(p) EXCEPT !.state = "WAIT_HANDSHAKE"]

(* peer_init: the controller sends its handshake at once, the target waits. *)
peer_init(p, ok) ==
  IF p = "controller" THEN on_transmit_handshake(NewPeer(p), ok)
                      ELSE [NewPeer(p) EXCEPT !.state = "WAIT_HANDSHAKE"]

EnqueueResults == IF AllocMayFail THEN BOOLEAN ELSE {TRUE}

Init ==
  /\ \E ok \in EnqueueResults : peer = [p \in Ends |-> peer_init(p, ok)]
  /\ inbuf = [p \in Ends |-> <<>>]
  /\ net = [p \in Ends |-> <<>>]
  /\ pc = [p \in Ends |-> "idle"]
  /\ status = [p \in Ends |-> "ok"]
  /\ fresh = {}
  /\ crashed = {}
  /\ reqs = 0
  /\ exe = "none"

Alive(p) == p \notin crashed /\ pc[p] # "gone"

(* How much of a queue one recv() or one write loop may move. *)
Portion(queue) == IF Prompt THEN {Len(queue)} ELSE 0 .. Len(queue)

Drop(queue, n) == SubSeq(queue, n + 1, Len(queue))
Take(queue, n) == SubSeq(queue, 1, n)

SocketStatus(p) ==
  IF pc[Other(p)] # "gone" THEN {status[p]}
  ELSE (IF net[Other(p)] = <<>> THEN {"disconnected"} ELSE {status[p]})
         \cup (IF peer[p].outq # <<>> THEN {"error"} ELSE {})

(* peer_update up to and including the reads and writes that select()       *)
(* allowed.  When the other end is gone, recv() reports it once all it had  *)
(* sent is read; a write to it may fail before that.                        *)
update_io(p) ==
  /\ Alive(p) /\ pc[p] = "idle"
  /\ pc' = [pc EXCEPT ![p] = "update"]
  /\ \E n \in Portion(net[Other(p)]),
        k \in IF peer[p].need_output THEN Portion(peer[p].outq) ELSE {0} :
       /\ inbuf' = [inbuf EXCEPT ![p] = @ \o Take(net[Other(p)], n)]
       /\ net' = [net EXCEPT ![Other(p)] = Drop(@, n),
                             ![p] = @ \o Take(peer[p].outq, k)]
       /\ peer' = [peer EXCEPT ![p].outq = Drop(@, k)]
  /\ \E s \in SocketStatus(p) : status' = [status EXCEPT ![p] = s]
  /\ UNCHANGED <<fresh, crashed, reqs, exe>>

(* rl_transport_update hands one frame to peer_deliver_incoming. *)
deliver(p) ==
  /\ p \notin crashed /\ pc[p] = "update"
  /\ status[p] = "ok"
  /\ inbuf[p] # <<>>
  /\ inbuf' = [inbuf EXCEPT ![p] = Tail(@)]
  /\ \E ok \in EnqueueResults, good \in BOOLEAN :
       /\ peer' = [peer EXCEPT ![p] =
                     peer_deliver_incoming(@, Head(inbuf[p]), ok, good)]
       /\ exe' = IF p = "target" /\ peer[p].state = "CONNECTED"
                    /\ Head(inbuf[p]) = "LAUNCH_REQUEST" /\ good
                   THEN "running" ELSE exe
  /\ UNCHANGED <<net, pc, status, fresh, crashed, reqs>>

(* The rest of peer_update: disconnect and update actions, a last attempt   *)
(* to write, the result; the event loop destroys a peer that asks for it.   *)
update_finish(p) ==
  /\ p \notin crashed /\ pc[p] = "update"
  /\ status[p] = "ok" => inbuf[p] = <<>>
  /\ \E ok \in EnqueueResults :
       LET e1 == IF status[p] = "ok" THEN peer[p] ELSE on_disconnect(peer[p])
           e2 == on_update_connected(e1, ok)
           remove == e2.state \in {"ERROR", "DISCONNECTED"}
       IN  \E k \in Portion(e2.outq) :
             /\ net' = [net EXCEPT ![p] = @ \o Take(e2.outq, k)]
             /\ peer' = [peer EXCEPT ![p] =
                  [e2 EXCEPT !.outq = Drop(@, k),
                             !.need_output = ~remove /\ peer[p].outq # <<>>]]
             /\ pc' = [pc EXCEPT ![p] = IF remove THEN "gone" ELSE "idle"]
  /\ fresh' = fresh \cup {p}
  /\ UNCHANGED <<inbuf, status, crashed, reqs, exe>>

peer_update(p) == update_io(p) \/ deliver(p) \/ update_finish(p)

(* serve, between two updates: AmigaDOS sends the device a packet that      *)
(* needs the controller.                                                    *)
device_request ==
  /\ Alive("target") /\ pc["target"] = "idle"
  /\ EarlyPackets \/ peer["target"].state = "CONNECTED"
  /\ reqs < MaxReqs
  /\ reqs' = reqs + 1
  /\ \E ok \in EnqueueResults :
       peer' = [peer EXCEPT !["target"] = on_transmit_message(@, "FILE_REQUEST", ok)]
  /\ UNCHANGED <<inbuf, net, pc, status, fresh, crashed, exe>>

(* serve, between two updates: the launched program has ended. *)
launch_completed ==
  /\ Alive("target") /\ pc["target"] = "idle"
  /\ exe = "running"
  /\ exe' = "done"
  /\ \E ok \in EnqueueResults :
       peer' = [peer EXCEPT !["target"] = on_transmit_message(@, "DONE_REQUEST", ok)]
  /\ UNCHANGED <<inbuf, net, pc, status, fresh, crashed, reqs>>

-----------------------------------------------------------------------------
(* select() returns after at most a second, so that each end goes through   *)
(* peer_update at least once between two ticks.                             *)
Tick ==
  /\ \A p \in Ends : Alive(p) => p \in fresh /\ pc[p] = "idle"
  /\ \E p \in Ends : Alive(p)
  /\ fresh' = {}
  /\ peer' = [p \in Ends |->
       IF p \in HasClock /\ peer[p].age < MaxAge
         THEN [peer[p] EXCEPT !.age = @ + 1] ELSE peer[p]]
  /\ UNCHANGED <<inbuf, net, pc, status, crashed, reqs, exe>>

Crash(p) ==
  /\ p \in MayCrash /\ Alive(p)
  /\ crashed' = crashed \cup {p}
  /\ UNCHANGED <<peer, inbuf, net, pc, status, fresh, reqs, exe>>

Terminated ==
  /\ \A p \in Ends : ~Alive(p)
  /\ UNCHANGED vars

Next ==
  \/ \E p \in Ends : update_io(p) \/ deliver(p) \/ update_finish(p)
  \/ device_request
  \/ launch_completed
  \/ Tick
  \/ \E p \in Ends : Crash(p)
  \/ Terminated

Spec == Init /\ [][Next]_vars

(* Time does not stand still while an end lives.  (Fairness of Tick would   *)
(* not say this: overlapping updates could disable it again and again.)     *)
TimePasses ==
  []<>(\A p \in Ends : ~Alive(p)) \/ []<><<Tick>>_vars

(* Each event loop keeps running, and time passes. *)
FairSpec == Spec /\ (\A p \in Ends : WF_vars(peer_update(p))) /\ TimePasses

-----------------------------------------------------------------------------
(* Properties                                                               *)

(* Every peer record, queue and flag keeps its type. *)
TypeOK ==
  /\ peer \in [Ends -> PeerType]
  /\ inbuf \in [Ends -> Seq(Kinds)] /\ net \in [Ends -> Seq(Kinds)]
  /\ pc \in [Ends -> {"idle", "update", "gone"}]
  /\ status \in [Ends -> {"ok", "error", "disconnected"}]
  /\ fresh \subseteq Ends /\ crashed \subseteq Ends
  /\ reqs \in 0 .. MaxReqs
  /\ exe \in {"none", "running", "done"}

(* The controller reaches CONNECTED only after the target has. *)
ConnectedAgreement ==
  peer["controller"].was_connected => peer["target"].was_connected

(* The table state_actions has no entry for a message before the handshake  *)
(* nor for a second handshake; between two conforming ends neither ever     *)
(* arrives, whatever the timing.                                            *)
HandshakeComesFirst ==
  \A p \in Ends :
    /\ <<"WAIT_HANDSHAKE", "MESSAGE">> \notin peer[p].stray
    /\ <<"CONNECTED", "HANDSHAKE">> \notin peer[p].stray

Count(kind, queue) == Cardinality({i \in 1 .. Len(queue) : queue[i] = kind})

(* Messages of a kind between end p's output queue and the other's handler. *)
InTransit(kind, p) ==
  Count(kind, peer[p].outq) + Count(kind, net[p]) + Count(kind, inbuf[Other(p)])

(* ping_on_wire tells the truth: while both ends work, it is set exactly    *)
(* when one ping or its answer is on its way, so that answers never pile up *)
(* and a ping is never answered twice.                                      *)
PingAccounting ==
  (\A p \in Ends : peer[p].state \in {"WAIT_HANDSHAKE", "CONNECTED"}) =>
    \A p \in Ends :
      InTransit("PING_REQUEST", p) + InTransit("PING_ANSWER", Other(p))
        = IF peer[p].ping_on_wire THEN 1 ELSE 0

(* Two live ends that read and write promptly never time each other out,    *)
(* also when both ping at the same moment.                                  *)
NoFalseTimeout ==
  crashed = {} => \A p \in Ends : ~peer[p].timed_out

(* An end with a clock tears an established connection down when the other  *)
(* end vanishes without closing it.                                         *)
DeadPeerDetected ==
  \A p \in HasClock :
    (Other(p) \in crashed /\ peer[p].state = "CONNECTED") ~> ~Alive(p)

(* When one end drops the connection, the other follows. *)
BothGoDown ==
  \A p \in Ends : pc[p] = "gone" ~> ~Alive(Other(p))

(* The end of the launched program ends the controller, whatever happens to *)
(* the connection on the way.                                               *)
ControllerTerminates == exe = "done" ~> ~Alive("controller")

(* The device is torn down when the connection is broken (README): a target *)
(* whose controller vanishes does not keep the connection and its volume.   *)
DeviceTornDown ==
  ("controller" \in crashed /\ peer["target"].state = "CONNECTED") ~> ~Alive("target")

(* The target counts as connected although its handshake was not enqueued,  *)
(* and it has no clock to find out that the connection is dead.             *)
HandshakeDropped ==
  /\ "target" \notin HasClock
  /\ peer["target"].was_connected /\ ~peer["controller"].was_connected
  /\ InTransit("HANDSHAKE", "target") = 0

(* Two ends of the same version get connected unless one of them fails, or  *)
(* the target fails to enqueue its handshake and does not notice: it        *)
(* overwrites the error state, and only a ping would bring the error out.   *)
HandshakeCompletes ==
  <>(\A p \in Ends : peer[p].was_connected \/ crashed # {} \/ HandshakeDropped
        \/ \E q \in Ends : pc[q] = "gone")
=============================================================================
