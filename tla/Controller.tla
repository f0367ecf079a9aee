----------------------------- MODULE Controller -----------------------------
(***************************************************************************)
(* Runs of the controller (src/controller.c) once connect() has succeeded: *)
(* pump_peer_state_machine and the callbacks, down to the end of main.     *)
(* What happens before is in ControllerStart, and what the file server     *)
(* answers is in FileServer: here it answers.  When a ping is due and when *)
(* its answer is overdue is in Peer: here one may be sent at any time, and *)
(* a connection that times out ends like one that is interrupted.          *)
(***************************************************************************)
EXTENDS Links

VARIABLES
  ctl,             \* what each controller is doing; "exited" in the end
  ping_on_wire     \* peer_t.ping_on_wire of each controller

ctlVars == <<ctl, ping_on_wire>>

(* "connected": the handshake is queued but not sent.  "initial": it is, and*)
(* the peer waits for the target's (CONTROLLER_INITIAL).  The next two are  *)
(* CONTROLLER_WAIT_EXECUTABLE_LAUNCHED and CONTROLLER_FILE_SERVING.         *)
CtlStates ==
  {"off", "connected", "initial", "wait_launched", "file_serving", "exited"}

Running(n) == ctl[n] \notin {"off", "exited"}

ControllerInit ==
  /\ ctl = [n \in Conns |-> "off"]
  /\ ping_on_wire = [n \in Conns |-> FALSE]

(* Controllers are interchangeable, so they are started in order. *)
NextToStart(n) == ctl[n] = "off" /\ \A k \in 1 .. n - 1 : ctl[k] # "off"

connect_to_target(n, listening) ==
  /\ NextToStart(n) /\ Event
  /\ IF listening
       THEN /\ ctl' = [ctl EXCEPT ![n] = "connected"]
            /\ cfd' = [cfd EXCEPT ![n] = "open"]
            /\ backlog' = Append(backlog, n)
       ELSE /\ ctl' = [ctl EXCEPT ![n] = "exited"]
            /\ UNCHANGED <<cfd, backlog>>
  /\ UNCHANGED <<c2t, t2c, tfd, ping_on_wire>>

(* The first turn of pump_peer_state_machine, which is the one that writes  *)
(* the handshake that peer_init has queued.                                 *)
first_update(n) ==
  /\ ctl[n] = "connected"
  /\ ctl' = [ctl EXCEPT ![n] = "initial"]
  /\ c2t' = AfterSend(c2t, n, tfd, <<Msg("HANDSHAKE_REQUEST")>>)
  /\ UNCHANGED <<backlog, t2c, cfd, tfd, events, ping_on_wire>>

(* The loop ends when the peer asks to be removed; main destroys the peer,  *)
(* which closes the socket, and returns.                                    *)
Exit(n) ==
  /\ ctl' = [ctl EXCEPT ![n] = "exited"]
  /\ cfd' = [cfd EXCEPT ![n] = "closed"]
  /\ t2c' = [t2c EXCEPT ![n] = <<>>]
  /\ ping_on_wire' = [ping_on_wire EXCEPT ![n] = FALSE]
  /\ UNCHANGED <<backlog, c2t, tfd>>

(* A message in, and possibly one out. *)
Answer(n, new, msgs) ==
  /\ ctl' = [ctl EXCEPT ![n] = new]
  /\ t2c' = [t2c EXCEPT ![n] = Tail(@)]
  /\ c2t' = AfterSend(c2t, n, tfd, msgs)
  /\ UNCHANGED <<backlog, cfd, tfd, events>>

(* on_receive_handshake and on_connected. *)
on_connected(n) ==
  /\ ctl[n] = "initial" /\ t2c[n] # <<>>
  /\ Head(t2c[n]).type = "HANDSHAKE_REQUEST"
  /\ Answer(n, "wait_launched", <<Msg("LAUNCH_EXECUTABLE_REQUEST")>>)
  /\ UNCHANGED ping_on_wire

Connected(n) == ctl[n] \in {"wait_launched", "file_serving"}

(* on_update_connected: nothing was heard for a while, and nothing has come *)
(* in now.                                                                  *)
send_ping(n) ==
  /\ Connected(n) /\ ~ping_on_wire[n]
  /\ ~ControllerReadable(n)
  /\ Event
  /\ ping_on_wire' = [ping_on_wire EXCEPT ![n] = TRUE]
  /\ c2t' = AfterSend(c2t, n, tfd, <<Msg("PING_REQUEST")>>)
  /\ UNCHANGED <<backlog, t2c, cfd, tfd, ctl>>

on_ping_answer(n) ==
  /\ Answer(n, ctl[n], <<>>)
  /\ ping_on_wire' = [ping_on_wire EXCEPT ![n] = FALSE]

(* on_receive_message and controller_on_message, by the kind of message:    *)
(* rl_file_serve answers a message that it does not know with an error.     *)
controller_on_message(n) ==
  /\ Connected(n) /\ t2c[n] # <<>>
  /\ LET msg == Head(t2c[n])
     IN  CASE msg.type = "PING_ANSWER" -> on_ping_answer(n)
           [] msg.type = "LAUNCH_EXECUTABLE_ANSWER" ->
                Answer(n, "file_serving", <<>>) /\ UNCHANGED ping_on_wire
           [] msg.type = "EXECUTABLE_DONE_REQUEST" -> Exit(n) /\ UNCHANGED events
           [] msg.type = "FILE_REQUEST" ->
                Answer(n, ctl[n], <<Numbered("FILE_ANSWER", msg.of)>>) /\ UNCHANGED ping_on_wire
           [] OTHER ->
                /\ Answer(n, ctl[n], <<Numbered("ERROR_ANSWER", msg.of)>>)
                /\ UNCHANGED ping_on_wire

(* recv() returns the end of the stream or an error. *)
disconnected(n) ==
  /\ Running(n)
  /\ t2c[n] = <<>> /\ ControllerReadable(n)
  /\ Exit(n) /\ UNCHANGED events

(* The user interrupts it. *)
quit(n) == Running(n) /\ Exit(n) /\ Event

(* Everything pump_peer_state_machine does without being interrupted. *)
pump_peer_state_machine(n) ==
  first_update(n) \/ on_connected(n) \/ controller_on_message(n) \/ disconnected(n)
=============================================================================
