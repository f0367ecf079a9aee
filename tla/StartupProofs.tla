--------------------------- MODULE StartupProofs ----------------------------
(***************************************************************************)
(* Proofs about Startup: the socket and the peers of connect_to_target, for*)
(* any number of addresses and whatever connect(), select() and the        *)
(* allocations do.                                                         *)
(***************************************************************************)
EXTENDS Startup, TLAPS

(* Until the controller exits, nothing has been closed or freed; the socket *)
(* is open from the first attempt to connect on.  Afterwards it has been    *)
(* closed once, if there was one.                                           *)
SocketInv ==
  /\ stage \in {"parse", "resolve", "connect", "pump", "exited"}
  /\ stage # "exited" => closes = 0 /\ freed = {}
  /\ stage \in {"parse", "resolve"} => sock = "none" /\ this_peer = NULL
  /\ stage \in {"connect", "pump"} => sock = "open"
  /\ stage = "pump" => this_peer # NULL
  /\ stage = "exited" =>
       \/ sock = "none" /\ closes = 0
       \/ sock = "closed" /\ closes = 1

(* Where connect_to_target returns: with a peer the socket stays open, else *)
(* it is closed if it had been opened.                                      *)
LEMMA ReturnCloses ==
  ASSUME NEW peer, NEW opened \in BOOLEAN, closes = 0, Return(peer, opened)
  PROVE  \/ /\ peer # NULL /\ stage' = "pump" /\ closes' = 0
            /\ sock' = IF opened THEN "open" ELSE "none"
         \/ /\ peer = NULL /\ stage' = "exited"
            /\ \/ sock' = "none" /\ closes' = 0
               \/ sock' = "closed" /\ closes' = 1
BY DEF Return, CloseOwn

LEMMA SocketStep ==
  ASSUME SocketInv, [Next]_vars
  PROVE  SocketInv'
<1>1. ASSUME NEW word \in Words, parse_option(word)
      PROVE  SocketInv'
  BY <1>1 DEF parse_option, Usage, sockVars, SocketInv
<1>2. ASSUME NEW word \in Words, parse_word(word)
      PROVE  SocketInv'
  <2>1. stage = "parse" /\ (stage' = stage \/ stage' = "exited")
    BY <1>2 DEF parse_word, Usage
  <2>2. UNCHANGED sockVars
    BY <1>2 DEF parse_word
  <2> QED BY <2>1, <2>2 DEF SocketInv, sockVars
<1>3. CASE parse_done
  BY <1>3 DEF parse_done, Usage, sockVars, SocketInv
<1>4. CASE open_socket
  <2>1. stage = "resolve" /\ closes = 0 /\ this_peer' = this_peer /\ freed' = freed
        /\ this_peer = NULL /\ freed = {}
    BY <1>4 DEF open_socket, SocketInv
  <2>2. CASE \E opened \in BOOLEAN : Return(NULL, opened)
    BY <2>1, <2>2, ReturnCloses DEF SocketInv
  <2>3. CASE sock' = "open" /\ stage' = "connect" /\ closes' = closes
    BY <2>1, <2>3 DEF SocketInv
  <2> QED BY <1>4, <2>2, <2>3 DEF open_socket
<1>5. CASE connect_fails
  <2>1. stage = "connect" /\ closes = 0 /\ this_peer' = this_peer /\ freed' = freed
        /\ freed = {} /\ Return(this_peer, TRUE)
    BY <1>5 DEF connect_fails, SocketInv
  <2> QED BY <2>1, ReturnCloses DEF SocketInv
<1>6. CASE connect_ends
  <2>1. stage = "connect" /\ closes = 0 /\ freed = {} /\ sock = "open"
    BY <1>6 DEF connect_ends, SocketInv
  <2>2. CASE UNCHANGED <<stage, sock, freed, closes>>
    BY <2>1, <2>2 DEF SocketInv
  <2>3. CASE Return(NULL, TRUE)
    BY <2>1, <2>3, ReturnCloses DEF SocketInv
  <2>4. CASE this_peer' = PeerAfterFailedInit(addresses) /\ Return(this_peer', TRUE)
    <3>1. Return(NULL, TRUE)
      BY <2>4 DEF PeerAfterFailedInit
    <3> QED BY <2>3, <3>1
  <2> QED BY <1>6, <2>2, <2>3, <2>4 DEF connect_ends
<1>7. CASE no_more_addresses
  <2>1. stage = "connect" /\ closes = 0 /\ this_peer' = this_peer /\ freed' = freed
        /\ freed = {} /\ Return(this_peer, TRUE)
    BY <1>7 DEF no_more_addresses, SocketInv
  <2> QED BY <2>1, ReturnCloses DEF SocketInv
<1>8. CASE pump_ends
  BY <1>8 DEF pump_ends, SocketInv
<1>9. CASE UNCHANGED startVars
  BY <1>9 DEF startVars, sockVars, SocketInv
<1>10. CASE on_connected \/ on_launch_executable_request \/ cmd_launcher \/ transmit \/ deliver
  <2>1. UNCHANGED startVars
    BY <1>10 DEF on_connected, on_launch_executable_request, cmd_launcher, transmit, deliver
  <2> QED BY <1>9, <2>1
<1>11. CASE UNCHANGED vars
  BY <1>9, <1>11 DEF vars
<1>12. CASE ControllerStep
  BY <1>12, <1>1, <1>2, <1>3, <1>4, <1>5, <1>6, <1>7, <1>8 DEF ControllerStep, connect_to_target
<1> QED BY <1>10, <1>11, <1>12 DEF Next

(* Whichever call of connect_to_target fails and whichever address was the  *)
(* last one tried, the socket is closed exactly once and not before the     *)
(* end, and main never pumps a peer that has been freed.                    *)
THEOREM SocketIsClosedOnce == Spec => []SocketClosedOnce
<1>1. Init => SocketInv
  BY DEF Init, ControllerStartInit, SocketInv
<1>2. SocketInv /\ [Next]_vars => SocketInv'
  BY SocketStep
<1>3. SocketInv => SocketClosedOnce
  BY DEF SocketInv, SocketClosedOnce
<1> QED BY <1>1, <1>2, <1>3, PTL DEF Spec
=============================================================================
