-------------------------- MODULE ControllerStart ---------------------------
(***************************************************************************)
(* How the controller starts (src/controller.c): main's command line,      *)
(* connect_to_target, and the request that on_connected makes of the words *)
(* that were typed.  Runs of the controller after that are in Controller.  *)
(*                                                                         *)
(* The words of the command line are picked as main reads them.  There is  *)
(* one socket; what connect() and select() do with it is external.         *)
(*                                                                         *)
(* A definition whose name extends that of the next one is a faulty variant*)
(* that no action uses.                                                    *)
(***************************************************************************)
EXTENDS Text

CONSTANTS
  NULL,            \* a null pointer
  Options,         \* the words -fsroot, -port and -log
  Words,           \* words that are typed
  MaxWords,        \* bound: words on a command line
  MaxArguments,    \* the size of rl_controller_t.arguments (16)
  ArgumentsSize,   \* the size of on_connected's buffer (256)
  MaxAddresses     \* bound: addresses of a host

ASSUME ControllerStartAssumption ==
  /\ Options \subseteq Words /\ NULL \notin Words
  /\ {MaxWords, MaxArguments, MaxAddresses} \subseteq Nat
  /\ ArgumentsSize \in Nat /\ ArgumentsSize >= 2

VARIABLES
  stage,           \* "parse", "resolve", "connect", "pump" or "exited"
  typed,           \* history: the words read so far
  peer_hostname, executable, arguments,
  addresses,       \* addresses not tried yet
  sock,            \* "none", "open" or "closed"
  mode,            \* "blocking" or "nonblocking"
  link,            \* the connection: "none", "up" or "refused"
  this_peer,       \* the peer that connect_to_target will return
  freed,           \* history: peers that were freed
  closes           \* history: calls of CloseSocket

lineVars == <<typed, peer_hostname, executable, arguments>>
sockVars == <<addresses, sock, mode, link, this_peer, freed, closes>>
startVars == <<stage, lineVars, sockVars>>

ControllerStartInit ==
  /\ stage = "parse"
  /\ typed = <<>> /\ peer_hostname = NULL /\ executable = NULL /\ arguments = <<>>
  /\ addresses = 0 /\ sock = "none" /\ mode = "blocking" /\ link = "none"
  /\ this_peer = NULL /\ freed = {} /\ closes = 0

-----------------------------------------------------------------------------
(* The command line.                                                        *)

(* Nothing has been opened: main returns. *)
Usage == stage' = "exited"

(* An option is one only before the host, and takes the next word. *)
IsOption(word) == peer_hostname = NULL /\ word \in Options

parse_option(word) ==
  /\ stage = "parse" /\ IsOption(word)
  /\ \/ /\ Len(typed) + 2 <= MaxWords
        /\ \E value \in Words : typed' = typed \o <<word, value>>
        /\ UNCHANGED stage
     \/ /\ Len(typed) < MaxWords            \* the last word: its value is ""
        /\ typed' = Append(typed, word)
        /\ Usage
  /\ UNCHANGED <<peer_hostname, executable, arguments, sockVars>>

parse_word(word) ==
  /\ stage = "parse" /\ ~IsOption(word) /\ Len(typed) < MaxWords
  /\ typed' = Append(typed, word)
  /\ CASE peer_hostname = NULL ->
            peer_hostname' = word /\ UNCHANGED <<stage, executable, arguments>>
       [] peer_hostname # NULL /\ executable = NULL ->
            executable' = word /\ UNCHANGED <<stage, peer_hostname, arguments>>
       [] executable # NULL /\ Len(arguments) < MaxArguments ->
            arguments' = Append(arguments, word)
              /\ UNCHANGED <<stage, peer_hostname, executable>>
       [] OTHER -> Usage /\ UNCHANGED <<peer_hostname, executable, arguments>>
  /\ UNCHANGED sockVars

parse_done ==
  /\ stage = "parse"
  /\ IF peer_hostname = NULL \/ executable = NULL THEN Usage ELSE stage' = "resolve"
  /\ UNCHANGED <<lineVars, sockVars>>

-----------------------------------------------------------------------------
(* connect_to_target.                                                       *)

(* Its cleanup code, which is where it returns: without a peer main has     *)
(* nothing to do any more.                                                  *)
CloseOwnAlways(peer) == TRUE
CloseOwn(peer) == peer = NULL

Return(peer, opened) ==
  LET close == CloseOwn(peer) /\ opened
  IN  /\ stage' = IF peer = NULL THEN "exited" ELSE "pump"
      /\ sock' = IF close THEN "closed" ELSE IF opened THEN "open" ELSE "none"
      /\ closes' = IF close THEN closes + 1 ELSE closes

(* getaddrinfo, socket and fcntl; any of them may fail. *)
open_socket ==
  /\ stage = "resolve"
  /\ \/ /\ \E opened \in BOOLEAN : Return(NULL, opened)
        /\ UNCHANGED <<addresses, mode>>
     \/ /\ addresses' \in 1 .. MaxAddresses
        /\ sock' = "open" /\ mode' = "nonblocking" /\ stage' = "connect"
        /\ UNCHANGED closes
  /\ UNCHANGED <<lineVars, link, this_peer, freed>>

(* connect() fails at once, it takes longer than ten seconds, or the socket *)
(* cannot be made blocking again.  This is also how the loop ends when an   *)
(* address has been connected to and there is another one.                  *)
connect_fails ==
  /\ stage = "connect" /\ addresses > 0
  /\ Return(this_peer, TRUE)
  /\ link' \in (IF link = "up" THEN {"up"} ELSE {link, "refused"})
  /\ UNCHANGED <<lineVars, addresses, mode, this_peer, freed>>

PeerAfterFailedInitKept(peer) == peer
PeerAfterFailedInit(peer) == NULL

(* connect() succeeds, or select() reports that it has come to an end: which*)
(* one, nobody asks.  Each address gets a peer of its own, if there is      *)
(* memory for it; the one before is forgotten.                              *)
connect_ends ==
  /\ stage = "connect" /\ addresses > 0 /\ link # "up"
  /\ \/ link' = "up" /\ UNCHANGED mode
     \/ /\ mode = "nonblocking"
        /\ link' \in {"up", "refused"} /\ mode' = "blocking"
  /\ \/ /\ this_peer' = addresses
        /\ addresses' = addresses - 1
        /\ UNCHANGED <<stage, sock, freed, closes>>
     \/ /\ this_peer' = NULL               \* no memory for the peer
        /\ Return(NULL, TRUE)
        /\ UNCHANGED <<addresses, freed>>
     \/ /\ this_peer' = PeerAfterFailedInit(addresses)
        /\ freed' = freed \cup {addresses}
        /\ Return(this_peer', TRUE)
        /\ UNCHANGED addresses
  /\ UNCHANGED lineVars

no_more_addresses ==
  /\ stage = "connect" /\ addresses = 0
  /\ Return(this_peer, TRUE)
  /\ UNCHANGED <<lineVars, addresses, mode, link, this_peer, freed>>

connect_to_target == open_socket \/ connect_fails \/ connect_ends \/ no_more_addresses

(* The loop of pump_peer_state_machine comes to its end, for one of the     *)
(* reasons that Controller has, and main destroys the peer.                 *)
pump_ends ==
  /\ stage = "pump"
  /\ stage' = "exited"
  /\ sock' = "closed" /\ closes' = closes + 1
  /\ freed' = freed \cup {this_peer}
  /\ UNCHANGED <<lineVars, addresses, mode, link, this_peer>>

-----------------------------------------------------------------------------
(* The argument string that on_connected makes.  `text' is what is in front *)
(* of p; the last place of the buffer is not given away.                    *)

AppendArgumentFresh(text, i) ==
  text \o rl_format_msg(ArgumentsSize - 1,
                        IF i > 1 THEN <<<<Space>>, arguments[i], <<>>>>
                                 ELSE <<<<>>, arguments[i], <<>>>>)
AppendArgument(text, i) ==
  LET left == ArgumentsSize - 1 - Len(text)
  IN  IF left <= 0 THEN text
      ELSE text \o rl_format_msg(left, IF i > 1 THEN <<<<Space>>, arguments[i], <<>>>>
                                                ELSE <<<<>>, arguments[i], <<>>>>)

FormatArguments == FoldLeftDomain(AppendArgument, <<>>, arguments)

ControllerStartTypeOK ==
  /\ stage \in {"parse", "resolve", "connect", "pump", "exited"}
  /\ typed \in Seq(Words) /\ arguments \in Seq(Words)
  /\ {peer_hostname, executable} \subseteq Words \cup {NULL}
  /\ addresses \in 0 .. MaxAddresses
  /\ sock \in {"none", "open", "closed"} /\ mode \in {"blocking", "nonblocking"}
  /\ link \in {"none", "up", "refused"}
  /\ this_peer \in 1 .. MaxAddresses \cup {NULL} /\ freed \subseteq 1 .. MaxAddresses
  /\ closes \in Nat
=============================================================================
