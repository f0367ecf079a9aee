------------------------------ MODULE Startup -------------------------------
(***************************************************************************)
(* From the words of a command line to the command that the target runs:   *)
(* ControllerStart, the message on its way (Wire), and the two places of   *)
(* src/target.c that handle its strings, async_spawn and cmd_launcher.     *)
(* A session that is under way sends messages of any other kind as well.   *)
(***************************************************************************)
EXTENDS ControllerStart, Wire

CONSTANTS
  CommandPathSize, \* the size of launch_msg_t.command_path (128)
  LaunchArgumentsSize,   \* the size of launch_msg_t.arguments (256)
  CommandLineSize, \* the size of cmd_launcher's buffer (512)
  PeerIndices,     \* indices of the peer on the target
  SessionMessages, \* messages a session sends first ...
  LaterMessages,   \* ... and behind them
  MaxMessages      \* bound: messages of a session

ASSUME StartupAssumption ==
  /\ {CommandPathSize, LaunchArgumentsSize, CommandLineSize} \subseteq Nat \ {0, 1}
  /\ PeerIndices \subseteq Nat /\ MaxMessages \in Nat

VARIABLES
  session,         \* the peers have started before the behaviour does
  launch_msg,      \* what async_spawn hands to the launcher, or NULL
  cmdline          \* the command line that is run, or NULL

targetVars == <<session, launch_msg, cmdline>>
vars == <<startVars, wireVars, targetVars>>

Init ==
  /\ ControllerStartInit /\ WireInit
  /\ session \in BOOLEAN
  /\ launch_msg = NULL /\ cmdline = NULL

-----------------------------------------------------------------------------
(* The request.  RL_MSG_INIT has cleared the header. *)
LaunchRequest ==
  [hdr_type |-> KindOf("launch_executable", "request"), hdr_flags |-> 0, hdr_length |-> 0,
   hdr_sequence_num |-> 0, path |-> executable, arguments |-> FormatArguments]

on_connected ==
  /\ stage = "pump" /\ link = "up" /\ sent = <<>> /\ refused = {}
  /\ enqueue_output_message(LaunchRequest)
  /\ UNCHANGED <<startVars, targetVars>>

(* "TBL2", for example. *)
DeviceName(index) ==
  rl_format_msg(32, <<BaseDeviceName, format_integer_signed(index), <<>>>>)

CommandPathRelative(index, cmd) ==
  rl_format_msg(CommandPathSize, <<<<>>, DeviceName(index), <<Colon>>, cmd, <<>>>>)
CommandPath(index, cmd) ==
  IF Contains(cmd, Colon)
    THEN rl_string_copy(CommandPathSize, cmd)
    ELSE rl_format_msg(CommandPathSize, <<<<>>, DeviceName(index), <<Colon>>, cmd, <<>>>>)

async_spawn(index, cmd, args) ==
  [index |-> index, command_path |-> CommandPath(index, cmd),
   arguments |-> rl_string_copy(LaunchArgumentsSize, args)]

(* The message is delivered; the launch is a part of that. *)
on_launch_executable_request ==
  /\ ~session /\ peer_deliver_incoming
  /\ IF undecoded' THEN UNCHANGED launch_msg
     ELSE \E index \in PeerIndices :
            launch_msg' = async_spawn(index, received'[1].path, received'[1].arguments)
  /\ UNCHANGED <<startVars, session, cmdline>>

cmd_launcher ==
  /\ launch_msg # NULL /\ cmdline = NULL
  /\ cmdline' = rl_format_msg(CommandLineSize,
                  IF launch_msg.arguments # <<>>
                    THEN <<<<>>, launch_msg.command_path, <<Space>>, launch_msg.arguments, <<>>>>
                    ELSE <<<<>>, launch_msg.command_path, <<>>>>)
  /\ UNCHANGED <<startVars, wireVars, session, launch_msg>>

-----------------------------------------------------------------------------
(* A session: messages of any kind, several of them in the buffer at a time.*)
transmit ==
  /\ session /\ Len(sent) < MaxMessages
  /\ \E msg \in IF sent = <<>> THEN SessionMessages ELSE LaterMessages :
       enqueue_output_message(msg)
  /\ UNCHANGED <<startVars, targetVars>>

deliver ==
  session /\ peer_deliver_incoming /\ UNCHANGED <<startVars, targetVars>>

ControllerStep ==
  /\ ~session
  /\ \/ \E word \in Words : parse_option(word) \/ parse_word(word)
     \/ parse_done \/ connect_to_target \/ pump_ends
  /\ UNCHANGED <<wireVars, targetVars>>

Next ==
  \/ ControllerStep
  \/ on_connected \/ on_launch_executable_request \/ cmd_launcher
  \/ transmit \/ deliver

Spec == Init /\ [][Next]_vars

-----------------------------------------------------------------------------
(* Properties                                                               *)

(* Types, and every byte that is sent is one. *)
TypeOK ==
  /\ ControllerStartTypeOK
  /\ \A i \in DOMAIN inbuf : inbuf[i] \in 0 .. Base - 1
  /\ launch_msg # NULL => Len(launch_msg.command_path) < CommandPathSize
                            /\ Len(launch_msg.arguments) < LaunchArgumentsSize
  /\ cmdline # NULL => Len(cmdline) < CommandLineSize

(* Words of a command line that follow the options. *)
Positional(words) ==
  LET first == CHOOSE i \in {2 * k + 1 : k \in 0 .. Len(words) \div 2} :
                 /\ words[i] \notin Options
                 /\ \A k \in 0 .. (i - 3) \div 2 : words[2 * k + 1] \in Options
  IN  SubSeq(words, first, Len(words))

Joined(words) ==
  LET text == FoldLeft(LAMBDA t, w : t \o <<Space>> \o w, <<>>, words)
  IN  IF words = <<>> THEN <<>> ELSE Tail(text)

(* The command that is run is the one that was typed: the second word after *)
(* the options, on the connection's own volume unless it names another one, *)
(* and all further words, also those that look like options, with a space   *)
(* between them.  Nothing is cut off but the end of a path or of an argument*)
(* string that is too long for command_path or for on_connected's buffer,   *)
(* although the strings go through five buffers on their way.               *)
RunsWhatWasTyped ==
  cmdline # NULL =>
    LET words == Positional(typed)
        args == Joined(Tail(Tail(words)))
        path == IF Contains(words[2], Colon) THEN words[2]
                ELSE BaseDeviceName \o <<Digit(launch_msg.index), Colon>> \o words[2]
    IN  cmdline = Cut(path, CommandPathSize - 1)
                    \o (IF args = <<>> THEN <<>>
                        ELSE <<Space>> \o Cut(args, ArgumentsSize - 2))

(* Whichever call fails, and whichever address was the last one tried, the  *)
(* socket is closed exactly once and not before the end, and the peer that  *)
(* main runs has not been freed.                                            *)
SocketClosedOnce ==
  /\ stage # "exited" => closes = 0 /\ this_peer \notin freed
  /\ stage = "exited" => closes = IF sock = "none" THEN 0 ELSE 1
  /\ stage = "pump" => sock = "open" /\ this_peer # NULL
=============================================================================
