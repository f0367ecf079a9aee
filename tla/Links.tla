------------------------------- MODULE Links --------------------------------
(***************************************************************************)
(* The TCP connections between runs of the controller and the target's     *)
(* daemon, as both event loops see them (external).  Connection n belongs  *)
(* to the n-th controller that is started.  A direction is a queue of whole*)
(* messages, as TransportOut and TransportIn show; the end of one is seen  *)
(* when the other side has closed and everything before it has been read.  *)
(***************************************************************************)
EXTENDS Integers, Sequences, FiniteSets

CONSTANTS
  MaxConns,        \* bound: controllers started in one behaviour
  MaxEvents        \* bound: what comes from outside in one behaviour, see Event

ASSUME LinksAssumption == MaxConns \in Nat /\ MaxEvents \in Nat

VARIABLES
  backlog,         \* connections that wait for accept(), oldest first
  c2t, t2c,        \* messages under way to the target and to the controller
  cfd, tfd,        \* each side's socket: "none", "open" or "closed"
  events           \* how many of them there were

links == <<backlog, c2t, t2c, cfd, tfd, events>>

Conns == 1 .. MaxConns

(* The messages.  `of' is the sequence number that a file request has and   *)
(* that its answer repeats, and zero in messages that leave it unset; in a  *)
(* report that a program has ended it is the connection that launched it,   *)
(* which the code does not send.                                            *)
Numbered(type, seqno) == [type |-> type, of |-> seqno]
Msg(type) == Numbered(type, 0)
Done(n) == Numbered("EXECUTABLE_DONE_REQUEST", n)

(* Only the controller pings: the daemon on the Amiga has no clock.         *)
ToTarget ==
  [type : {"HANDSHAKE_REQUEST", "LAUNCH_EXECUTABLE_REQUEST", "PING_REQUEST",
           "FILE_ANSWER", "ERROR_ANSWER"}, of : Nat]
ToController ==
  [type : {"HANDSHAKE_REQUEST", "LAUNCH_EXECUTABLE_ANSWER", "PING_ANSWER",
           "FILE_REQUEST", "ERROR_ANSWER", "EXECUTABLE_DONE_REQUEST"}, of : Nat]

LinksInit ==
  /\ backlog = <<>>
  /\ c2t = [n \in Conns |-> <<>>] /\ t2c = [n \in Conns |-> <<>>]
  /\ cfd = [n \in Conns |-> "none"] /\ tfd = [n \in Conns |-> "none"]
  /\ events = 0

(* Something comes from outside: a controller is started, a process uses a  *)
(* volume, a controller finds it time for a ping, an allocation or a system *)
(* call fails, or a user interrupts one of the programs.                    *)
Event == events < MaxEvents /\ events' = events + 1

(* select() reports a socket as readable for data and for the end of them.  *)
TargetReadable(n) == c2t[n] # <<>> \/ cfd[n] = "closed"
ControllerReadable(n) == t2c[n] # <<>> \/ tfd[n] = "closed"

(* What the other side has closed takes nothing any more.                   *)
AfterSend(queue, n, fd, msgs) ==
  IF fd[n] = "closed" THEN queue ELSE [queue EXCEPT ![n] = @ \o msgs]

LinksTypeOK ==
  /\ backlog \in Seq(Conns)
  /\ c2t \in [Conns -> Seq(ToTarget)] /\ t2c \in [Conns -> Seq(ToController)]
  /\ cfd \in [Conns -> {"none", "open", "closed"}]
  /\ tfd \in [Conns -> {"none", "open", "closed"}]
  /\ events \in 0 .. MaxEvents
=============================================================================
