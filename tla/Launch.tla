------------------------------- MODULE Launch -------------------------------
(***************************************************************************)
(* Launching programs: several controllers, one after the other or at the  *)
(* same time (Controller), and the target with its programs (Target).      *)
(***************************************************************************)
EXTENDS Controller, Target

vars == <<links, ctlVars, targetVars>>

Init == LinksInit /\ ControllerInit /\ TargetInit

Listening == phase \notin {"boot", "exited"}

ControllerStep(n) == pump_peer_state_machine(n) /\ UNCHANGED targetVars

(* What other tasks of the Amiga leave to the daemon and the network. *)
daemonVars == <<backlog, c2t, t2c, cfd, tfd, listVars, turnVars, outq>>

ProgramStep(n) == cmd_launcher(n) /\ UNCHANGED <<daemonVars, ctlVars>>

ServeStep == serve /\ UNCHANGED ctlVars

(* Nothing is said about what follows undefined behaviour of the target. *)
Next ==
  /\ phase # "undefined"
  /\ \/ ServeStep
     \/ \E n \in Conns :
          \/ connect_to_target(n, Listening) /\ UNCHANGED targetVars
          \/ ControllerStep(n)
          \/ send_ping(n) /\ UNCHANGED targetVars
          \/ quit(n) /\ UNCHANGED targetVars
          \/ ProgramStep(n)
          \/ \E p \in Procs : file_request(n, p) /\ UNCHANGED <<daemonVars, ctlVars>>

Spec == Init /\ [][Next]_vars

(* The event loops and the launchers go on as long as one of them has       *)
(* something to do, and launched programs come to their end; nothing has to *)
(* come from outside.  As every behaviour is finite, this is no more than fairness of    *)
(* each of them, and no less.                                               *)
Obliged ==
  /\ phase # "undefined"
  /\ ServeStep \/ \E n \in Conns : ControllerStep(n) \/ ProgramStep(n)
  /\ UNCHANGED events

FairSpec == Spec /\ WF_vars(Obliged)

-----------------------------------------------------------------------------
(* Properties                                                               *)

(* Types; peer indices stay below the modulus.                              *)
TypeOK ==
  /\ LinksTypeOK
  /\ ctl \in [Conns -> CtlStates]
  /\ ping_on_wire \in [Conns -> BOOLEAN]
  /\ phase \in {"boot", "select", "signals", "accept", "update", "shutdown",
                "exited", "undefined"}
  /\ peers \in Conns \cup {NULL} /\ next \in [Conns -> Conns \cup {NULL}]
  /\ mem \in [Conns -> {"none", "live", "freed"}]
  /\ state \in [Conns -> PeerStates]
  /\ peer_index \in [Conns -> 0 .. IndexModulus - 1] /\ peer_count \in Nat
  /\ mounted \subseteq Conns
  /\ outq \in [Conns -> Seq(ToController)]
  /\ prog \in [Conns -> {"none", "starting", "running", "closing", "ended", "failed"}]
  /\ dev_port \in [Conns -> Seq(Procs)] /\ local \in [Conns -> SUBSET Procs]
  /\ pending \in [Conns -> SUBSET [seqno : Nat, proc : Procs]]
  /\ seqno \in [Conns -> Nat]
  /\ proc_port \in Seq(Conns) /\ proc_sig \in BOOLEAN /\ dev_sig \subseteq Conns

Live == {n \in Conns : mem[n] = "live"}

(* A wake-up on the process port takes one message, and a signal stands for *)
(* any number of them: there is always a message to take (the code does not *)
(* check), and none is left behind unless two programs ended between two    *)
(* calls of WaitSelect.                                                     *)
PortAccounting ==
  LET due == (IF proc_sig THEN 1 ELSE 0)
               + (IF phase = "signals" /\ wake.proc THEN 1 ELSE 0)
  IN  phase \notin {"exited", "undefined"} =>
        /\ Len(proc_port) >= due
        /\ ~coalesced => Len(proc_port) = due

(* The end of a program is reported to the controller that launched it as   *)
(* long as that one is connected, though only its index is remembered.      *)
ReportsGoHome ==
  \A m, n \in Conns :
    (\/ \E i \in DOMAIN outq[m] : outq[m][i] = Done(n)
     \/ \E i \in DOMAIN t2c[m] : t2c[m][i] = Done(n))
      => m = n \/ mem[n] = "freed"

(* Where the end of program n waits to be taken notice of: in the process   *)
(* port, in the output queue of peer m, or on its connection.               *)
InPort(n) == {i \in 1 .. Len(proc_port) : proc_port[i] = n}
InQueue(m, n) == {i \in 1 .. Len(outq[m]) : outq[m][i] = Done(n)}
OnTheWay(m, n) == {i \in 1 .. Len(t2c[m]) : t2c[m][i] = Done(n)}

ReportsOf(n) ==
  ({"port"} \X {0} \X InPort(n))
    \cup UNION {({"queue"} \X {m} \X InQueue(m, n)) \cup ({"way"} \X {m} \X OnTheWay(m, n))
                 : m \in Conns}

(* A program's end is reported at most once, and it does not get lost: from *)
(* the launcher's reply until its controller has ended, the news is in the  *)
(* process port, in the peer's queue or on the connection, whatever signals *)
(* and messages coincide, as long as the peer that launched it is connected.*)
EndReportedOnce ==
  phase \notin {"exited", "undefined"} =>
    \A n \in Conns :
      /\ \A a, b \in ReportsOf(n) : a = b
      /\ ReportsOf(n) # {} => prog[n] = "ended"
      /\ prog[n] = "ended" /\ mem[n] = "live" /\ state[n] = "CONNECTED" /\ Running(n)
           => ReportsOf(n) # {}

(* Between turns of the loop the volumes are those of the peers that exist, *)
(* all of which are on the list, and none is left when the daemon has ended.*)
DevicesFollowConnections ==
  /\ phase \in {"select", "exited"} => mounted = Live
  /\ phase = "select" => Live \subseteq Listed
  /\ phase = "exited" => mounted = {}

(* No two volumes have the same name, also when the indices wrap around     *)
(* while an old connection is still there.                                  *)
VolumeNamesDistinct ==
  \A m, n \in mounted : peer_index[m] = peer_index[n] => m = n

Broken == phase = "undefined" \/ coalesced

(* Nobody waits for ever: each controller ends once its program has, or     *)
(* could not be started, or its connection was refused or broke, and the    *)
(* loop gets round to every packet that its program needs for that, whoever *)
(* else connects, ends or fails.  Left out are launchers that cannot open   *)
(* dos.library, and programs whose ends share one signal.                   *)
Waiting(n) == Running(n) /\ prog[n] # "failed"

EveryControllerEnds == <>[](Broken \/ \A n \in Conns : ~Waiting(n))

(* The daemon maintains volumes for the lifetime of a connection (README):  *)
(* the loop never follows the list to a peer that it has removed.           *)
PeersMaintained == phase = "select" => \A n \in Listed : mem[n] = "live"
=============================================================================
