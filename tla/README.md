# rlaunch in TLA+

rlaunch starts a program on an Amiga (the *target*, a daemon) from another
machine (the *controller*, started for one program) and lets the program use the
controller's files through a virtual volume.  This directory specifies its
protocol stack, its file system and both programs in TLA+, checks the
specifications with TLC and proves most of the safety properties with TLAPS, for
every value of the constants.  Paths below are relative to the repository;
`PROJECT.json` maps each definition to source lines.

## The system

| part | state | operations | talks to |
|---|---|---|---|
| transport, sending half (`transport.c`, `enqueue_output_message` in `peer.c`) | pool of free buffers, output queue, per-buffer offsets | add a message, write what the socket takes, destroy | the socket; called by the peer |
| transport, receiving half (`transport.c`) | input buffer with two cursors, error and disconnect flags | recv, update (cut into frames, deliver, compact) | the socket; calls the peer's peek/deliver callbacks |
| peer (`peer.c`) | state, last activity, ping flag | init, transmit, `peer_update`, the table `state_actions` | the transport below; `on_connected` and `on_message` above |
| controller (`controller.c`) | arguments, socket, launch state, result | command line, connect, event loop, callbacks | one peer; the file server |
| file server (`file_server.c`) | table of handles, `DIR*` of each, descriptors | open, close, read, write, find next | answers requests of the peer's messages |
| target (`target.c`) | list of peers, their volumes, launched programs | event loop, accept, launch, callbacks, signals | peers; one file system handler per peer; launcher tasks |
| file system handler (`amigafs.c`) | locks and handles, pending operations, sequence number | one action per AmigaDOS packet, one completion per answer | AmigaDOS programs; the peer |
| codecs (`protocol.c`, `mkmsg.py`, `rlnet.msg`) | none | encode and decode messages | the peer |
| utilities (`util.c`) | log levels | bounded formatting and copying, clock | everyone |

A program's packet becomes a pending operation and a request; the request goes
through the peer and the transport to the controller, whose file server answers;
the answer finds the pending operation by its sequence number, completes it and
replies to the packet.  Both processes are single-threaded event loops around
`select()` with a timeout of one second.  On the target the launched programs and
their launchers are tasks of their own, which reach the loop through message
ports and signal bits.

What is hard: writes and reads that stop at any byte; two event loops whose
pings, timeouts and closes cross; several programs' packets pending at once,
with operations that take several round trips; server handles that are reused
while messages about them are under way; a list of peers that changes while the
loop walks it; signals that stand for any number of messages; peer indices that
wrap around; strings that pass through five buffers of different sizes; and
failures of an allocation, an I/O call or the connection half way through an
operation.

What makes each part correct:

* sending half: the bytes of the accepted messages in order, whole and once; no
  buffer leaked, in two lists or used after free; pool within its limit;
* receiving half: exactly the sender's frames, none lost to a close, none stuck;
* peer: handshake first, agreement on being connected, no false timeout, a dead
  peer noticed, both ends go down together;
* session: each packet replied to exactly once, answers matched with requests,
  every server handle owned by one lock and open on the locked object, reads,
  listings and writes right whatever the buffers held;
* target loop: volumes exist exactly while their connection does, under distinct
  names; as long as the connection that launched a program is there, the program's
  end is reported to it, once, and to no other; nobody waits for ever;
* controller: what runs is what was typed, and the socket is closed once whatever
  failed before;
* codecs: decoding inverts encoding, and only what cannot be encoded is refused.

## Modules

| module | models | checked by |
|---|---|---|
| `ByteStream` | abstract: a queue of messages written byte by byte | refined by TransportOut |
| `TransportOut` | sending half | `MCTransportOut`, `TransportOutProofs` |
| `TransportIn` | receiving half | `MCTransportIn`, `TransportInProofs` |
| `Peer` | both ends of one connection, their event loops and callbacks | `MCPeer`, `PeerProofs` |
| `FileProtocol` | messages, channels and the served tree | |
| `FileServer` | controller's file server (POSIX build) | through FileSession |
| `AmigaFs` | target's file system handler | through FileSession |
| `FileSession` | the two composed over an ordered connection | `MCFileSession`, `FileSessionProofs`, `FileHandleProofs`, `FileDataProofs` |
| `Links` | the connections between several controllers and one target | |
| `Controller` | each controller's event loop and callbacks | through Launch |
| `Target` | target's event loop, list of peers, volumes, launchers, programs | through Launch |
| `Launch` | controllers, target and programs composed | `MCLaunch`, `LaunchProofs` |
| `Text` | bounded formatting and copying of strings | |
| `Codec` | the messages, their encoder and decoder | |
| `Wire` | enqueueing and delivering encoded messages | |
| `ControllerStart` | controller's command line and connect_to_target | |
| `Startup` | from the typed command to the command the target runs, with all strings and bytes | `MCStartup`, `StartupProofs` |

Each layer uses what the one below was shown to give.  `Peer` has queues of
whole messages because `TransportOut` and `TransportIn` show that bytes come out
as the frames that went in; `FileSession` has a connection that is up, failed or
gone because `Peer` is about how it gets there.  `Links`, likewise, has queues of
whole messages.  `Launch` leaves out when a ping is due, which is in `Peer`, and
what files contain, which is in `FileSession`; pings and file requests themselves
are messages of it.  `Startup` is about the contents: it has one connection and
one order of events, and real bytes.

**TransportOut.**  The heap is explicit: `pool` holds `next` pointers, the set of
live buffers and the free list, and the operations are the C functions'
pointer assignments.  A buffer's bytes are the number of the message in it, and
`wire` records for each `send()` the slice handed to the socket.  The loop in
`rl_transport_on_output_possible` and the two in `rl_transport_destroy` take a
step per iteration, because the socket decides where they stop.  What a failed
allocation or a failed encoding does is part of the action.

**TransportIn.**  A byte is its position in the stream, so that the buffer's
contents say which bytes they are.  The sender's frames may have a bad length
field (zero, shorter than the header, longer than the buffer) or fail to decode.
`recv_some(n)` is one `recv()`; the loop of `rl_transport_update` takes a step
per frame.  A length field of zero makes the code wait for ever for more
(`msg_size <= 0` leaves the loop without an error): the properties exempt that
state, `Wedged`, and the encoder never produces it.

**Peer.**  The handlers of `state_actions` are functions from the peer's record
to its new value.  `peer_update` has three parts, so that the other end may act
in between: the reads and writes, one delivery per frame, and the rest.  Time is
`Tick`; a record's `age` is `rl_time() - last_activity`, cut off where no
comparison can tell larger values apart.  `HasClock` are the ends whose `rl_time`
advances: in the Amiga build it returns 0 (`util.c:558`), so that a target's age
stays zero and it neither pings nor times out.  The controller's main loop ends
when its peer asks to be removed (`pc = "gone"`), the target's destroys the peer.

**AmigaFs, FileServer, FileSession.**  A program waits for each packet's reply, so
a packet is named by its program.  A lock and its handle are one record; a file
handle is a lock with `fh` set.  Packet types that the handler answers alike from
its own knowledge are grouped (`QUERY`, `REFUSED`).  Paths are sequences of
names, a byte of a file is its file and offset, and `Chunk` stands for the 4096
bytes of a read or write message.  The errors
are the explicit sets `NetErrors` (`rl_proto_neterror_t`), `OpenErrors` (what
`translate_posix_errno` makes of a failing `open()`) and `DosErrors`, with
`translate_error_code` between them.  Two deviations of the code from what one
expects are kept: `action_locate_object` unlinks an uninitialised pointer when a
root lock cannot be allocated (modelled as a crash of the target), and
`close_handle_request` never closes a descriptor.  When the connection has
failed, messages under way are considered lost.

**Links, Controller, Target, Launch.**  A connection is named by the controller it
belongs to, and so are the target's `peer_t`, volume and socket for it.  A message
is its type and the sequence number by which an answer finds its operation.
`peers` and `next` are the pointers of the list, and the update loop of `serve`
goes from peer to peer with its own `ci` and `loop_next` as in the code.  A turn
of the loop has the code's four phases: `WaitSelect`, the signals, `accept_peer`,
the updates; an update takes a step per message (`deliver`), because any number of
them may have arrived, and one for the rest (`update_finish`).  `accept_peer` has
one disjunct for each way to fail: `accept()` itself, after which the connection
still waits; the checks and allocations before the volume; the volume.
Programs (`prog`) run beside the loop, and other processes (`Procs`) use their
volumes too: they send packets to the device port, of which those that need the
controller (`dev_port`) become numbered pending operations and requests and the
others (`local`) are answered at once; they wait, and end.  A launcher sends a
message to `proc_port` and sets a signal bit, which stands for one message or
several.  The controller answers, and pings when it has heard nothing.  What comes
from outside is counted (`Event`): controllers that are started, packets that need
the controller, pings, failures of `accept()`, of allocations, of mounting, of
creating a process or of opening `dos.library`, and the user's break at either
side.  When the loop would follow a pointer to a freed `peer_t`, a process sends a
packet to a volume whose device port was deleted under its locks
(`rl_amigafs_destroy`), or a launcher replies to the process port after the daemon
has deleted it, the phase becomes `"undefined"`, and nothing is said from there on.

**Text, Codec, Wire, ControllerStart, Startup.**  Strings are sequences of
character numbers and messages are encoded to sequences of bytes.  `Codec`'s
`messages` is the schema of `rlnet.msg` as `mkmsg.py` reads it; the field coders
and the generated functions' order, length checks and early returns are operators
over it.  `Base` is the number of values of a byte: the real 256 makes the
strings that fill a length byte too long to enumerate, and 32 keeps every
arithmetic relation.  `ControllerStart` reads a command line word by word, as
`main` reads `argv`, appends to the argument string, and walks the addresses of
`connect_to_target` with the outcome of each call chosen freely.  `Startup` then
follows the request: the launch message is filled in, encoded, decoded, copied,
and formatted into the command line the launcher runs.  The same run also sends
messages of all kinds through `Wire`.

Definitions whose name extends that of the next one (`SendOffsetZero`,
`Touch_forgotten`) are faulty variants of it.  No action uses them; each was
substituted to confirm that a property notices the fault.

## Runs

| run | configuration | properties | shows |
|---|---|---|---|
| `transport_out` | 4 buffers, pool limit 2, 4 messages of 1 or 2 bytes | `TypeOK`, `ListsWellFormed`, `NoLeakNoDangling`, `PoolBounded`, `StreamSpec` | memory safety of both lists, the pool's limit, refinement of ByteStream |
| `transport_in` | header 2, buffer 5, frames of 2, 3, 5 and bad ones of 0, 1, 6, at most 3 | `TypeOK`, `DeliveredExactly`, `RecvHasRoom`, `CloseLosesNothing`, `EveryFrameDelivered` | framing is independent of how recv() cuts the stream |
| `peer_safety` | clocks at both ends, arbitrary delays, one file request, ping timeout 1 | `ConnectedAgreement`, `HandshakeComesFirst`, `PingAccounting` | the protocol's order and its ping counter survive every interleaving |
| `peer_liveness` | clock at the controller only, prompt loops, either end may vanish, allocations may fail, ping timeout 2 | `TypeOK`, `NoFalseTimeout`, `DeadPeerDetected`, `BothGoDown`, `ControllerTerminates`, `HandshakeCompletes` | the controller's timeouts hit dead targets and only those; both ends go down together; the controller ends after its program |
| `session_handles` | 2 programs, 2 server slots, 6 packets | `AnswersMatch`, `SlotOwnership`, `LockNamesItsObject`, `ListingInOrder` | no handle leaks, is shared or changes its object while slots are reused |
| `session_all` | 2 programs, every packet type, every failure, 3 packets | `TypeOK`, `OnePendingPerPacket`, `WriteComplete` | one reply per packet on every error path; whole writes |
| `session_fair` | 2 programs, file of 5 bytes, chunk 2, 4 packets, failing launch | `ReadCorrect`, `EveryPacketAnswered` | reads with buffer, seeks, several round trips and end of file are right; no program waits for ever on a working connection |
| `launch` | up to 3 controllers, indices modulo 2, 2 processes per volume, 4 events | `TypeOK`, `PortAccounting`, `ReportsGoHome`, `EndReportedOnce`, `DevicesFollowConnections`, `VolumeNamesDistinct`, `EveryControllerEnds` | ports, signals, indices and volumes stay consistent while controllers come, go, ping and fail; no end of a program is lost at the port or reported twice; each controller ends |
| `startup` | up to 5 words, 2 addresses, 2 messages with extreme values and sizes | `TypeOK`, `RunsWhatWasTyped`, `SocketClosedOnce`, `MessagesArriveAsSent`, `RefusesOnlyTheUnencodable` | the target runs what was typed; no outcome of connecting leaks or closes a socket twice; codecs are inverse to each other |
| `session_dup_lock` | DupLock, UnLock, 6 packets | `LockNamesItsObject` | **violated**, see below |
| `launch_list` | 2 controllers, nothing else from outside | `PeersMaintained` | **violated** |
| `peer_no_clock` | clock at the controller only, which may vanish | `DeviceTornDown` | **violated** |

Clocks.  The target is built for the Amiga, where its clock stands still, and,
without volumes, for POSIX and Win32, where it does not.  `peer_liveness` and
`peer_no_clock` are about the first: all that they show rests on the controller's
clock alone.  `peer_safety` is about both: it gives both ends a clock, because only
then can their pings cross, and its properties say nothing that a clock would
make come true.  The theorems of `PeerProofs` hold for every set of clocks.

Bounds.  Four buffers against a limit of two are the fewest with which the pool
overflows, empties and refills while the queue has two elements.  A buffer of
five bytes holds two frames and a part of a third, or one that fills it.  The
ping timeout must exceed the time of a round trip between loops that come round
once a tick, which takes two: with 1 live ends do time each other out, with 2
(or the code's 30) they do not.  Two slots for two programs are exceeded at once,
so slots are reused; six packets are two open-use-close cycles.  Three
connections with indices modulo two make the index wrap around while the first
connection may still be there, and give the list a first, a middle and a last
element.  Four events are three controllers and one packet, ping, failure or break
anywhere; or two controllers and two of these, two processes' packets on one volume
or a ping that crosses a file request among them; or one controller and three.  In
`session_fair` four packets are an open and three reads, seeks or writes, or two
programs with two each; `ReadCorrect` is also proved for any number.  In
`startup` the texts' buffers have an eighth of their real sizes, like the byte: the
order of all their limits is the same, and the words include ones just within and
beyond each.  The output buffers have 100 bytes, not an eighth of 8192: enough
for three strings of the greatest length, and few enough that for every kind with a
field of variable length there are messages that fill the buffer exactly and ones of
one byte more.  Five words are an option with its value, the host,
the program and one argument, or the host, the program and three arguments, one
more than fit (`MaxArguments`).  Two programs are
interchangeable and the symmetry is used where only safety is checked.  Deadlock
is not checked where a run ends by its bounds or a transport may be idle for ever.

Fairness.  `TransportIn`: the loop comes back to `recv()` while the socket is
readable (strong, since an update without input may intervene) and finishes
`rl_transport_update`.  `Peer`: each loop keeps calling `peer_update`, because
`select()` has a timeout of one second (`controller.c`, `target.c`), and time
passes while an end is alive; an end that has vanished is not fair.
`FileSession`: both loops keep handling messages.  `Launch`: `Obliged` is a step
of an event loop, of a launcher or of a program that comes to its end, without a
failure.  What comes from outside is bounded, so that every behaviour is
finite, and weak fairness of the disjunction is the same as of each part: the
behaviour may not stop while anyone can go on.  Nothing is assumed about
programs sending packets, about pings, about failures, or about messages in `Peer`
beyond what prompt loops do.  One assumption is about other machines: a controller
that has connected sends its handshake or closes the connection.  The daemon
depends on it, as it reads from the socket of a new peer at once and that socket is
blocking (`target.c:491`): a peer that connects and sends nothing holds up the whole
daemon, and with it all other controllers, until it closes.

What the properties exempt.  `EveryControllerEnds` leaves out launchers that cannot
open `dos.library`, failed launches whose error answer was taken for the answer to a
file operation, programs whose ends shared one signal (`coalesced`) and what follows
undefined behaviour.  `PortAccounting` exempts the same coincidence from its
equality.  `EndReportedOnce` does not: such a report is late, not lost.
`ReportsGoHome` exempts programs whose own peer is gone.  By then its index
may belong to another controller, which is told of the end of a program that it has
not launched, and ends too early: that is what the code does (`target.c:189`).
`HandshakeCompletes` exempts a target without a clock that could not enqueue its
handshake (`HandshakeDropped`).

## Disagreements between code and comments

Shown by a run:

* `session_dup_lock`: `action_copy_dir` copies the server's handle number
  (`amigafs.c:1052`); freeing either lock closes the slot under the other one.
* `launch_list`: when a peer that is not the first of the list ends, `prev` is that
  peer itself (`target.c:495`), so the freed peer stays linked and the next turn of
  the loop reads its volume and socket.  README line 37 says that devices are
  maintained "for the lifetime of controller connection".
* `peer_no_clock`: the Amiga build's `rl_time` returns 0 (`util.c:558`), so that the
  target neither pings nor times out.  A controller that vanishes silently keeps its
  peer and its volume for ever, against README lines 54-55: "When the connection is
  broken or the target program is interrupted, the device is torn down."

Visible in the models, without a run of their own:
* `open_fds` (FileServer): the POSIX branch of `close_handle_request` calls `close()`
  only for -1 (`file_server.c:363`), so descriptors accumulate beyond the "Max number
  of simultaneous files open" of `controller.h:15`.
* `rl_amigafs_process_network_message` (AmigaFs): an answer with no pending
  operation is not thrown away as `amigafs.c:1726` says; it ends the connection.  It happens when a launch fails
  while no file operation is pending, as the file server answers the error report.
* `SameVersion` (Peer): `peer.c:220` compares the major version twice and the minor
  one never, against "Require exactly the same version".
* `threshold` (Peer): the controller waits longer before it pings, not the target
  as `peer.c:299` says.
* `on_update_connected` (Peer): `WAIT_HANDSHAKE` has no timeout, against
  `peer.h:21` ("handshake not received or timeout"); a peer that never gets a
  handshake stays for ever.
* `on_transmit_handshake` (Peer): a target whose handshake cannot be enqueued becomes
  CONNECTED all the same, as the error state is overwritten (`peer.c:199`, `223`).
  With a clock, its first ping would meet a controller that waits for a
  handshake, and end the connection at both ends.  The Amiga's target has none,
  and the controller waits for ever (`HandshakeDropped`).
* `action_parent` (AmigaFs): the parent of a nested object is a lock with the root's
  handle number (`amigafs.c:1123`): listing it lists the root.
* `FindinputPath` (AmigaFs): Open ignores the directory lock (`amigafs.c:510`).
* `network_error` (AmigaFs): a failed read returns 0, which `amigafs.c:1148` defines
  as end of file, not -1.
* `write_file_request` (FileServer): a write to an ordinary file is acknowledged and
  dropped, and the program is told that all bytes were written.
* `coalesced` (Target): one process message is taken per wake-up (`target.c:435`).
  After two programs ended under one signal the port stays one message behind, and
  the last controller waits until another program ends.
* `FindPeer` (Target): a program's end is reported to whoever has the index of the
  peer that launched it (`target.c:442`).  When that peer is gone and its index in use
  again, the wrong controller ends.
* `ProgramAfter` (Target): when a launch fails while the first file operation of the
  volume is pending, the controller's answer to the error report has that operation's
  number, completes it with an error and leaves the connection up: nobody tells the
  controller, which waits for ever.
* `launcher_starts` (Target): a launcher that cannot open `dos.library` returns without a
  reply (`target.c:113`); its controller waits for ever.
* `Unmounted` (Target): volumes go although programs have locks on them, because
  `dl_Lock`, which `amigafs.c:231` tests, is never set ("no volume, or locked; can't
  unmount").  Packets to their deleted device port go to freed memory.
* `connect_to_target` (ControllerStart): the loop over the addresses goes on after
  one that connected at once, which leaks the first `peer_t` and leaves the
  socket non-blocking; a refused asynchronous connect counts as connected until the
  first read.
* `controller.c:332`: `-log c` switches the console channel off, where
  the usage text says that levels are specified.
* `peer_transmit_message` always returns 0, so the `CONTROLLER_ERROR` branch of
  `on_connected` is dead: a request that cannot be encoded (a path of more than 255
  bytes) or a connection that breaks ends the controller with status 0.
* `rl_decode_array` (Codec): the length is compared with the size that still contains
  its own four bytes; a frame that ends up to four bytes before the end of the array passes the
  check.  The encoder never makes one.

## Proofs

The theorems hold for every value of the constants that satisfies the named
assumptions of the modules (`TransportOut`: NULL is not a buffer, sizes are
positive; `FsAssumption`: a finite set of programs; and so on).  A theorem that
needs more says so in an ASSUME of its own, listed here.

| module | theorem | property | further hypothesis |
|---|---|---|---|
| `TransportOutProofs` | `TypeCorrect`, `ListsAlwaysWellFormed`, `MemorySafe`, `PoolAlwaysBounded` | the invariants of `transport_out` | |
| | `ImplementsByteStream` | `StreamSpec` (refinement) | |
| `TransportInProofs` | `TypeCorrect`, `FramesDeliveredExactly`, `RecvAlwaysHasRoom`, `CloseNeverOvertakes` | the invariants of `transport_in` | |
| `PeerProofs` | `TypeCorrect`, `TargetConnectsFirst`, `OnePingAtATime` | `TypeOK`, `ConnectedAgreement`, `PingAccounting` | |
| | `NothingOvertakesTheHandshake` | `HandshakeComesFirst` | no allocation fails |
| | `LiveEndsAreNotTimedOut` | `NoFalseTimeout` | prompt loops, a timeout of two ticks or more |
| `FileSessionProofs` | `TypeCorrect`, `OneReplyPerPacket` | `TypeOK`, `OnePendingPerPacket` | |
| | `AnswersFindTheirOperation` | `AnswersMatch` | no launch fails |
| `FileHandleProofs` | `HandlesHaveOneOwner` | `SlotOwnership` | no DupLock, no allocation fails |
| | `LocksNameTheirObject` | `LockNamesItsObject` | no DupLock |
| `FileDataProofs` | `WritesAreComplete` | `WriteComplete` | |
| | `ReadsReturnTheFilesBytes` | `ReadCorrect` | no DupLock |
| | `ListingsAreInOrder` | `ListingInOrder` | no DupLock, no I/O error |
| `LaunchProofs` | `TypeCorrect`, `WakeUpsFindTheirMessage`, `VolumeNamesAreDistinct`, `VolumesFollowConnections`, `ReportsReachTheirController`, `EndsAreReportedOnce` | the invariants of `launch` | |
| `StartupProofs` | `SocketIsClosedOnce` | `SocketClosedOnce` | |

Each hypothesis excludes a behaviour in which the code does not have the
property: a target that cannot enqueue its handshake becomes CONNECTED all the
same; the error report of a failed launch is answered by the file server although
no operation waits for it; DupLock copies a handle number (`session_dup_lock`); and
`complete_locate_object` forgets the handle of a lock that it cannot allocate.
The last one only leaks: `LocksNameTheirObject` does not need it.  An I/O error
while listing leaves the server's `DIR*` where it fell, one entry further or
closed, and the handler does not learn which: the listing goes on with an entry
left out or from the start.  When a turn may move only a
part of what there is to read or write (`Prompt = FALSE`), an answer may take any number
of seconds.  The timeout is 30 in the code; with 1 the age at which an answer
is read after two healthy turns, threshold + 2, is already more than twice the
threshold.  TLC finds a counterexample to each of the theorems without its
hypothesis.

None of the invariants is inductive as it stands.  The strengthenings, each of them
checked by TLC on the runs' instances before it was proved:

**TransportOut.**  To know that unlinking the head leaves a proper list one must
know that the rest is one, that it is disjoint from the other list, and that its
length is the counter.  `ListInv` says so with the auxiliary sequences `queued`
and `pool.free` that the model keeps beside the pointers: following `next` from
either head visits exactly its sequence, neither has a repetition, they are
disjoint and together cover the live buffers, the tail pointer is the last element
and `num_free_buffers` the length; while `rl_transport_destroy` runs, it says what
is left of them.  Lemmas about pushing, popping and appending (`PushFront` to
`LinkedAppend`) are about sequences and pointers alone; `AllocBuffer` and
`FreeBuffer` apply them to the pool; there is one preservation lemma per action.
The refinement needs a second invariant, `MsgInv`: the queued buffers contain
consecutive messages up to the last one accepted, all but the first untouched,
and the wire ends where the first one's offset begins.

**TransportIn.**  `StreamInv`: the frames lie end to end on the stream
(`FramesOnStream`), the used part of the buffer is the part of the stream between
the last delivery and the last byte received (`BufferOnStream`), what has been
delivered are the first frames, each of them decodable, and an update that has
returned has left no whole frame (`NothingLeft`).

**Peer.**  What an end has sent and the other has not handled is one sequence,
`Stream`: the other's input buffer, the network and its own output queue.  A first
set of lemmas says what each part of `peer_update` does to the two streams, however
many messages a read or write moves.  Then `AgreeInv`: a target that has never
been connected has sent nothing, so that the controller cannot have got a
handshake.  `FirstInv`: the handshake is the first message of the stream to an end
that waits for it, and the only one of its kind.  `PingInv`: `PingAccounting`, said
of the streams.

`NoFalseTimeout` is about time, and `TimeInv` bounds the age of each end by where
its ping is.  The auxiliary set `fresh` says which loops have had their turn since
the last tick; an idle loop has handled all that it read and written all that it
had (`LocalOk`).  `AgeOk`: without a ping on the wire an end is at most one tick past
its limit, because its next turn sends one; two ticks past it, the ping is with the
other end or the answer is coming (`Asked`, `Coming`); three ticks past it, the
answer can be read in the turn that is due (`ComingNow`).  The read sets the age to
zero before the comparison is made.  An end that waits for the handshake has no
ping to go by: `WaitOk` says the same of the handshake and its answer (`Awaits`,
`Nears`), also for the controller, whose target may have become CONNECTED without
one having been sent.  A closing or crashed transport counts as something coming:
reading it ends the connection otherwise than by a timeout.

**FileSession.**  `SessionInv` has five parts: the types; `LockInv`, locks on the
device share the root's handle; `ArgInv`, the lock that a held packet refers to
exists and belongs to the program that waits, so that nobody can free it before
the completion uses it; `RoomInv`, there are enough locks for the packets that
may yet need one; `OpInv`, the pending operations belong to distinct held packets,
have distinct numbers below the counter, and wait for the answer of their packet's
type.  The packet types and completions are first reduced to a few kinds of step: a
packet is replied to at once (`ReplyStep`), held (`HoldStep`) or lost
(`LostStep`); an answer completes an operation (`CompleteStep`) or makes it ask for
more (`RequeueStep`).  Every later proof has one case for each of these.
`AnswersFindTheirOperation` adds `SeqInv(Z)`: the numbers of the requests and
answers under way, those in `Z` set aside, are pairwise different and are, with the
kind of answer, those of the pending operations.  `Z` is empty when no launch
fails; otherwise it is {0}, the number of the error report and of the first request.

**Handles.**  `OwnInv`: the handles in locks, in requests to close and in answers
that announce one are pairwise different, these three sets are disjoint, they consist of
open handles, and without failing allocations of all open ones.  Every step moves one
handle from one set to another: the server adds an announcement, a completion
turns it into a lock or a close request, UnLock turns a lock into a close request,
the server takes that away.  `NameInv` uses it: a lock's handle is open on its
object; an announced handle is open on the object that the operation with this
number asked for; and a request to open names what its operation asked for.
The latter is relative to a lock of the waiting program, which others do not
change (`PathKept`).

**Data.**  An operation of several round trips is a loop whose body is spread over
the handler, two queues and the server, and each invariant is its loop invariant: it
says what the packet and its lock have collected, what the message under way asks for,
and what the answer under way has brought, each in terms of the operation with that
number.  `ReadInv`: a lock's read buffer is a run of its file's bytes
(`BufferInv`), a held read has the run that ends at the lock's position, the request
is for the bytes from there on and the answer has them; the file is the right one by
`NameInv`.  `WriteInv`: what the controller has printed for a program is its write's
acknowledged part (`WriteAsked`) and, after the server has handled it, the part under way
(`WriteDone`).  An error report of a failed launch may be taken for the answer to the first
request and leave that request behind; so the invariant does not have one request per writer,
but order: writes are handled in the order of their numbers (`WritesInOrder`), and a part other
than the first is alone (`WritersWait`).  `ListInv`: the place of a listing is the server's
`DIR*`, and the lock's flag only says that there is one; they agree when no request is
under way for the lock (`EnumOk`), the request finds them agreeing or rewinds
(`ListAsked`), and the answer has the next entry and has moved the `DIR*` behind it
(`ListFound`).  It needs that an error never answers a listing below the root
(`ListFailed`): not one of the server's, since `NameInv` says that the handle is
open on a directory, and not the launch's, since a lock with a handle costs a request, so
that number 0 is past (`FirstInv`).

**Launch.**  `TypeInv`; `ListInv`: `next` leads from newer to older peers, no
live peer is skipped, and between turns the loop's pointers are what the code left
in them, so that every live peer is reached in spite of the freed ones that stay
linked; `ReportInv`: who has a program has a peer, and no report is for another
peer while that one exists.  Induction along the list is done with sets: the least
live peer that is not reachable has a predecessor.  `EndsAreReportedOnce` needs two
more.  `TurnsInv`: of the messages that open a session (handshakes, the launch
request, error answers) a connection has at most one under way, and none once it has a
program: so no connection launches twice, and what a later message does leaves a
program's end alone.  `OnceInv`: the news of an end is in at most one place, the
process port, one peer's queue or one connection, and in one copy; it is there
only if the program has ended, and it is there if the program has ended and
its controller can be told; and the socket of a controller that runs is open, so that
what a peer writes is not dropped.

**Startup.**  `SocketInv`: the socket is open exactly from the first attempt on, and
nothing is closed or freed before the controller exits.

Only model-checked:

* all liveness and the fairness it needs (`EveryFrameDelivered`, the four temporal
  properties of `peer_liveness`, `DeviceTornDown`'s violation, `EveryPacketAnswered`,
  `EveryControllerEnds`), which
  is out of the prover's reach;
* `RunsWhatWasTyped`, `MessagesArriveAsSent`, `RefusesOnlyTheUnencodable` and `TypeOK`
  of Startup: `Codec` and `Text` compute by recursion over messages and strings, and what a
  recursive definition computes for every input needs an induction over data that
  the provers cannot do.

## Not modelled

* The Win32 branches; path conversion (`fix_path`), attributes, dates and comments.
* AmigaDOS and TCP themselves (external: a program waits for each reply, a socket
  keeps order).  What happens after a launcher replies to a port that the daemon
  has deleted at its end, or a process uses a deleted device port, is undefined.
* Logging and its buffer, the describers that make text of messages for the log,
  allocation and memory helpers, byte swapping, address lookup.
* `socket_includes.c`, `socket_types.h` and `config.h`; `fstest.c`, a stand-alone
  experiment that no build file builds; build files.

## Plan

All components are modelled and checked, and every safety invariant of the runs is
proved except those of Startup that compute with strings and bytes.  What is left:

1. `RunsWhatWasTyped` and the codecs' properties for every input: needs a prover that can
   instantiate an induction theorem.
2. The hazards without a property, above all the root's shared enumeration flag and `DIR*`
   (`action_examine_next`), for which the code promises nothing to state.
3. Liveness under fairness, for any number of programs and controllers.
