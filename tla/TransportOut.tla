---------------------------- MODULE TransportOut ----------------------------
(***************************************************************************)
(* The sending half of rl_transport_t (src/transport.c) and the function   *)
(* through which every message enters it, enqueue_output_message of        *)
(* src/peer.c.  Message buffers live on the C heap and are linked through  *)
(* their `next' field into one of two lists: the output queue              *)
(* (out_queue .. out_tail) and the pool of free buffers                    *)
(* (next_free_buffer, num_free_buffers).                                   *)
(*                                                                         *)
(* A buffer's bytes are abstracted to the number of the message that was   *)
(* last encoded into it; a send() is recorded on `wire' as the slice of    *)
(* that message that was handed to the socket.                             *)
(***************************************************************************)
EXTENDS Naturals, Sequences, FiniteSets

CONSTANTS Bufs,        \* the addresses malloc may return
          NULL,        \* the null pointer
          MaxPooled,   \* RL_TRANSPORT_MAX_POOLED_BUFFERS
          Sizes,       \* the possible sizes of an encoded message
          MaxMsgs      \* bound: messages enqueued in one behaviour

ASSUME NullAssumption == NULL \notin Bufs
ASSUME MaxPooledAssumption == MaxPooled \in Nat
ASSUME SizesAssumption == Sizes \subseteq Nat \ {0}
ASSUME MaxMsgsAssumption == MaxMsgs \in Nat

VARIABLES
  pool,        \* the allocator's state, see PoolType
  out_queue, out_tail,
  used_size, remaining, content,     \* per buffer
  error,       \* t->error, as far as the sending half sets it
  pc,          \* which loop of the transport is running
  cursor,      \* the local `msg' of rl_transport_destroy
  queued,      \* history: the buffers of the output queue, in order
  enqueued,    \* history: sizes of the messages accepted for output
  wire         \* history: what each successful send() wrote

vars == <<pool, out_queue, out_tail, used_size, remaining, content, error,
          pc, cursor, queued, enqueued, wire>>

Ptr == Bufs \cup {NULL}
PcSet == {"ready", "sending", "free_queue", "free_pool", "destroyed"}

(* `heap' is the set of live allocations; `free' is a history variable: the *)
(* pooled buffers in list order.                                            *)
PoolType ==
  [heap : SUBSET Bufs, next : [Bufs -> Ptr], next_free_buffer : Ptr,
   num_free_buffers : Nat, free : Seq(Bufs)]

-----------------------------------------------------------------------------
(* The buffer pool                                                          *)

(* The buffer rl_transport_alloc_buffer hands out may be b: the head of the *)
(* free list, or any address malloc has not given out yet.                  *)
MayAlloc(P, b) ==
  IF P.num_free_buffers # 0
    THEN b = P.next_free_buffer
    ELSE b \in Bufs \ P.heap

(* Fault: the link survives. *)
UnlinkForgotten(P, b) == P

(* A pooled buffer is taken off the free list and loses its link. *)
Unlink(P, b) == [P EXCEPT !.next[b] = NULL]

rl_transport_alloc_buffer(P, b) ==
  IF P.num_free_buffers # 0
    THEN Unlink([P EXCEPT !.num_free_buffers = @ - 1,
                          !.next_free_buffer = P.next[b],
                          !.free = Tail(@)], b)
    ELSE [P EXCEPT !.heap = @ \cup {b}, !.next[b] = NULL]

(* Fault: one buffer too many is kept. *)
PoolFullLate(P) == P.num_free_buffers > MaxPooled

PoolFull(P) == P.num_free_buffers >= MaxPooled

rl_transport_free_buffer(P, b) ==
  IF PoolFull(P)
    THEN [P EXCEPT !.heap = @ \ {b}]
    ELSE [P EXCEPT !.next[b] = P.next_free_buffer,
                   !.next_free_buffer = b,
                   !.num_free_buffers = @ + 1,
                   !.free = <<b>> \o @]

-----------------------------------------------------------------------------
Init ==
  /\ pool = [heap |-> {}, next |-> [b \in Bufs |-> NULL],
             next_free_buffer |-> NULL, num_free_buffers |-> 0, free |-> <<>>]
  /\ out_queue = NULL
  /\ out_tail = NULL
  /\ used_size = [b \in Bufs |-> 0]
  /\ remaining = [b \in Bufs |-> 0]
  /\ content = [b \in Bufs |-> 0]
  /\ error = FALSE
  /\ pc = "ready"
  /\ cursor = NULL
  /\ queued = <<>>
  /\ enqueued = <<>>
  /\ wire = <<>>

(* Links buffer b, whose pool is P, behind the tail of the output queue.    *)
rl_transport_add_output_message(P, b) ==
  /\ remaining' = [remaining EXCEPT ![b] = used_size'[b]]
  /\ out_tail' = b
  /\ IF out_queue = NULL
       THEN out_queue' = b /\ pool' = P
       ELSE out_queue' = out_queue /\ pool' = [P EXCEPT !.next[out_tail] = b]
  /\ queued' = Append(queued, b)

(* enqueue_output_message, success: a buffer is allocated, the message is   *)
(* encoded into it and the buffer joins the queue.                          *)
enqueue_output_message(sz) ==
  /\ pc = "ready"
  /\ Len(enqueued) < MaxMsgs
  /\ \E b \in Bufs :
       /\ MayAlloc(pool, b)
       /\ used_size' = [used_size EXCEPT ![b] = sz]
       /\ content' = [content EXCEPT ![b] = Len(enqueued) + 1]
       /\ rl_transport_add_output_message(rl_transport_alloc_buffer(pool, b), b)
  /\ enqueued' = Append(enqueued, sz)
  /\ UNCHANGED <<error, pc, cursor, wire>>

(* Fault: the buffer is forgotten. *)
err_cleanup_leaks(P, b) == P

(* enqueue_output_message when rl_encode_msg fails: the buffer, which may   *)
(* have been written to, goes back to the pool.                             *)
err_cleanup(P, b) == rl_transport_free_buffer(P, b)

enqueue_encode_fails ==
  /\ pc = "ready"
  /\ \E b \in Bufs :
       /\ MayAlloc(pool, b)
       /\ content' = [content EXCEPT ![b] = 0]
       /\ pool' = err_cleanup(rl_transport_alloc_buffer(pool, b), b)
  /\ UNCHANGED <<out_queue, out_tail, used_size, remaining, error, pc, cursor,
                 queued, enqueued, wire>>

-----------------------------------------------------------------------------
(* rl_transport_on_output_possible, one step per iteration of its loop.     *)

on_output_possible ==
  /\ pc = "ready"
  /\ out_queue # NULL
  /\ pc' = "sending"
  /\ UNCHANGED <<pool, out_queue, out_tail, used_size, remaining, content,
                 error, cursor, queued, enqueued, wire>>

(* Faults: every send() starts at the first byte; the difference is taken   *)
(* the wrong way round.                                                     *)
SendOffsetZero(msg) == 0
SendOffsetSwapped(msg) == remaining[msg] - used_size[msg]

(* Where send() starts reading in msg->buffer. *)
SendOffset(msg) == used_size[msg] - remaining[msg]

(* send() took n bytes of the head message. *)
send_some(n) ==
  LET msg == out_queue
  IN  /\ pc = "sending"
      /\ n <= remaining[msg]
      /\ wire' = Append(wire, [msg |-> content[msg],
                               from |-> SendOffset(msg),
                               len |-> n])
      /\ remaining' = [remaining EXCEPT ![msg] = @ - n]
      /\ IF remaining[msg] = n
           THEN /\ out_queue' = pool.next[msg]
                /\ pool' = rl_transport_free_buffer(pool, msg)
                /\ queued' = Tail(queued)
                /\ pc' = IF out_queue' = NULL THEN "ready" ELSE "sending"
           ELSE UNCHANGED <<out_queue, pool, queued, pc>>
      /\ UNCHANGED <<out_tail, used_size, content, error, cursor, enqueued>>

(* send() returned 0 or a negative value: the loop is left, and t->error is *)
(* set unless the socket merely would have blocked.                         *)
send_stops ==
  /\ pc = "sending"
  /\ pc' = "ready"
  /\ error' \in {error, TRUE}
  /\ UNCHANGED <<pool, out_queue, out_tail, used_size, remaining, content,
                 cursor, queued, enqueued, wire>>

-----------------------------------------------------------------------------
(* rl_transport_destroy: the queue is handed back to the pool, then the     *)
(* pool is freed.  The list heads themselves are left dangling.             *)

rl_transport_destroy ==
  /\ pc = "ready"
  /\ pc' = "free_queue"
  /\ cursor' = out_queue
  /\ UNCHANGED <<pool, out_queue, out_tail, used_size, remaining, content,
                 error, queued, enqueued, wire>>

destroy_queue ==
  /\ pc = "free_queue"
  /\ IF cursor # NULL
       THEN /\ pool' = rl_transport_free_buffer(pool, cursor)
            /\ cursor' = pool.next[cursor]
            /\ queued' = Tail(queued)
            /\ pc' = pc
       ELSE /\ pc' = "free_pool"
            /\ cursor' = pool.next_free_buffer
            /\ UNCHANGED <<pool, queued>>
  /\ UNCHANGED <<out_queue, out_tail, used_size, remaining, content, error,
                 enqueued, wire>>

destroy_pool ==
  /\ pc = "free_pool"
  /\ IF cursor # NULL
       THEN /\ pool' = [pool EXCEPT !.heap = @ \ {cursor}, !.free = Tail(@)]
            /\ cursor' = pool.next[cursor]
            /\ pc' = pc
       ELSE /\ pc' = "destroyed"
            /\ UNCHANGED <<pool, cursor>>
  /\ UNCHANGED <<out_queue, out_tail, used_size, remaining, content, error,
                 queued, enqueued, wire>>

Next ==
  \/ \E sz \in Sizes : enqueue_output_message(sz)
  \/ enqueue_encode_fails
  \/ on_output_possible
  \/ \E n \in 1 .. (IF pc = "sending" THEN remaining[out_queue] ELSE 0) :
        send_some(n)
  \/ send_stops
  \/ rl_transport_destroy
  \/ destroy_queue
  \/ destroy_pool

Spec == Init /\ [][Next]_vars

-----------------------------------------------------------------------------
(* Properties                                                               *)

(* Every pointer is NULL or a buffer; a send()'s slice has natural bounds. *)
TypeOK ==
  /\ pool \in PoolType
  /\ out_queue \in Ptr /\ out_tail \in Ptr /\ cursor \in Ptr
  /\ used_size \in [Bufs -> Nat]
  /\ remaining \in [Bufs -> Nat]
  /\ content \in [Bufs -> Nat]
  /\ error \in BOOLEAN
  /\ pc \in PcSet
  /\ queued \in Seq(Bufs)
  /\ enqueued \in Seq(Sizes)
  /\ wire \in Seq([msg : Nat, from : Nat, len : Nat])

(* `list' is what one sees walking from `head' along the next pointers. *)
Linked(head, list, next) ==
  /\ head = IF list = <<>> THEN NULL ELSE list[1]
  /\ \A i \in 1 .. Len(list) :
       next[list[i]] = IF i = Len(list) THEN NULL ELSE list[i + 1]

(* The pointer from which the running code will walk the output queue. *)
QueueHead == IF pc = "free_queue" THEN cursor ELSE out_queue
FreeHead == IF pc = "free_pool" THEN cursor ELSE pool.next_free_buffer

Distinct(list) ==
  \A i, j \in 1 .. Len(list) : list[i] = list[j] => i = j

Listed(list) == {list[i] : i \in 1 .. Len(list)}

(* The two lists threaded through the buffers' next fields are always       *)
(* what the history says: NULL-terminated, without repetition and without   *)
(* a common buffer, the tail pointer at the last queued one.                *)
ListsWellFormed ==
  /\ pc \in {"ready", "sending", "free_queue"} => Linked(QueueHead, queued, pool.next)
  /\ pc # "destroyed" => Linked(FreeHead, pool.free, pool.next)
  /\ Distinct(queued) /\ Distinct(pool.free)
  /\ Listed(queued) \cap Listed(pool.free) = {}
  /\ (pc \in {"ready", "sending"} /\ queued # <<>>) => out_tail = queued[Len(queued)]

(* Every live allocation is on exactly one list and every listed buffer is  *)
(* a live allocation: nothing is leaked, freed twice or used after free,    *)
(* also by rl_transport_destroy, which ends with an empty heap.             *)
NoLeakNoDangling ==
  /\ pool.heap = Listed(queued) \cup Listed(pool.free)
  /\ pc = "destroyed" => pool.heap = {}

(* The counter that guards the pool is its length and obeys the limit, so   *)
(* that the assertion in rl_transport_alloc_buffer holds.                   *)
PoolBounded ==
  pc \in {"ready", "sending", "free_queue"} =>
    /\ pool.num_free_buffers = Len(pool.free)
    /\ pool.num_free_buffers <= MaxPooled
    /\ pool.num_free_buffers # 0 => pool.next_free_buffer # NULL

(* The socket sees the accepted messages' bytes in order and exactly once,  *)
(* whatever the sizes of the partial writes and however buffers are reused. *)
Stream == INSTANCE ByteStream
            WITH accepted <- enqueued, open <- pc \in {"ready", "sending"}
StreamSpec == Stream!Init /\ [][Stream!Next]_(Stream!bsvars)
=============================================================================
