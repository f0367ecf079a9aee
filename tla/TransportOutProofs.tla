------------------------- MODULE TransportOutProofs -------------------------
(***************************************************************************)
(* Proofs about TransportOut for every pool limit, every set of buffers    *)
(* and message sizes, and any number of messages.                          *)
(***************************************************************************)
EXTENDS TransportOut, TLAPS, SequenceTheorems

(* The pool P is consistent when the buffers of the sequence q are queued   *)
(* and those of the set X are in the hands of the running function.         *)
Consistent(P, q, X) ==
  /\ P \in PoolType
  /\ q \in Seq(Bufs)
  /\ X \subseteq Bufs
  /\ Distinct(q)
  /\ Distinct(P.free)
  /\ Listed(q) \cap Listed(P.free) = {}
  /\ X \cap (Listed(q) \cup Listed(P.free)) = {}
  /\ P.heap = Listed(q) \cup Listed(P.free) \cup X
  /\ P.num_free_buffers = Len(P.free)
  /\ P.num_free_buffers <= MaxPooled
  /\ Linked(P.next_free_buffer, P.free, P.next)

-----------------------------------------------------------------------------
(* Sequences                                                                *)

(* What pushing one element in front of a sequence does. *)
LEMMA PushFront ==
  ASSUME NEW S, NEW s \in Seq(S), NEW b \in S
  PROVE  /\ <<b>> \o s \in Seq(S)
         /\ Len(<<b>> \o s) = Len(s) + 1
         /\ (<<b>> \o s)[1] = b
         /\ \A i \in 1 .. Len(s) : (<<b>> \o s)[i + 1] = s[i]
         /\ \A i \in 2 .. Len(s) + 1 : (<<b>> \o s)[i] = s[i - 1]
<1>1. <<b>> \in Seq(S) /\ Len(<<b>>) = 1 /\ <<b>>[1] = b
  OBVIOUS
<1>2. /\ <<b>> \o s \in Seq(S)
      /\ Len(<<b>> \o s) = 1 + Len(s)
      /\ \A i \in 1 .. 1 + Len(s) :
           (<<b>> \o s)[i] = IF i <= 1 THEN <<b>>[i] ELSE s[i - 1]
  BY <1>1, ConcatProperties
<1>3. Len(s) \in Nat
  BY LenProperties
<1> QED
  BY <1>1, <1>2, <1>3

(* What taking the first element off a sequence does. *)
LEMMA PopFront ==
  ASSUME NEW S, NEW s \in Seq(S), s # <<>>
  PROVE  /\ Tail(s) \in Seq(S)
         /\ Len(s) \in Nat \ {0}
         /\ Len(Tail(s)) = Len(s) - 1
         /\ \A i \in 1 .. Len(s) - 1 : Tail(s)[i] = s[i + 1]
         /\ s[1] \in S
<1>1. Len(s) \in Nat /\ Len(s) # 0
  BY EmptySeq, LenProperties
<1> QED
  BY <1>1, HeadTailProperties, ElementOfSeq

(* The elements of a sequence after a push, a pop and an append. *)
LEMMA ListedPushFront ==
  ASSUME NEW S, NEW s \in Seq(S), NEW b \in S
  PROVE  /\ Listed(<<b>> \o s) = Listed(s) \cup {b}
         /\ Distinct(s) /\ b \notin Listed(s) => Distinct(<<b>> \o s)
<1> DEFINE t == <<b>> \o s
<1> HIDE DEF t
<1>1. /\ t \in Seq(S) /\ Len(t) = Len(s) + 1 /\ t[1] = b
      /\ \A i \in 1 .. Len(s) : t[i + 1] = s[i]
      /\ \A i \in 2 .. Len(s) + 1 : t[i] = s[i - 1]
  BY PushFront DEF t
<1>2. Len(s) \in Nat
  BY LenProperties
<1>3. Listed(t) = Listed(s) \cup {b}
  <2>1. Listed(t) \subseteq Listed(s) \cup {b}
    BY <1>1, <1>2 DEF Listed
  <2>2. b \in Listed(t)
    BY <1>1, <1>2 DEF Listed
  <2>3. Listed(s) \subseteq Listed(t)
    <3>1. SUFFICES ASSUME NEW i \in 1 .. Len(s) PROVE s[i] \in Listed(t)
      BY DEF Listed
    <3>2. i + 1 \in 1 .. Len(t) /\ t[i + 1] = s[i]
      BY <1>1, <1>2
    <3> QED
      BY <3>2 DEF Listed
  <2> QED
    BY <2>1, <2>2, <2>3
<1>4. Distinct(s) /\ b \notin Listed(s) => Distinct(t)
  BY <1>1, <1>2 DEF Distinct, Listed
<1> QED
  BY <1>3, <1>4 DEF t

LEMMA ListedPopFront ==
  ASSUME NEW S, NEW s \in Seq(S), s # <<>>, Distinct(s)
  PROVE  /\ Distinct(Tail(s))
         /\ Listed(s) = Listed(Tail(s)) \cup {s[1]}
         /\ s[1] \notin Listed(Tail(s))
<1> DEFINE t == Tail(s)
<1> HIDE DEF t
<1>1. /\ t \in Seq(S) /\ Len(s) \in Nat \ {0} /\ Len(t) = Len(s) - 1
      /\ \A i \in 1 .. Len(s) - 1 : t[i] = s[i + 1]
  BY PopFront DEF t
<1>2. Distinct(t)
  BY <1>1 DEF Distinct
<1>3. s[1] \notin Listed(t)
  BY <1>1 DEF Distinct, Listed
<1>4. Listed(t) \subseteq Listed(s) /\ s[1] \in Listed(s)
  BY <1>1 DEF Listed
<1>5. ASSUME NEW i \in 1 .. Len(s), i # 1 PROVE s[i] \in Listed(t)
  <2>1. i - 1 \in 1 .. Len(t) /\ t[i - 1] = s[i]
    BY <1>1, <1>5
  <2> QED
    BY <2>1 DEF Listed
<1>6. Listed(s) \subseteq Listed(t) \cup {s[1]}
  BY <1>5 DEF Listed
<1> QED
  BY <1>2, <1>3, <1>4, <1>6 DEF t

LEMMA ListedAppend ==
  ASSUME NEW S, NEW s \in Seq(S), NEW b \in S
  PROVE  /\ Append(s, b) \in Seq(S)
         /\ Len(Append(s, b)) = Len(s) + 1
         /\ \A i \in 1 .. Len(s) : Append(s, b)[i] = s[i]
         /\ Append(s, b)[Len(s) + 1] = b
         /\ Listed(Append(s, b)) = Listed(s) \cup {b}
         /\ Distinct(s) /\ b \notin Listed(s) => Distinct(Append(s, b))
<1> DEFINE t == Append(s, b)
<1> HIDE DEF t
<1>1. /\ t \in Seq(S) /\ Len(t) = Len(s) + 1 /\ t[Len(s) + 1] = b
      /\ \A i \in 1 .. Len(s) : t[i] = s[i]
  BY AppendProperties DEF t
<1>2. Len(s) \in Nat
  BY LenProperties
<1>3. Listed(t) = Listed(s) \cup {b}
  BY <1>1, <1>2 DEF Listed
<1>4. Distinct(s) /\ b \notin Listed(s) => Distinct(t)
  BY <1>1, <1>2 DEF Distinct, Listed
<1> QED
  BY <1>1, <1>3, <1>4 DEF t

-----------------------------------------------------------------------------
(* Lists                                                                    *)

(* Writing the link of a buffer that is not on a list leaves the list alone.*)
LEMMA LinkedFrame ==
  ASSUME NEW list \in Seq(Bufs), NEW head, NEW next \in [Bufs -> Ptr],
         NEW b \in Bufs, NEW v, b \notin Listed(list),
         Linked(head, list, next)
  PROVE  Linked(head, list, [next EXCEPT ![b] = v])
<1>1. \A i \in 1 .. Len(list) : list[i] \in Bufs /\ list[i] # b
  BY ElementOfSeq DEF Listed
<1> QED
  BY <1>1 DEF Linked

(* The rest of a list is linked from where its first element points. *)
LEMMA LinkedTail ==
  ASSUME NEW list \in Seq(Bufs), NEW next \in [Bufs -> Ptr], NEW head,
         list # <<>>, Linked(head, list, next)
  PROVE  head = list[1] /\ Linked(next[head], Tail(list), next)
<1> DEFINE t == Tail(list)
<1> HIDE DEF t
<1>1. /\ t \in Seq(Bufs) /\ Len(list) \in Nat \ {0} /\ Len(t) = Len(list) - 1
      /\ \A i \in 1 .. Len(list) - 1 : t[i] = list[i + 1]
  BY PopFront DEF t
<1>2. head = list[1]
  BY DEF Linked
<1>3. next[head] = IF t = <<>> THEN NULL ELSE t[1]
  <2>1. t = <<>> <=> Len(t) = 0
    BY <1>1, EmptySeq
  <2> QED
    BY <1>1, <1>2, <2>1 DEF Linked
<1>4. ASSUME NEW i \in 1 .. Len(t)
      PROVE  next[t[i]] = IF i = Len(t) THEN NULL ELSE t[i + 1]
  BY <1>1 DEF Linked
<1> QED
  BY <1>2, <1>3, <1>4 DEF Linked, t

(* Pushing a buffer in front of a list. *)
LEMMA LinkedPush ==
  ASSUME NEW list \in Seq(Bufs), NEW next \in [Bufs -> Ptr], NEW head \in Ptr,
         NEW b \in Bufs, b \notin Listed(list), Linked(head, list, next)
  PROVE  Linked(b, <<b>> \o list, [next EXCEPT ![b] = head])
<1> DEFINE t == <<b>> \o list
           nxt == [next EXCEPT ![b] = head]
<1> HIDE DEF t, nxt
<1>1. /\ t \in Seq(Bufs) /\ Len(t) = Len(list) + 1 /\ t[1] = b
      /\ \A i \in 1 .. Len(list) : t[i + 1] = list[i]
      /\ \A i \in 2 .. Len(list) + 1 : t[i] = list[i - 1]
  BY PushFront DEF t
<1>2. Len(list) \in Nat /\ (list = <<>> <=> Len(list) = 0)
  BY LenProperties, EmptySeq
<1>3. Linked(head, list, nxt) /\ nxt[b] = head
  BY LinkedFrame DEF nxt
<1>4. t # <<>>
  BY <1>1, <1>2, EmptySeq
<1>5. ASSUME NEW i \in 1 .. Len(t)
      PROVE  nxt[t[i]] = IF i = Len(t) THEN NULL ELSE t[i + 1]
  <2>1. CASE i = 1
    BY <1>1, <1>2, <1>3, <2>1 DEF Linked
  <2>2. CASE i # 1
    <3>0. i \in 2 .. Len(list) + 1
      BY <1>1, <1>2, <2>2
    <3>1. i - 1 \in 1 .. Len(list) /\ t[i] = list[i - 1]
      <4>1. i - 1 \in 1 .. Len(list)
        BY <1>2, <3>0
      <4> QED
        BY <1>1, <3>0, <4>1
    <3>2. nxt[list[i - 1]] = IF i - 1 = Len(list) THEN NULL ELSE list[i]
      <4>1. \A j \in 1 .. Len(list) :
              nxt[list[j]] = IF j = Len(list) THEN NULL ELSE list[j + 1]
        BY <1>3 DEF Linked
      <4>2. i - 1 + 1 = i
        BY <3>0
      <4> QED
        BY <3>1, <4>1, <4>2
    <3>3. i # Len(t) => t[i + 1] = list[i]
      BY <1>1, <1>2, <2>2
    <3> QED
      BY <1>1, <1>2, <3>1, <3>2, <3>3
  <2> QED
    BY <2>1, <2>2
<1> QED
  BY <1>1, <1>4, <1>5 DEF Linked, t, nxt

(* Linking a buffer behind the last one of a list that is not empty. *)
LEMMA LinkedAppend ==
  ASSUME NEW list \in Seq(Bufs), NEW next \in [Bufs -> Ptr], NEW head,
         NEW b \in Bufs, b \notin Listed(list), next[b] = NULL,
         list # <<>>, Distinct(list), Linked(head, list, next)
  PROVE  Linked(head, Append(list, b), [next EXCEPT ![list[Len(list)]] = b])
<1> DEFINE t == Append(list, b)
           nxt == [next EXCEPT ![list[Len(list)]] = b]
<1> HIDE DEF t, nxt
<1>1. /\ t \in Seq(Bufs) /\ Len(t) = Len(list) + 1 /\ t[Len(list) + 1] = b
      /\ \A i \in 1 .. Len(list) : t[i] = list[i]
  BY ListedAppend DEF t
<1>2. Len(list) \in Nat /\ Len(list) # 0
  BY LenProperties, EmptySeq
<1>3. \A i \in 1 .. Len(list) : list[i] \in Bufs /\ list[i] # b
  BY ElementOfSeq DEF Listed
<1>4. t # <<>>
  BY <1>1, <1>2, EmptySeq
<1>5. ASSUME NEW i \in 1 .. Len(t)
      PROVE  nxt[t[i]] = IF i = Len(t) THEN NULL ELSE t[i + 1]
  <2>1. CASE i < Len(list)
    <3>1. list[i] # list[Len(list)]
      BY <1>2, <2>1, <1>1 DEF Distinct
    <3>2. nxt[list[i]] = next[list[i]]
      BY <1>1, <1>2, <1>3, <2>1, <3>1 DEF nxt
    <3> QED
      BY <1>1, <1>2, <2>1, <3>2 DEF Linked
  <2>2. CASE i = Len(list)
    BY <1>1, <1>2, <1>3, <2>2 DEF nxt
  <2>3. CASE i = Len(list) + 1
    <3>1. nxt[b] = NULL
      BY <1>2, <1>3 DEF nxt
    <3> QED
      BY <1>1, <2>3, <3>1
  <2> QED
    BY <1>1, <1>2, <2>1, <2>2, <2>3
<1>6. head = t[1]
  BY <1>1, <1>2 DEF Linked
<1> QED
  BY <1>4, <1>5, <1>6 DEF Linked, t, nxt

-----------------------------------------------------------------------------
(* The pool                                                                 *)

(* rl_transport_alloc_buffer returns a buffer that is on neither list, with *)
(* its link cleared, and disturbs neither list.                             *)
LEMMA AllocBuffer ==
  ASSUME NEW P, NEW q, NEW h, NEW b \in Bufs, Consistent(P, q, {}),
         Linked(h, q, P.next), MayAlloc(P, b)
  PROVE  LET R == rl_transport_alloc_buffer(P, b)
         IN  /\ Consistent(R, q, {b})
             /\ Linked(h, q, R.next)
             /\ R.next[b] = NULL
<1> DEFINE R == rl_transport_alloc_buffer(P, b)
<1> HIDE DEF R
<1> USE NullAssumption
<1>0. P \in PoolType /\ q \in Seq(Bufs) /\ Len(P.free) \in Nat
  BY LenProperties DEF Consistent, PoolType
<1>a. P.next \in [Bufs -> Ptr] /\ [P.next EXCEPT ![b] = NULL] \in [Bufs -> Ptr]
  BY <1>0 DEF PoolType, Ptr
<1>1. CASE P.num_free_buffers # 0
  <2>1. P.free # <<>> /\ P.free \in Seq(Bufs)
    BY <1>0, <1>1, EmptySeq DEF Consistent, PoolType
  <2>2. b = P.free[1] /\ Linked(P.next[b], Tail(P.free), P.next)
    BY <1>0, <1>1, <2>1, LinkedTail DEF Consistent, MayAlloc, PoolType
  <2>3. /\ Distinct(Tail(P.free))
        /\ Listed(P.free) = Listed(Tail(P.free)) \cup {b}
        /\ b \notin Listed(Tail(P.free))
    BY <2>1, <2>2, ListedPopFront DEF Consistent
  <2>4. Tail(P.free) \in Seq(Bufs) /\ Len(Tail(P.free)) = Len(P.free) - 1
    BY <2>1, PopFront
  <2>5. R = [P EXCEPT !.num_free_buffers = P.num_free_buffers - 1,
                      !.next_free_buffer = P.next[b],
                      !.next = [P.next EXCEPT ![b] = NULL],
                      !.free = Tail(P.free)]
    BY <1>0, <1>1 DEF R, rl_transport_alloc_buffer, Unlink, PoolType
  <2>6. /\ R \in PoolType
        /\ R.heap = P.heap
        /\ R.num_free_buffers = P.num_free_buffers - 1
        /\ R.next_free_buffer = P.next[b]
        /\ R.next = [P.next EXCEPT ![b] = NULL]
        /\ R.free = Tail(P.free)
    <3>1. P.num_free_buffers - 1 \in Nat /\ P.next[b] \in Ptr
      BY <1>0, <1>a, <1>1 DEF PoolType
    <3> QED
      BY <1>0, <1>a, <2>4, <2>5, <3>1 DEF PoolType
  <2>7. b \notin Listed(q)
    BY <2>3 DEF Consistent
  <2>8. Linked(R.next_free_buffer, R.free, R.next) /\ Linked(h, q, R.next)
    <3>1. Linked(h, q, [P.next EXCEPT ![b] = NULL])
      BY <1>0, <1>a, <2>7, LinkedFrame
    <3>2. Linked(P.next[b], Tail(P.free), [P.next EXCEPT ![b] = NULL])
      BY <1>a, <2>2, <2>3, <2>4, LinkedFrame
    <3> QED
      BY <2>6, <3>1, <3>2
  <2>9. R.next[b] = NULL
    BY <1>0, <2>6 DEF PoolType
  <2>10. Consistent(R, q, {b})
    BY <1>0, <1>1, <2>3, <2>4, <2>6, <2>7, <2>8, MaxPooledAssumption
    DEF Consistent
  <2> QED
    BY <2>8, <2>9, <2>10 DEF R
<1>2. CASE P.num_free_buffers = 0
  <2>1. b \in Bufs \ P.heap
    BY <1>2 DEF MayAlloc
  <2>2. b \notin Listed(q) /\ b \notin Listed(P.free)
    BY <2>1 DEF Consistent
  <2>3. R = [P EXCEPT !.heap = P.heap \cup {b}, !.next = [P.next EXCEPT ![b] = NULL]]
    BY <1>0, <1>2 DEF R, rl_transport_alloc_buffer, PoolType
  <2>4. /\ R \in PoolType
        /\ R.heap = P.heap \cup {b}
        /\ R.num_free_buffers = P.num_free_buffers
        /\ R.next_free_buffer = P.next_free_buffer
        /\ R.next = [P.next EXCEPT ![b] = NULL]
        /\ R.free = P.free
    BY <1>0, <1>a, <2>3 DEF PoolType
  <2>5. Linked(R.next_free_buffer, R.free, R.next) /\ Linked(h, q, R.next)
    <3>1. Linked(h, q, [P.next EXCEPT ![b] = NULL])
      BY <1>0, <1>a, <2>2, LinkedFrame
    <3>2. P.free \in Seq(Bufs) /\ Linked(P.next_free_buffer, P.free, P.next)
      BY <1>0 DEF Consistent, PoolType
    <3>3. Linked(P.next_free_buffer, P.free, [P.next EXCEPT ![b] = NULL])
      BY <1>a, <2>2, <3>2, LinkedFrame
    <3> QED
      BY <2>4, <3>1, <3>3
  <2>6. R.next[b] = NULL
    BY <1>0, <2>4 DEF PoolType
  <2>7. Consistent(R, q, {b})
    BY <2>2, <2>4, <2>5 DEF Consistent
  <2> QED
    BY <2>5, <2>6, <2>7 DEF R
<1> QED
  BY <1>1, <1>2 DEF R

(* rl_transport_free_buffer takes back a buffer that is on neither list. *)
LEMMA FreeBuffer ==
  ASSUME NEW P, NEW q, NEW h, NEW b \in Bufs, Consistent(P, q, {b}),
         Linked(h, q, P.next)
  PROVE  LET R == rl_transport_free_buffer(P, b)
         IN  Consistent(R, q, {}) /\ Linked(h, q, R.next)
<1> DEFINE R == rl_transport_free_buffer(P, b)
<1> HIDE DEF R
<1> USE NullAssumption
<1>0. P \in PoolType /\ q \in Seq(Bufs) /\ P.free \in Seq(Bufs)
      /\ Len(P.free) \in Nat /\ P.next \in [Bufs -> Ptr]
      /\ P.next_free_buffer \in Ptr
  BY LenProperties DEF Consistent, PoolType
<1>1. b \notin Listed(q) /\ b \notin Listed(P.free)
  BY DEF Consistent
<1>a. [P.next EXCEPT ![b] = P.next_free_buffer] \in [Bufs -> Ptr]
  BY <1>0
<1>2. CASE PoolFull(P)
  <2>1. R = [P EXCEPT !.heap = P.heap \ {b}]
    BY <1>0, <1>2 DEF R, rl_transport_free_buffer, PoolType
  <2>2. /\ R \in PoolType
        /\ R.heap = P.heap \ {b}
        /\ R.num_free_buffers = P.num_free_buffers
        /\ R.next_free_buffer = P.next_free_buffer
        /\ R.next = P.next
        /\ R.free = P.free
    BY <1>0, <2>1 DEF PoolType
  <2>3. Consistent(R, q, {}) /\ Linked(h, q, R.next)
    BY <1>1, <2>2 DEF Consistent
  <2> QED
    BY <2>3 DEF R
<1>3. CASE ~PoolFull(P)
  <2>1. R = [P EXCEPT !.next = [P.next EXCEPT ![b] = P.next_free_buffer],
                      !.next_free_buffer = b,
                      !.num_free_buffers = P.num_free_buffers + 1,
                      !.free = <<b>> \o P.free]
    BY <1>0, <1>3 DEF R, rl_transport_free_buffer, PoolType
  <2>2. <<b>> \o P.free \in Seq(Bufs) /\ Len(<<b>> \o P.free) = Len(P.free) + 1
    BY <1>0, PushFront
  <2>3. /\ R \in PoolType
        /\ R.heap = P.heap
        /\ R.num_free_buffers = P.num_free_buffers + 1
        /\ R.next_free_buffer = b
        /\ R.next = [P.next EXCEPT ![b] = P.next_free_buffer]
        /\ R.free = <<b>> \o P.free
    <3>1. P.num_free_buffers + 1 \in Nat /\ b \in Ptr
      BY <1>0 DEF PoolType, Ptr
    <3> QED
      BY <1>0, <1>a, <2>1, <2>2, <3>1 DEF PoolType
  <2>4. Listed(R.free) = Listed(P.free) \cup {b} /\ Distinct(R.free)
    BY <1>0, <1>1, <2>3, ListedPushFront DEF Consistent
  <2>5. Linked(R.next_free_buffer, R.free, R.next)
    BY <1>0, <1>1, <2>3, LinkedPush DEF Consistent
  <2>6. Linked(h, q, R.next)
    <3>1. Linked(h, q, [P.next EXCEPT ![b] = P.next_free_buffer])
      BY <1>0, <1>1, LinkedFrame
    <3> QED
      BY <2>3, <3>1
  <2>7. R.num_free_buffers <= MaxPooled
    BY <1>0, <1>3, <2>3, MaxPooledAssumption DEF PoolFull, PoolType
  <2>8. R.num_free_buffers = Len(R.free)
    BY <2>2, <2>3 DEF Consistent
  <2>9. Consistent(R, q, {})
    BY <1>1, <2>3, <2>4, <2>5, <2>7, <2>8 DEF Consistent
  <2> QED
    BY <2>6, <2>9 DEF R
<1> QED
  BY <1>2, <1>3 DEF R

-----------------------------------------------------------------------------
(* The inductive invariant.  The three invariants of the model speak of the *)
(* states between steps; what makes them inductive is that the two lists    *)
(* are consistent as a whole, and what rl_transport_destroy has left of     *)
(* them while it runs.                                                      *)

QueueInUse == pc \in {"ready", "sending"}

ListInv ==
  /\ TypeOK
  /\ \A b \in Bufs : remaining[b] <= used_size[b]
  /\ pc \in {"ready", "sending", "free_queue"} =>
       Consistent(pool, queued, {}) /\ Linked(QueueHead, queued, pool.next)
  /\ QueueInUse /\ queued # <<>> => out_tail = queued[Len(queued)]
  /\ pc = "sending" => queued # <<>>
  /\ pc = "free_pool" =>
       /\ queued = <<>>
       /\ Distinct(pool.free)
       /\ pool.heap = Listed(pool.free)
       /\ Linked(cursor, pool.free, pool.next)
  /\ pc = "destroyed" => queued = <<>> /\ pool.free = <<>> /\ pool.heap = {}

LEMMA ListedEmpty == Listed(<<>>) = {} /\ Distinct(<<>>)
  BY DEF Listed, Distinct

LEMMA ListInvInit == Init => ListInv
<1> SUFFICES ASSUME Init PROVE ListInv
  OBVIOUS
<1> USE DEF Init
<1>1. pool \in PoolType
  <2>1. [b \in Bufs |-> NULL] \in [Bufs -> Ptr]
    BY DEF Ptr
  <2> QED
    BY <2>1 DEF PoolType, Ptr
<1>2. TypeOK
  <2>1. /\ out_queue \in Ptr /\ out_tail \in Ptr /\ cursor \in Ptr
        /\ error \in BOOLEAN /\ pc \in PcSet
    BY DEF Ptr, PcSet
  <2>2. /\ used_size \in [Bufs -> Nat] /\ remaining \in [Bufs -> Nat]
        /\ content \in [Bufs -> Nat]
    OBVIOUS
  <2>3. /\ queued \in Seq(Bufs) /\ enqueued \in Seq(Sizes)
        /\ wire \in Seq([msg : Nat, from : Nat, len : Nat])
    BY EmptySeq
  <2> QED
    BY <1>1, <2>1, <2>2, <2>3 DEF TypeOK
<1>3. Linked(pool.next_free_buffer, pool.free, pool.next)
      /\ Linked(QueueHead, queued, pool.next)
  BY DEF Linked, QueueHead
<1>4. Consistent(pool, queued, {})
  BY <1>1, <1>3, ListedEmpty, MaxPooledAssumption DEF Consistent
<1>5. \A b \in Bufs : remaining[b] <= used_size[b]
  OBVIOUS
<1> QED
  BY <1>2, <1>3, <1>4, <1>5 DEF ListInv, QueueInUse

(* A head pointer is NULL exactly when its list is empty. *)
LEMMA HeadIsNull ==
  ASSUME NEW list \in Seq(Bufs), NEW head, NEW next, Linked(head, list, next)
  PROVE  head = NULL <=> list = <<>>
<1>1. list # <<>> => list[1] \in Bufs
  BY PopFront
<1> QED
  BY <1>1, NullAssumption DEF Linked

LEMMA EnqueuePreservesLists ==
  ASSUME ListInv, NEW sz \in Sizes, enqueue_output_message(sz)
  PROVE  ListInv'
<1> USE DEF ListInv, QueueInUse
<1>1. PICK b \in Bufs :
        /\ MayAlloc(pool, b)
        /\ used_size' = [used_size EXCEPT ![b] = sz]
        /\ content' = [content EXCEPT ![b] = Len(enqueued) + 1]
        /\ rl_transport_add_output_message(rl_transport_alloc_buffer(pool, b), b)
  BY DEF enqueue_output_message
<1>2. /\ pc = "ready" /\ pc' = "ready" /\ enqueued' = Append(enqueued, sz)
      /\ UNCHANGED <<error, cursor, wire>>
  BY DEF enqueue_output_message
<1> DEFINE R == rl_transport_alloc_buffer(pool, b)
<1> HIDE DEF R
<1>3. Consistent(pool, queued, {}) /\ Linked(out_queue, queued, pool.next)
  BY <1>2 DEF QueueHead
<1>4. Consistent(R, queued, {b}) /\ Linked(out_queue, queued, R.next)
      /\ R.next[b] = NULL
  BY <1>1, <1>3, AllocBuffer DEF R
<1>5. /\ R \in PoolType /\ R.next \in [Bufs -> Ptr] /\ queued \in Seq(Bufs)
      /\ b \notin Listed(queued) /\ b \notin Listed(R.free)
  BY <1>4 DEF Consistent, PoolType
<1>6. queued' = Append(queued, b) /\ out_tail' = b
  BY <1>1 DEF rl_transport_add_output_message
<1>7. /\ queued' \in Seq(Bufs) /\ Len(queued') = Len(queued) + 1
      /\ queued'[Len(queued')] = b
      /\ Listed(queued') = Listed(queued) \cup {b}
      /\ Distinct(queued')
  BY <1>4, <1>5, <1>6, ListedAppend DEF Consistent
<1>8. Linked(out_queue', queued', pool'.next) /\ Consistent(pool', queued', {})
      /\ out_queue' \in Ptr
  <2>1. CASE out_queue = NULL
    <3>1. out_queue' = b /\ pool' = R
      BY <1>1, <2>1 DEF rl_transport_add_output_message, R
    <3>2. queued = <<>>
      BY <1>3, <1>5, <2>1, HeadIsNull
    <3>3. Len(queued') = 1 /\ queued'[1] = b /\ queued' # <<>>
      BY <1>6, <1>7, <3>2, EmptySeq
    <3>4. Linked(out_queue', queued', pool'.next)
      BY <1>4, <3>1, <3>3 DEF Linked
    <3> QED
      BY <1>4, <1>5, <1>7, <3>1, <3>4 DEF Consistent, Ptr
  <2>2. CASE out_queue # NULL
    <3>1. out_queue' = out_queue /\ pool' = [R EXCEPT !.next[out_tail] = b]
      BY <1>1, <2>2 DEF rl_transport_add_output_message, R
    <3>2. queued # <<>> /\ out_tail = queued[Len(queued)]
      BY <1>2, <1>3, <1>5, <2>2, HeadIsNull
    <3>3. out_tail \in Bufs /\ out_tail \in Listed(queued)
      BY <1>5, <3>2, PopFront, ElementOfSeq DEF Listed
    <3>4. [R.next EXCEPT ![out_tail] = b] \in [Bufs -> Ptr]
      BY <1>5 DEF Ptr
    <3>5. /\ pool' \in PoolType
          /\ pool'.next = [R.next EXCEPT ![out_tail] = b]
          /\ pool'.free = R.free /\ pool'.heap = R.heap
          /\ pool'.num_free_buffers = R.num_free_buffers
          /\ pool'.next_free_buffer = R.next_free_buffer
      BY <1>5, <3>1, <3>4 DEF PoolType
    <3>6. Linked(out_queue, Append(queued, b), [R.next EXCEPT ![queued[Len(queued)]] = b])
      BY <1>4, <1>5, <3>2, LinkedAppend DEF Consistent
    <3>7. Linked(out_queue', queued', pool'.next)
      BY <1>6, <3>1, <3>2, <3>5, <3>6
    <3>8. out_tail \notin Listed(R.free) /\ R.free \in Seq(Bufs)
      BY <1>4, <1>5, <3>3 DEF Consistent, PoolType
    <3>9. Linked(R.next_free_buffer, R.free, [R.next EXCEPT ![out_tail] = b])
      BY <1>4, <1>5, <3>3, <3>8, LinkedFrame DEF Consistent
    <3>10. Consistent(pool', queued', {})
      BY <1>4, <1>5, <1>7, <3>5, <3>9 DEF Consistent
    <3> QED
      BY <3>1, <3>7, <3>10 DEF TypeOK
  <2> QED
    BY <2>1, <2>2
<1>9. TypeOK'
  <2>1. sz \in Nat /\ Len(enqueued) + 1 \in Nat
    BY SizesAssumption, LenProperties DEF TypeOK
  <2>2. used_size' \in [Bufs -> Nat] /\ content' \in [Bufs -> Nat]
    BY <1>1, <2>1 DEF TypeOK
  <2>3. remaining' = [remaining EXCEPT ![b] = used_size'[b]]
    BY <1>1 DEF rl_transport_add_output_message
  <2>4. remaining' \in [Bufs -> Nat]
    BY <2>2, <2>3 DEF TypeOK
  <2>5. enqueued' \in Seq(Sizes)
    BY <1>2, AppendProperties DEF TypeOK
  <2>6. pool' \in PoolType
    BY <1>8 DEF Consistent
  <2> QED
    BY <1>2, <1>6, <1>7, <1>8, <2>2, <2>4, <2>5, <2>6 DEF TypeOK, Ptr
<1>10. QueueHead' = out_queue'
  BY <1>2 DEF QueueHead
<1>11. \A c \in Bufs : remaining'[c] <= used_size'[c]
  <2>1. /\ used_size' = [used_size EXCEPT ![b] = sz]
        /\ remaining' = [remaining EXCEPT ![b] = used_size'[b]]
    BY <1>1 DEF rl_transport_add_output_message
  <2>2. sz \in Nat
    BY SizesAssumption
  <2> QED
    BY <2>1, <2>2 DEF TypeOK
<1> QED
  BY <1>2, <1>6, <1>7, <1>8, <1>9, <1>10, <1>11

LEMMA EncodeFailurePreservesLists ==
  ASSUME ListInv, enqueue_encode_fails
  PROVE  ListInv'
<1> USE DEF ListInv, QueueInUse
<1>1. PICK b \in Bufs :
        /\ MayAlloc(pool, b)
        /\ content' = [content EXCEPT ![b] = 0]
        /\ pool' = err_cleanup(rl_transport_alloc_buffer(pool, b), b)
  BY DEF enqueue_encode_fails
<1>2. /\ pc = "ready"
      /\ UNCHANGED <<out_queue, out_tail, used_size, remaining, error, pc, cursor,
                     queued, enqueued, wire>>
  BY DEF enqueue_encode_fails
<1> DEFINE R == rl_transport_alloc_buffer(pool, b)
<1> HIDE DEF R
<1>3. Consistent(pool, queued, {}) /\ Linked(out_queue, queued, pool.next)
  BY <1>2 DEF QueueHead
<1>4. Consistent(R, queued, {b}) /\ Linked(out_queue, queued, R.next)
  BY <1>1, <1>3, AllocBuffer DEF R
<1>5. pool' = rl_transport_free_buffer(R, b)
  BY <1>1 DEF err_cleanup, R
<1>6. Consistent(pool', queued, {}) /\ Linked(out_queue, queued, pool'.next)
  BY <1>4, <1>5, FreeBuffer
<1>7. content' \in [Bufs -> Nat] /\ pool' \in PoolType
  BY <1>1, <1>6 DEF TypeOK, Consistent
<1>8. TypeOK'
  BY <1>2, <1>7 DEF TypeOK
<1> QED
  BY <1>2, <1>6, <1>8 DEF QueueHead

LEMMA SendPreservesLists ==
  ASSUME ListInv, NEW n \in 1 .. remaining[out_queue], send_some(n)
  PROVE  ListInv'
<1> USE DEF ListInv, QueueInUse
<1>1. /\ pc = "sending" /\ queued # <<>>
      /\ n <= remaining[out_queue]
      /\ wire' = Append(wire, [msg |-> content[out_queue],
                               from |-> SendOffset(out_queue), len |-> n])
      /\ remaining' = [remaining EXCEPT ![out_queue] = @ - n]
      /\ UNCHANGED <<out_tail, used_size, content, error, cursor, enqueued>>
  BY DEF send_some
<1>2. Consistent(pool, queued, {}) /\ Linked(out_queue, queued, pool.next)
  BY <1>1 DEF QueueHead
<1>3. /\ pool \in PoolType /\ pool.next \in [Bufs -> Ptr] /\ queued \in Seq(Bufs)
  BY <1>2 DEF Consistent, PoolType
<1>4. out_queue = queued[1] /\ Linked(pool.next[out_queue], Tail(queued), pool.next)
  BY <1>1, <1>2, <1>3, LinkedTail
<1>5. /\ out_queue \in Bufs /\ Len(queued) \in Nat \ {0}
      /\ Tail(queued) \in Seq(Bufs) /\ Len(Tail(queued)) = Len(queued) - 1
      /\ \A i \in 1 .. Len(queued) - 1 : Tail(queued)[i] = queued[i + 1]
  BY <1>1, <1>3, <1>4, PopFront
<1>6. remaining' \in [Bufs -> Nat]
  BY <1>1, <1>5 DEF TypeOK
<1>6a. \A b \in Bufs : remaining'[b] <= used_size'[b]
  BY <1>1, <1>5 DEF TypeOK
<1>7. wire' \in Seq([msg : Nat, from : Nat, len : Nat])
  <2>1. content[out_queue] \in Nat /\ n \in Nat
    BY <1>5 DEF TypeOK
  <2>2. SendOffset(out_queue) \in Nat
    <3>1. /\ used_size[out_queue] \in Nat /\ remaining[out_queue] \in Nat
          /\ remaining[out_queue] <= used_size[out_queue]
      BY <1>5 DEF TypeOK
    <3> QED
      BY <3>1 DEF SendOffset
  <2> QED
    BY <1>1, <2>1, <2>2, AppendProperties DEF TypeOK
<1>8. CASE remaining[out_queue] # n
  <2>1. UNCHANGED <<out_queue, pool, queued, pc>>
    BY <1>8 DEF send_some
  <2>2. TypeOK'
    BY <1>1, <1>6, <1>7, <2>1 DEF TypeOK
  <2> QED
    BY <1>1, <1>2, <1>6a, <2>1, <2>2 DEF QueueHead
<1>9. CASE remaining[out_queue] = n
  <2>1. /\ out_queue' = pool.next[out_queue]
        /\ pool' = rl_transport_free_buffer(pool, out_queue)
        /\ queued' = Tail(queued)
        /\ pc' = IF out_queue' = NULL THEN "ready" ELSE "sending"
    BY <1>9 DEF send_some
  <2>2. Consistent(pool, Tail(queued), {out_queue})
    BY <1>1, <1>2, <1>3, <1>4, <1>5, ListedPopFront DEF Consistent
  <2>3. Consistent(pool', queued', {}) /\ Linked(out_queue', queued', pool'.next)
    BY <1>4, <1>5, <2>1, <2>2, FreeBuffer
  <2>4. pool' \in PoolType /\ queued' \in Seq(Bufs) /\ out_queue' \in Ptr
    BY <1>3, <1>5, <2>1, <2>3 DEF Consistent
  <2>5. TypeOK'
    BY <1>1, <1>6, <1>7, <2>1, <2>4 DEF TypeOK, PcSet
  <2>6. out_queue' = NULL <=> queued' = <<>>
    BY <2>3, <2>4, HeadIsNull
  <2>7. queued' # <<>> => out_tail' = queued'[Len(queued')]
    <3>1. queued' # <<>> => Len(queued') # 0
      BY <2>4, EmptySeq
    <3> QED
      BY <1>1, <1>5, <2>1, <3>1
  <2> QED
    BY <1>6a, <2>1, <2>3, <2>5, <2>6, <2>7 DEF QueueHead
<1> QED
  BY <1>8, <1>9

LEMMA DestroyQueuePreservesLists ==
  ASSUME ListInv, destroy_queue
  PROVE  ListInv'
<1> USE DEF ListInv, QueueInUse
<1>1. /\ pc = "free_queue"
      /\ UNCHANGED <<out_queue, out_tail, used_size, remaining, content, error,
                     enqueued, wire>>
  BY DEF destroy_queue
<1>2. Consistent(pool, queued, {}) /\ Linked(cursor, queued, pool.next)
  BY <1>1 DEF QueueHead
<1>3. /\ pool \in PoolType /\ pool.next \in [Bufs -> Ptr] /\ queued \in Seq(Bufs)
      /\ (cursor = NULL <=> queued = <<>>)
  BY <1>2, HeadIsNull DEF Consistent, PoolType
<1>4. CASE cursor # NULL
  <2>1. /\ pool' = rl_transport_free_buffer(pool, cursor)
        /\ cursor' = pool.next[cursor]
        /\ queued' = Tail(queued)
        /\ pc' = pc
    BY <1>4 DEF destroy_queue
  <2>2. cursor = queued[1] /\ Linked(pool.next[cursor], Tail(queued), pool.next)
    BY <1>2, <1>3, <1>4, LinkedTail
  <2>3. cursor \in Bufs /\ Tail(queued) \in Seq(Bufs)
    BY <1>3, <1>4, <2>2, PopFront
  <2>4. Consistent(pool, Tail(queued), {cursor})
    BY <1>2, <1>3, <1>4, <2>2, <2>3, ListedPopFront DEF Consistent
  <2>5. Consistent(pool', queued', {}) /\ Linked(cursor', queued', pool'.next)
    BY <2>1, <2>2, <2>3, <2>4, FreeBuffer
  <2>6. pool' \in PoolType /\ queued' \in Seq(Bufs) /\ cursor' \in Ptr
    BY <1>3, <2>1, <2>3, <2>5 DEF Consistent
  <2>7. TypeOK'
    BY <1>1, <2>1, <2>6 DEF TypeOK
  <2> QED
    BY <1>1, <2>1, <2>5, <2>7 DEF QueueHead
<1>5. CASE cursor = NULL
  <2>1. /\ pc' = "free_pool" /\ cursor' = pool.next_free_buffer
        /\ UNCHANGED <<pool, queued>>
    BY <1>5 DEF destroy_queue
  <2>2. TypeOK'
    BY <1>1, <1>3, <2>1 DEF TypeOK, PcSet, PoolType
  <2>3. /\ queued' = <<>> /\ Distinct(pool'.free)
        /\ pool'.heap = Listed(pool'.free)
        /\ Linked(cursor', pool'.free, pool'.next)
    BY <1>2, <1>3, <1>5, <2>1, ListedEmpty DEF Consistent
  <2> QED
    BY <1>1, <2>1, <2>2, <2>3
<1> QED
  BY <1>4, <1>5

LEMMA DestroyPoolPreservesLists ==
  ASSUME ListInv, destroy_pool
  PROVE  ListInv'
<1> USE DEF ListInv, QueueInUse
<1>1. /\ pc = "free_pool"
      /\ UNCHANGED <<out_queue, out_tail, used_size, remaining, content, error,
                     queued, enqueued, wire>>
  BY DEF destroy_pool
<1>2. /\ queued = <<>> /\ Distinct(pool.free) /\ pool.heap = Listed(pool.free)
      /\ Linked(cursor, pool.free, pool.next)
  BY <1>1
<1>3. /\ pool \in PoolType /\ pool.next \in [Bufs -> Ptr] /\ pool.free \in Seq(Bufs)
  BY DEF TypeOK, PoolType
<1>4. cursor = NULL <=> pool.free = <<>>
  BY <1>2, <1>3, HeadIsNull
<1>5. CASE cursor # NULL
  <2>1. /\ pool' = [pool EXCEPT !.heap = @ \ {cursor}, !.free = Tail(@)]
        /\ cursor' = pool.next[cursor]
        /\ pc' = pc
    BY <1>5 DEF destroy_pool
  <2>2. cursor = pool.free[1] /\ Linked(pool.next[cursor], Tail(pool.free), pool.next)
    BY <1>2, <1>3, <1>4, <1>5, LinkedTail
  <2>3. cursor \in Bufs /\ Tail(pool.free) \in Seq(Bufs)
    BY <1>3, <1>4, <1>5, <2>2, PopFront
  <2>4. /\ Distinct(Tail(pool.free))
        /\ Listed(pool.free) = Listed(Tail(pool.free)) \cup {cursor}
        /\ cursor \notin Listed(Tail(pool.free))
    BY <1>2, <1>3, <1>4, <1>5, <2>2, ListedPopFront
  <2>5. /\ pool' \in PoolType /\ pool'.free = Tail(pool.free)
        /\ pool'.heap = pool.heap \ {cursor} /\ pool'.next = pool.next
    BY <1>3, <2>1, <2>3 DEF PoolType
  <2>6. cursor' \in Ptr
    BY <1>3, <2>1, <2>3
  <2>7. TypeOK'
    BY <1>1, <2>1, <2>5, <2>6 DEF TypeOK
  <2> QED
    BY <1>1, <1>2, <2>1, <2>2, <2>4, <2>5, <2>7
<1>6. CASE cursor = NULL
  <2>1. pc' = "destroyed" /\ UNCHANGED <<pool, cursor>>
    BY <1>6 DEF destroy_pool
  <2>2. TypeOK'
    BY <1>1, <2>1 DEF TypeOK, PcSet
  <2> QED
    BY <1>1, <1>2, <1>4, <1>6, <2>1, <2>2, ListedEmpty
<1> QED
  BY <1>5, <1>6

(* Starting and leaving the write loop, and starting rl_transport_destroy,  *)
(* only move the program counter.                                           *)
LEMMA ControlPreservesLists ==
  ASSUME ListInv, on_output_possible \/ send_stops \/ rl_transport_destroy
  PROVE  ListInv'
<1> USE DEF ListInv, QueueInUse
<1>1. CASE on_output_possible
  <2>1. pc = "ready" /\ pc' = "sending" /\ out_queue # NULL
        /\ UNCHANGED <<pool, out_queue, out_tail, used_size, remaining, content,
                       error, cursor, queued, enqueued, wire>>
    BY <1>1 DEF on_output_possible
  <2>2. Consistent(pool, queued, {}) /\ Linked(out_queue, queued, pool.next)
    BY <2>1 DEF QueueHead
  <2>3. queued # <<>>
    BY <2>1, <2>2, HeadIsNull DEF Consistent
  <2>4. TypeOK'
    BY <2>1 DEF TypeOK, PcSet
  <2> QED
    BY <2>1, <2>2, <2>3, <2>4 DEF QueueHead
<1>2. CASE send_stops
  <2>1. pc = "sending" /\ pc' = "ready" /\ error' \in {error, TRUE}
        /\ UNCHANGED <<pool, out_queue, out_tail, used_size, remaining, content,
                       cursor, queued, enqueued, wire>>
    BY <1>2 DEF send_stops
  <2>2. TypeOK'
    BY <2>1 DEF TypeOK, PcSet
  <2> QED
    BY <2>1, <2>2 DEF QueueHead
<1>3. CASE rl_transport_destroy
  <2>1. pc = "ready" /\ pc' = "free_queue" /\ cursor' = out_queue
        /\ UNCHANGED <<pool, out_queue, out_tail, used_size, remaining, content,
                       error, queued, enqueued, wire>>
    BY <1>3 DEF rl_transport_destroy
  <2>2. TypeOK'
    BY <2>1 DEF TypeOK, PcSet
  <2> QED
    BY <2>1, <2>2 DEF QueueHead
<1> QED
  BY <1>1, <1>2, <1>3

LEMMA ListInvStep == ListInv /\ [Next]_vars => ListInv'
<1> SUFFICES ASSUME ListInv, [Next]_vars PROVE ListInv'
  OBVIOUS
<1>1. CASE UNCHANGED vars
  BY <1>1 DEF vars, ListInv, TypeOK, QueueInUse, QueueHead
<1>2. CASE \E sz \in Sizes : enqueue_output_message(sz)
  BY <1>2, EnqueuePreservesLists
<1>3. CASE enqueue_encode_fails
  BY <1>3, EncodeFailurePreservesLists
<1>4. CASE \E n \in 1 .. (IF pc = "sending" THEN remaining[out_queue] ELSE 0) :
             send_some(n)
  <2>1. PICK n \in 1 .. (IF pc = "sending" THEN remaining[out_queue] ELSE 0) :
               send_some(n)
    BY <1>4
  <2>2. pc = "sending"
    BY <2>1 DEF send_some
  <2> QED
    BY <2>1, <2>2, SendPreservesLists
<1>5. CASE on_output_possible \/ send_stops \/ rl_transport_destroy
  BY <1>5, ControlPreservesLists
<1>6. CASE destroy_queue
  BY <1>6, DestroyQueuePreservesLists
<1>7. CASE destroy_pool
  BY <1>7, DestroyPoolPreservesLists
<1> QED
  BY <1>1, <1>2, <1>3, <1>4, <1>5, <1>6, <1>7 DEF Next

(* The inductive invariant implies what the model checker checks. *)
LEMMA ListInvImplies ==
  ListInv => TypeOK /\ ListsWellFormed /\ NoLeakNoDangling /\ PoolBounded
<1> SUFFICES ASSUME ListInv
             PROVE  TypeOK /\ ListsWellFormed /\ NoLeakNoDangling /\ PoolBounded
  OBVIOUS
<1> USE DEF ListInv
<1>1. TypeOK /\ pc \in PcSet
  BY DEF TypeOK
<1>2. CASE pc \in {"ready", "sending", "free_queue"}
  <2>1. Consistent(pool, queued, {}) /\ Linked(QueueHead, queued, pool.next)
    BY <1>2
  <2>2. FreeHead = pool.next_free_buffer
    BY <1>2 DEF FreeHead
  <2>3. ListsWellFormed
    BY <1>2, <2>1, <2>2 DEF ListsWellFormed, Consistent, QueueInUse
  <2>4. NoLeakNoDangling
    BY <1>2, <2>1 DEF NoLeakNoDangling, Consistent
  <2>5. pool.num_free_buffers # 0 => pool.next_free_buffer # NULL
    <3>1. pool.free \in Seq(Bufs) /\ (pool.free = <<>> => Len(pool.free) = 0)
      BY <1>1, EmptySeq DEF TypeOK, PoolType
    <3> QED
      BY <2>1, <3>1, HeadIsNull DEF Consistent
  <2>6. PoolBounded
    BY <2>1, <2>5 DEF PoolBounded, Consistent
  <2> QED
    BY <1>1, <2>3, <2>4, <2>6
<1>3. CASE pc = "free_pool"
  <2>1. FreeHead = cursor
    BY <1>3 DEF FreeHead
  <2> QED
    BY <1>1, <1>3, <2>1, ListedEmpty
    DEF ListsWellFormed, NoLeakNoDangling, PoolBounded
<1>4. CASE pc = "destroyed"
  BY <1>1, <1>4, ListedEmpty DEF ListsWellFormed, NoLeakNoDangling, PoolBounded
<1> QED
  BY <1>1, <1>2, <1>3, <1>4 DEF PcSet

-----------------------------------------------------------------------------
(* The sending half of a transport keeps its types: in particular the       *)
(* offset used_size - remaining handed to send() is never negative.         *)
THEOREM TypeCorrect == Spec => []TypeOK
<1>1. Init => ListInv
  BY ListInvInit
<1>2. ListInv /\ [Next]_vars => ListInv'
  BY ListInvStep
<1>3. ListInv => TypeOK
  BY ListInvImplies
<1> QED
  BY <1>1, <1>2, <1>3, PTL DEF Spec

(* Queue and free list are well formed and disjoint in every state,         *)
(* whatever mix of enqueues, failed encodings and partial writes occurs.    *)
THEOREM ListsAlwaysWellFormed == Spec => []ListsWellFormed
<1>1. Init => ListInv
  BY ListInvInit
<1>2. ListInv /\ [Next]_vars => ListInv'
  BY ListInvStep
<1>3. ListInv => ListsWellFormed
  BY ListInvImplies
<1> QED
  BY <1>1, <1>2, <1>3, PTL DEF Spec

(* No buffer is ever leaked or used after it was freed, and nothing is left *)
(* allocated when rl_transport_destroy returns.                             *)
THEOREM MemorySafe == Spec => []NoLeakNoDangling
<1>1. Init => ListInv
  BY ListInvInit
<1>2. ListInv /\ [Next]_vars => ListInv'
  BY ListInvStep
<1>3. ListInv => NoLeakNoDangling
  BY ListInvImplies
<1> QED
  BY <1>1, <1>2, <1>3, PTL DEF Spec

(* num_free_buffers counts the pooled buffers and respects the limit, for   *)
(* any limit: the assertion in rl_transport_alloc_buffer cannot fail.       *)
THEOREM PoolAlwaysBounded == Spec => []PoolBounded
<1>1. Init => ListInv
  BY ListInvInit
<1>2. ListInv /\ [Next]_vars => ListInv'
  BY ListInvStep
<1>3. ListInv => PoolBounded
  BY ListInvImplies
<1> QED
  BY <1>1, <1>2, <1>3, PTL DEF Spec

-----------------------------------------------------------------------------
(* TransportOut implements ByteStream                                       *)

(* The queued buffers hold the last accepted messages in order, only the    *)
(* first of them may be partly written, and the next byte to be written is  *)
(* the first byte of it that is not.                                        *)
MsgInv ==
  /\ wire # <<>> => wire[Len(wire)].msg \in 1 .. Len(enqueued)
  /\ QueueInUse =>
       /\ Len(queued) <= Len(enqueued)
       /\ \A i \in 1 .. Len(queued) :
            /\ content[queued[i]] = Len(enqueued) - Len(queued) + i
            /\ used_size[queued[i]] = enqueued[content[queued[i]]]
            /\ i # 1 => remaining[queued[i]] = used_size[queued[i]]
       /\ queued # <<>> => remaining[queued[1]] > 0
       /\ Stream!NextByte(enqueued, wire) =
            IF queued = <<>>
              THEN [msg |-> Len(enqueued) + 1, off |-> 0]
              ELSE [msg |-> content[queued[1]], off |-> SendOffset(queued[1])]

LEMMA MsgInvInit == Init => MsgInv
<1> SUFFICES ASSUME Init PROVE MsgInv
  OBVIOUS
<1> QED
  BY DEF Init, MsgInv, QueueInUse, Stream!NextByte

LEMMA EnqueuePreservesMsg ==
  ASSUME ListInv, ListInv', MsgInv, NEW sz \in Sizes, enqueue_output_message(sz)
  PROVE  MsgInv'
<1>1. PICK b \in Bufs :
        /\ MayAlloc(pool, b)
        /\ used_size' = [used_size EXCEPT ![b] = sz]
        /\ content' = [content EXCEPT ![b] = Len(enqueued) + 1]
        /\ rl_transport_add_output_message(rl_transport_alloc_buffer(pool, b), b)
  BY DEF enqueue_output_message
<1>2. /\ pc = "ready" /\ pc' = "ready" /\ enqueued' = Append(enqueued, sz)
      /\ wire' = wire
  BY DEF enqueue_output_message
<1>3. /\ queued' = Append(queued, b)
      /\ remaining' = [remaining EXCEPT ![b] = used_size'[b]]
  BY <1>1 DEF rl_transport_add_output_message
<1>4. /\ queued \in Seq(Bufs) /\ enqueued \in Seq(Sizes)
      /\ used_size \in [Bufs -> Nat] /\ remaining \in [Bufs -> Nat]
      /\ content \in [Bufs -> Nat] /\ sz \in Nat
      /\ wire \in Seq([msg : Nat, from : Nat, len : Nat])
  BY SizesAssumption DEF ListInv, TypeOK
<1>5. b \notin Listed(queued)
  <2>1. Consistent(pool, queued, {}) /\ Linked(out_queue, queued, pool.next)
    BY <1>2 DEF ListInv, QueueHead
  <2> QED
    BY <1>1, <2>1, AllocBuffer DEF Consistent
<1>6. /\ Len(queued) \in Nat /\ Len(enqueued) \in Nat
      /\ Len(queued') = Len(queued) + 1 /\ Len(enqueued') = Len(enqueued) + 1
      /\ \A i \in 1 .. Len(queued) : queued'[i] = queued[i]
      /\ queued'[Len(queued) + 1] = b
      /\ \A i \in 1 .. Len(enqueued) : enqueued'[i] = enqueued[i]
      /\ enqueued'[Len(enqueued) + 1] = sz
  BY <1>2, <1>3, <1>4, AppendProperties, LenProperties
<1>7. \A i \in 1 .. Len(queued) : queued[i] \in Bufs /\ queued[i] # b
  BY <1>4, <1>5, ElementOfSeq DEF Listed
<1>8. /\ used_size'[b] = sz /\ content'[b] = Len(enqueued) + 1 /\ remaining'[b] = sz
      /\ \A c \in Bufs : c # b => /\ used_size'[c] = used_size[c]
                                  /\ content'[c] = content[c]
                                  /\ remaining'[c] = remaining[c]
  BY <1>1, <1>3, <1>4
<1>9. wire # <<>> => wire[Len(wire)].msg \in 1 .. Len(enqueued)
  BY DEF MsgInv
<1>10. /\ Len(queued) <= Len(enqueued)
       /\ \A i \in 1 .. Len(queued) :
            /\ content[queued[i]] = Len(enqueued) - Len(queued) + i
            /\ used_size[queued[i]] = enqueued[content[queued[i]]]
            /\ i # 1 => remaining[queued[i]] = used_size[queued[i]]
       /\ queued # <<>> => remaining[queued[1]] > 0
  BY <1>2 DEF MsgInv, QueueInUse
<1>11. ASSUME NEW i \in 1 .. Len(queued')
       PROVE  /\ content'[queued'[i]] = Len(enqueued') - Len(queued') + i
              /\ used_size'[queued'[i]] = enqueued'[content'[queued'[i]]]
              /\ i # 1 => remaining'[queued'[i]] = used_size'[queued'[i]]
  <2>1. CASE i = Len(queued) + 1
    BY <1>6, <1>8, <2>1
  <2>2. CASE i \in 1 .. Len(queued)
    <3>1. content[queued[i]] \in 1 .. Len(enqueued)
      BY <1>6, <1>10, <2>2
    <3>2. queued'[i] = queued[i] /\ queued[i] \in Bufs /\ queued[i] # b
      BY <1>6, <1>7, <2>2
    <3>3. /\ content'[queued[i]] = content[queued[i]]
          /\ used_size'[queued[i]] = used_size[queued[i]]
          /\ remaining'[queued[i]] = remaining[queued[i]]
      BY <1>8, <3>2
    <3>4. enqueued'[content[queued[i]]] = enqueued[content[queued[i]]]
      BY <1>6, <3>1
    <3> QED
      BY <1>6, <1>10, <2>2, <3>2, <3>3, <3>4
  <2> QED
    BY <1>6, <2>1, <2>2
<1>12. queued' # <<>> /\ remaining'[queued'[1]] > 0
  <2>1. queued' # <<>>
    BY <1>3, <1>4, SMTT(30)
  <2>2. CASE queued = <<>>
    BY <1>6, <1>8, <2>1, <2>2, SizesAssumption, EmptySeq
  <2>3. CASE queued # <<>>
    <3>1. 1 \in 1 .. Len(queued)
      BY <1>4, <1>6, <2>3, EmptySeq
    <3> QED
      BY <1>6, <1>7, <1>8, <1>10, <2>1, <2>3, <3>1
  <2> QED
    BY <2>2, <2>3
<1>13. Stream!NextByte(enqueued', wire') = Stream!NextByte(enqueued, wire)
  BY <1>2, <1>6, <1>9 DEF Stream!NextByte
<1>14. Stream!NextByte(enqueued', wire') =
         [msg |-> content'[queued'[1]], off |-> SendOffset(queued[1])']
  <2>1. CASE queued = <<>>
    <3>1. queued'[1] = b
      BY <1>6, <2>1, EmptySeq
    <3>2. SendOffset(queued[1])' = 0
      BY <1>4, <1>8, <3>1 DEF SendOffset
    <3>3. Stream!NextByte(enqueued, wire) = [msg |-> Len(enqueued) + 1, off |-> 0]
      BY <1>2, <2>1 DEF MsgInv, QueueInUse
    <3> QED
      BY <1>8, <1>13, <3>1, <3>2, <3>3
  <2>2. CASE queued # <<>>
    <3>1. 1 \in 1 .. Len(queued)
      BY <1>4, <1>6, <2>2, EmptySeq
    <3>2. queued'[1] = queued[1] /\ content'[queued[1]] = content[queued[1]]
      BY <1>6, <1>7, <1>8, <3>1
    <3>3. SendOffset(queued[1])' = SendOffset(queued[1])
      BY <1>6, <1>7, <1>8, <3>1 DEF SendOffset
    <3>4. Stream!NextByte(enqueued, wire) =
            [msg |-> content[queued[1]], off |-> SendOffset(queued[1])]
      BY <1>2, <2>2 DEF MsgInv, QueueInUse
    <3> QED
      BY <1>13, <3>2, <3>3, <3>4
  <2> QED
    BY <2>1, <2>2
<1>15. wire' # <<>> => wire'[Len(wire')].msg \in 1 .. Len(enqueued')
  BY <1>2, <1>6, <1>9
<1> QED
  BY <1>6, <1>10, <1>11, <1>12, <1>14, <1>15 DEF MsgInv

(* A successful send() writes the next byte and those that follow it. *)
LEMMA SendPreservesMsg ==
  ASSUME ListInv, MsgInv, NEW n \in 1 .. remaining[out_queue], send_some(n)
  PROVE  /\ MsgInv'
         /\ n \in Stream!Unwritten(enqueued, wire)
         /\ Stream!Write(n)
<1> DEFINE c == [msg |-> content[out_queue], from |-> SendOffset(out_queue), len |-> n]
<1>1. /\ pc = "sending" /\ queued # <<>>
      /\ wire' = Append(wire, c)
      /\ remaining' = [remaining EXCEPT ![out_queue] = remaining[out_queue] - n]
      /\ UNCHANGED <<used_size, content, enqueued>>
      /\ pc' \in {"ready", "sending"}
  BY DEF send_some, ListInv
<1>2. /\ queued \in Seq(Bufs) /\ enqueued \in Seq(Sizes)
      /\ used_size \in [Bufs -> Nat] /\ remaining \in [Bufs -> Nat]
      /\ content \in [Bufs -> Nat]
      /\ wire \in Seq([msg : Nat, from : Nat, len : Nat])
  BY DEF ListInv, TypeOK
<1>3. Linked(out_queue, queued, pool.next) /\ Distinct(queued)
  BY <1>1 DEF ListInv, QueueHead, Consistent
<1>4. /\ out_queue = queued[1] /\ out_queue \in Bufs /\ Len(queued) \in Nat \ {0}
      /\ Tail(queued) \in Seq(Bufs) /\ Len(Tail(queued)) = Len(queued) - 1
      /\ \A i \in 1 .. Len(queued) - 1 : Tail(queued)[i] = queued[i + 1]
  BY <1>1, <1>2, <1>3, PopFront DEF Linked
<1>5. Len(enqueued) \in Nat /\ Len(wire) \in Nat
  BY <1>2, LenProperties
<1>6. /\ Len(queued) <= Len(enqueued)
      /\ \A i \in 1 .. Len(queued) :
            /\ content[queued[i]] = Len(enqueued) - Len(queued) + i
            /\ used_size[queued[i]] = enqueued[content[queued[i]]]
            /\ i # 1 => remaining[queued[i]] = used_size[queued[i]]
      /\ Stream!NextByte(enqueued, wire) =
           [msg |-> content[out_queue], off |-> SendOffset(out_queue)]
  BY <1>1, <1>4 DEF MsgInv, QueueInUse
<1>7. /\ content[out_queue] = Len(enqueued) - Len(queued) + 1
      /\ content[out_queue] \in 1 .. Len(enqueued)
      /\ used_size[out_queue] = enqueued[content[out_queue]]
  BY <1>4, <1>5, <1>6
<1>8. /\ used_size[out_queue] \in Nat /\ remaining[out_queue] \in Nat
      /\ remaining[out_queue] <= used_size[out_queue]
      /\ n \in Nat /\ 1 <= n /\ n <= remaining[out_queue]
  BY <1>2, <1>4 DEF ListInv
<1>9. /\ wire' # <<>> /\ wire'[Len(wire')] = c
  <2>1. content[out_queue] \in Nat /\ SendOffset(out_queue) \in Nat
    BY <1>2, <1>4, <1>8 DEF SendOffset
  <2>2. c \in [msg : Nat, from : Nat, len : Nat]
    BY <1>8, <2>1
  <2> HIDE DEF c
  <2>3. Len(wire') = Len(wire) + 1 /\ wire'[Len(wire) + 1] = c
    BY <1>1, <1>2, <2>2, AppendProperties
  <2> QED
    BY <1>5, <2>3
<1>10. n \in Stream!Unwritten(enqueued, wire)
  <2>1. enqueued[content[out_queue]] - SendOffset(out_queue) = remaining[out_queue]
    BY <1>7, <1>8 DEF SendOffset
  <2> QED
    BY <1>6, <1>7, <1>8, <2>1 DEF Stream!Unwritten
<1>11. Stream!Write(n)
  BY <1>1, <1>6 DEF Stream!Write
<1>12. Stream!NextByte(enqueued, wire') =
         IF remaining[out_queue] = n
           THEN [msg |-> content[out_queue] + 1, off |-> 0]
           ELSE [msg |-> content[out_queue], off |-> SendOffset(out_queue) + n]
  <2>1. c.from + c.len = enqueued[c.msg] <=> remaining[out_queue] = n
    BY <1>7, <1>8 DEF SendOffset
  <2> QED
    BY <1>9, <2>1 DEF Stream!NextByte
<1>13. wire'[Len(wire')].msg \in 1 .. Len(enqueued')
  BY <1>1, <1>7, <1>9
<1>14. remaining'[out_queue] = remaining[out_queue] - n
       /\ \A b \in Bufs : b # out_queue => remaining'[b] = remaining[b]
  BY <1>1, <1>2, <1>4
<1>15. \A i \in 1 .. Len(queued) : i # 1 => queued[i] \in Bufs /\ queued[i] # out_queue
  BY <1>2, <1>3, <1>4, ElementOfSeq DEF Distinct
<1>16. CASE remaining[out_queue] # n
  <2>1. queued' = queued
    BY <1>16 DEF send_some
  <2>2. \A i \in 1 .. Len(queued) :
            /\ content'[queued[i]] = Len(enqueued) - Len(queued) + i
            /\ used_size'[queued[i]] = enqueued[content[queued[i]]]
            /\ i # 1 => remaining'[queued[i]] = used_size'[queued[i]]
    BY <1>1, <1>6, <1>14, <1>15
  <2>3. remaining'[queued[1]] > 0
    BY <1>4, <1>8, <1>14, <1>16
  <2>4. (SendOffset(queued[1]))' = SendOffset(out_queue) + n
    BY <1>1, <1>4, <1>8, <1>14, <2>1 DEF SendOffset
  <2>5. Stream!NextByte(enqueued', wire') =
           [msg |-> content'[queued'[1]], off |-> (SendOffset(queued[1]))']
    BY <1>1, <1>4, <1>12, <1>16, <2>1, <2>4
  <2>6. MsgInv'
    BY <1>1, <1>6, <1>13, <2>1, <2>2, <2>3, <2>5 DEF MsgInv
  <2> QED
    BY <1>10, <1>11, <2>6
<1>17. CASE remaining[out_queue] = n
  <2>1. queued' = Tail(queued)
    BY <1>17 DEF send_some
  <2>2. Len(queued') = Len(queued) - 1 /\ (queued' = <<>> <=> Len(queued') = 0)
    BY <1>4, <2>1, EmptySeq
  <2>3. ASSUME NEW i \in 1 .. Len(queued')
        PROVE  /\ content'[queued'[i]] = Len(enqueued') - Len(queued') + i
               /\ used_size'[queued'[i]] = enqueued'[content'[queued'[i]]]
               /\ remaining'[queued'[i]] = used_size'[queued'[i]]
    <3>1. i + 1 \in 1 .. Len(queued) /\ i + 1 # 1 /\ queued'[i] = queued[i + 1]
      BY <1>4, <2>1, <2>2
    <3>2. queued[i + 1] \in Bufs /\ queued[i + 1] # out_queue
      BY <1>15, <3>1
    <3>3. remaining'[queued[i + 1]] = remaining[queued[i + 1]]
      BY <1>14, <3>2
    <3>4. /\ content[queued[i + 1]] = Len(enqueued) - Len(queued) + (i + 1)
          /\ used_size[queued[i + 1]] = enqueued[content[queued[i + 1]]]
          /\ remaining[queued[i + 1]] = used_size[queued[i + 1]]
      BY <1>6, <3>1
    <3> QED
      BY <1>1, <1>4, <1>5, <2>2, <3>1, <3>3, <3>4
  <2>4. CASE queued' = <<>>
    <3>0. Len(queued') = 0 /\ Len(queued) = 1
      <4>1. Len(queued') = 0
        BY <2>2, <2>4
      <4> QED
        BY <1>4, <2>2, <4>1
    <3>1. Stream!NextByte(enqueued', wire') = [msg |-> Len(enqueued') + 1, off |-> 0]
      <4>1. content[out_queue] = Len(enqueued)
        BY <1>5, <1>7, <3>0
      <4> QED
        BY <1>1, <1>12, <1>17, <4>1
    <3>2. 1 .. Len(queued') = {} /\ Len(queued') <= Len(enqueued')
      BY <1>1, <1>5, <3>0
    <3>3. MsgInv'
      BY <1>13, <2>4, <3>1, <3>2 DEF MsgInv
    <3> QED
      BY <1>10, <1>11, <3>3
  <2>5. CASE queued' # <<>>
    <3>1. 1 \in 1 .. Len(queued')
      BY <1>4, <2>2, <2>5
    <3>2. content'[queued'[1]] = content[out_queue] + 1
      BY <1>1, <1>4, <1>5, <1>7, <2>2, <2>3, <3>1
    <3>3. queued'[1] \in Bufs
      BY <1>4, <2>1, <2>5, PopFront
    <3>4. (SendOffset(queued[1]))' = 0
      BY <1>1, <1>2, <2>3, <3>1, <3>3, SMTT(30) DEF SendOffset
    <3>5. remaining'[queued'[1]] > 0
      <4>1. used_size'[queued'[1]] = enqueued'[content'[queued'[1]]]
            /\ remaining'[queued'[1]] = used_size'[queued'[1]]
        BY <2>3, <3>1
      <4>2. content'[queued'[1]] \in 1 .. Len(enqueued)
        BY <1>4, <1>5, <1>6, <1>7, <2>2, <3>1, <3>2
      <4>3. enqueued[content'[queued'[1]]] \in Sizes
        BY <1>2, <4>2, ElementOfSeq
      <4>4. remaining'[queued'[1]] \in Sizes
        BY <1>1, <4>1, <4>3
      <4>5. remaining'[queued'[1]] \in Nat \ {0}
        BY <4>4, SizesAssumption
      <4> QED
        BY <4>5
    <3>6. Stream!NextByte(enqueued', wire') =
            [msg |-> content'[queued'[1]], off |-> (SendOffset(queued[1]))']
      BY <1>1, <1>12, <1>17, <3>2, <3>4
    <3>7. Len(queued') <= Len(enqueued')
      BY <1>1, <1>4, <1>5, <1>6, <2>2
    <3>8. MsgInv'
      BY <1>1, <1>13, <2>3, <2>5, <3>5, <3>6, <3>7 DEF MsgInv
    <3> QED
      BY <1>10, <1>11, <3>8
  <2> QED
    BY <2>4, <2>5
<1> QED
  BY <1>16, <1>17

(* A step that leaves the messages and the queue alone, or closes it. *)
LEMMA OtherStepsPreserveMsg ==
  ASSUME MsgInv, queued \in Seq(Bufs),
         UNCHANGED <<queued, used_size, remaining, enqueued, wire>>,
         content' = content \/ \A i \in 1 .. Len(queued) :
                                  content'[queued[i]] = content[queued[i]],
         QueueInUse' => QueueInUse
  PROVE  MsgInv'
<1>1. \A i \in 1 .. Len(queued) : content'[queued[i]] = content[queued[i]]
  OBVIOUS
<1>2. wire # <<>> => wire[Len(wire)].msg \in 1 .. Len(enqueued)
  BY DEF MsgInv
<1>3. CASE ~QueueInUse'
  BY <1>2, <1>3 DEF MsgInv
<1>4. CASE QueueInUse' /\ queued = <<>>
  BY <1>2, <1>4 DEF MsgInv
<1>5. CASE QueueInUse' /\ queued # <<>>
  <2>1. SendOffset(queued[1])' = SendOffset(queued[1])
    BY DEF SendOffset
  <2>2. QueueInUse /\ \A i \in 1 .. Len(queued) :
            /\ content[queued[i]] = Len(enqueued) - Len(queued) + i
            /\ used_size[queued[i]] = enqueued[content[queued[i]]]
    BY <1>5 DEF MsgInv
  <2>3. content'[queued[1]] = content[queued[1]]
    <3>1. Len(queued) \in Nat \ {0}
      BY <1>5, PopFront
    <3>2. 1 \in 1 .. Len(queued)
      BY <3>1
    <3> QED
      BY <1>1, <3>2
  <2>4. Stream!NextByte(enqueued', wire') =
          [msg |-> content'[queued[1]], off |-> SendOffset(queued[1])']
    BY <1>5, <2>1, <2>2, <2>3 DEF MsgInv
  <2>5. /\ Len(queued) <= Len(enqueued) /\ remaining[queued[1]] > 0
        /\ \A i \in 1 .. Len(queued) :
             i # 1 => remaining[queued[i]] = used_size[queued[i]]
    BY <1>5, <2>2 DEF MsgInv
  <2> QED
    BY <1>1, <1>2, <1>5, <2>2, <2>4, <2>5 DEF MsgInv
<1> QED
  BY <1>3, <1>4, <1>5

LEMMA RefinementInit == Init => Stream!Init
  BY DEF Init, Stream!Init

(* Every step keeps MsgInv and is a step of ByteStream or changes nothing   *)
(* that ByteStream sees.                                                    *)
LEMMA RefinementStep ==
  ListInv /\ ListInv' /\ MsgInv /\ [Next]_vars
    => MsgInv' /\ [Stream!Next]_(Stream!bsvars)
<1> SUFFICES ASSUME ListInv, ListInv', MsgInv, [Next]_vars
             PROVE  MsgInv' /\ [Stream!Next]_(Stream!bsvars)
  OBVIOUS
<1> USE DEF QueueInUse
<1>0. queued \in Seq(Bufs)
  BY DEF ListInv, TypeOK
<1>1. CASE UNCHANGED vars
  <2>1. MsgInv'
    BY <1>0, <1>1, OtherStepsPreserveMsg DEF vars
  <2>2. UNCHANGED Stream!bsvars
    BY <1>1 DEF vars, Stream!bsvars
  <2> QED
    BY <2>1, <2>2
<1>2. CASE \E sz \in Sizes : enqueue_output_message(sz)
  <2>1. PICK sz \in Sizes : enqueue_output_message(sz)
    BY <1>2
  <2>2. MsgInv'
    BY <2>1, EnqueuePreservesMsg
  <2>3. Stream!Accept(sz)
    BY <2>1 DEF Stream!Accept, enqueue_output_message
  <2> QED
    BY <2>2, <2>3 DEF Stream!Next
<1>3. CASE enqueue_encode_fails
  <2>1. PICK b \in Bufs :
          MayAlloc(pool, b) /\ content' = [content EXCEPT ![b] = 0]
    BY <1>3 DEF enqueue_encode_fails
  <2>2. pc = "ready"
        /\ UNCHANGED <<used_size, remaining, pc, queued, enqueued, wire>>
    BY <1>3 DEF enqueue_encode_fails
  <2>3. Consistent(pool, queued, {}) /\ Linked(out_queue, queued, pool.next)
    BY <2>2 DEF ListInv, QueueHead
  <2>4. b \notin Listed(queued)
    BY <2>1, <2>3, AllocBuffer DEF Consistent
  <2>5. \A i \in 1 .. Len(queued) : content'[queued[i]] = content[queued[i]]
    <3>1. \A i \in 1 .. Len(queued) : queued[i] \in Bufs /\ queued[i] # b
      BY <1>0, <2>4, ElementOfSeq DEF Listed
    <3> QED
      BY <2>1, <3>1 DEF ListInv, TypeOK
  <2>6. MsgInv'
    BY <1>0, <2>2, <2>5, OtherStepsPreserveMsg
  <2>7. UNCHANGED Stream!bsvars
    BY <2>2 DEF Stream!bsvars
  <2> QED
    BY <2>6, <2>7
<1>4. CASE \E n \in 1 .. (IF pc = "sending" THEN remaining[out_queue] ELSE 0) :
             send_some(n)
  <2>1. PICK n \in 1 .. (IF pc = "sending" THEN remaining[out_queue] ELSE 0) :
               send_some(n)
    BY <1>4
  <2>2. pc = "sending"
    BY <2>1 DEF send_some
  <2>3. MsgInv' /\ n \in Stream!Unwritten(enqueued, wire) /\ Stream!Write(n)
    BY <2>1, <2>2, SendPreservesMsg
  <2> QED
    BY <2>3 DEF Stream!Next
<1>5. CASE on_output_possible \/ send_stops
  <2>1. /\ pc \in {"ready", "sending"} /\ pc' \in {"ready", "sending"}
        /\ UNCHANGED <<used_size, remaining, content, queued, enqueued, wire>>
    BY <1>5 DEF on_output_possible, send_stops
  <2>2. MsgInv'
    BY <1>0, <2>1, OtherStepsPreserveMsg
  <2>3. UNCHANGED Stream!bsvars
    BY <2>1 DEF Stream!bsvars
  <2> QED
    BY <2>2, <2>3
<1>6. CASE rl_transport_destroy
  <2>1. /\ pc = "ready" /\ pc' = "free_queue"
        /\ UNCHANGED <<used_size, remaining, content, queued, enqueued, wire>>
    BY <1>6 DEF rl_transport_destroy
  <2>2. MsgInv'
    BY <1>0, <2>1, OtherStepsPreserveMsg
  <2>3. Stream!Close
    BY <2>1 DEF Stream!Close
  <2> QED
    BY <2>2, <2>3 DEF Stream!Next
<1>7. CASE destroy_queue \/ destroy_pool
  <2>1. /\ pc \in {"free_queue", "free_pool"}
        /\ pc' \in {"free_queue", "free_pool", "destroyed"}
        /\ UNCHANGED <<enqueued, wire>>
    BY <1>7 DEF destroy_queue, destroy_pool
  <2>2. MsgInv'
    BY <2>1 DEF MsgInv
  <2>3. UNCHANGED Stream!bsvars
    BY <2>1 DEF Stream!bsvars
  <2> QED
    BY <2>2, <2>3
<1> QED
  BY <1>1, <1>2, <1>3, <1>4, <1>5, <1>6, <1>7 DEF Next

(* The output queue implements a byte stream: whatever the partial writes   *)
(* and the reuse of buffers, the socket is given the bytes of the accepted  *)
(* messages in order and each of them once.                                 *)
THEOREM ImplementsByteStream == Spec => StreamSpec
<1>1. Init => ListInv /\ MsgInv /\ Stream!Init
  BY ListInvInit, MsgInvInit, RefinementInit
<1>2. ListInv /\ [Next]_vars => ListInv'
  BY ListInvStep
<1>3. ListInv /\ ListInv' /\ MsgInv /\ [Next]_vars
        => MsgInv' /\ [Stream!Next]_(Stream!bsvars)
  BY RefinementStep
<1> QED
  BY <1>1, <1>2, <1>3, PTL DEF Spec, StreamSpec
=============================================================================
