---------------------------- MODULE StreamProofs ----------------------------
(***************************************************************************)
(* The stream neither loses nor doubles a node and is a first-in first-out *)
(* queue, stream->length counts its nodes, and a pop that waits returns a  *)
(* node: proofs for any number of enqueuers, poppers and nodes.            *)
(***************************************************************************)
EXTENDS Stream, Facts, FiniteSetTheorems

(***************************************************************************)
(* The inductive invariant.  That no node is doubled depends on in_queue   *)
(* being moved only into an empty out_queue by one thread at a time, hence *)
(* on who has the lock and on what the holder of the lock has seen.        *)
(***************************************************************************)

EnqueueLabels == {"idle", "read", "push", "count", "look", "signal"}

PopLabels ==
  {"idle", "test", "block", "blocked", "woken", "leave", "head", "grab", "take", "popped"}

\* The values the variables take.
Types ==
  /\ wait \in BOOLEAN
  /\ pc \in [Threads -> EnqueueLabels \cup PopLabels]
  /\ \A t \in Enqueuers : pc[t] \in EnqueueLabels
  /\ \A t \in Poppers : pc[t] \in PopLabels
  /\ held \in [Threads -> Nodes \cup {NULL}]
  /\ expected \in [Threads -> Nodes \cup {NULL}]
  /\ in_queue \in Seq(Nodes)
  /\ out_queue \in Seq(Nodes)
  /\ length \in Int
  /\ empty \in Nat
  /\ lock \in Poppers \cup {NoThread}

\* A popper has the lock from its first test until it has taken a node, except
\* while it sleeps.
LockHolder ==
  \A t \in Poppers :
    lock = t <=> pc[t] \in {"test", "block", "leave", "head", "grab", "take"}

\* A thread holds a node while it enqueues it, or after it was handed one.
Holding ==
  /\ \A t \in Enqueuers : held[t] # NULL <=> pc[t] \in {"read", "push"}
  /\ \A t \in Poppers : held[t] # NULL <=> pc[t] = "popped"

\* EachNodeOnce, list by list.
Apart ==
  /\ \A i, j \in 1..Len(in_queue) : in_queue[i] = in_queue[j] => i = j
  /\ \A i, j \in 1..Len(out_queue) : out_queue[i] = out_queue[j] => i = j
  /\ \A i \in 1..Len(in_queue), j \in 1..Len(out_queue) : in_queue[i] # out_queue[j]
  /\ \A t \in Threads : \A i \in 1..Len(in_queue) : in_queue[i] # held[t]
  /\ \A t \in Threads : \A i \in 1..Len(out_queue) : out_queue[i] # held[t]
  /\ \A s, t \in Threads : held[s] = held[t] /\ held[s] # NULL => s = t

\* in_queue is swapped out only when out_queue is empty, and only when it was
\* seen not to be empty itself.
Refill ==
  \A t \in Poppers :
    /\ pc[t] \in {"head", "grab"} => out_queue = <<>>
    /\ pc[t] = "grab" => expected[t] # NULL

IInv ==
  /\ Types
  /\ LockHolder
  /\ Holding
  /\ Apart
  /\ Refill

-----------------------------------------------------------------------------
(* Facts about the lists and the threads. *)

\* Reversing keeps the elements and turns their order round.
LEMMA ReversedFacts ==
  ASSUME NEW S, NEW s \in Seq(S)
  PROVE  /\ Reversed(s) \in Seq(S)
         /\ Len(Reversed(s)) = Len(s)
         /\ \A i \in 1..Len(s) : Reversed(s)[i] = s[Len(s) - i + 1]
BY DEF Reversed

\* A node pushed in front of a list is the last one of the reversed list.
LEMMA ReversedPush ==
  ASSUME NEW S, NEW s \in Seq(S), NEW e \in S
  PROVE  Reversed(<<e>> \o s) = Append(Reversed(s), e)
BY DEF Reversed

\* A list followed by a reversed one: its length,
LEMMA ConcatReversed ==
  ASSUME NEW S, NEW s \in Seq(S), NEW r \in Seq(S)
  PROVE  /\ s \o Reversed(r) \in Seq(S)
         /\ Len(s \o Reversed(r)) = Len(s) + Len(r)
<1>1. Reversed(r) \in Seq(S) /\ Len(Reversed(r)) = Len(r)
  BY ReversedFacts
<1> QED
  BY <1>1

\* and what is not in it.
LEMMA ConcatWithout ==
  ASSUME NEW S, NEW s \in Seq(S), NEW r \in Seq(S), NEW e,
         \A i \in 1..Len(s) : s[i] # e,
         \A i \in 1..Len(r) : r[i] # e,
         NEW i \in 1..Len(s \o Reversed(r))
  PROVE  (s \o Reversed(r))[i] # e
<1>1. /\ Reversed(r) \in Seq(S) /\ Len(Reversed(r)) = Len(r)
      /\ \A k \in 1..Len(r) : Reversed(r)[k] = r[Len(r) - k + 1]
  BY ReversedFacts
<1>2. i \in 1..(Len(s) + Len(r))
  BY ConcatReversed
<1>3. CASE i <= Len(s)
  BY <1>1, <1>2, <1>3
<1>4. CASE ~(i <= Len(s))
  <2>1. /\ i - Len(s) \in 1..Len(r)
        /\ Len(r) - (i - Len(s)) + 1 \in 1..Len(r)
    BY <1>2, <1>4
  <2>2. (s \o Reversed(r))[i] = Reversed(r)[i - Len(s)]
    BY <1>1, <1>2, <1>4
  <2> QED
    BY <1>1, <2>1, <2>2, Zenon
<1> QED
  BY <1>3, <1>4

\* The stream from its oldest node to its newest.
LEMMA QueueFacts ==
  ASSUME Types
  PROVE  /\ Reversed(in_queue) \in Seq(Nodes)
         /\ Queue \in Seq(Nodes)
         /\ Len(Queue) = Len(out_queue) + Len(in_queue)
BY ReversedFacts, ConcatReversed DEF Types, Queue

\* No enqueuer is a popper, so a step of one leaves the labels of the other.
LEMMA Kinds ==
  /\ \A t \in Enqueuers : t \in Threads /\ t \notin Poppers
  /\ \A t \in Poppers : t \in Threads /\ t \notin Enqueuers /\ t # NoThread
  /\ Threads = Enqueuers \cup Poppers
  /\ NULL \notin Nodes
BY StreamAssumption DEF Threads

\* The lengths of the lists are natural numbers.
LEMMA Lengths ==
  ASSUME Types
  PROVE  Len(in_queue) \in Nat /\ Len(out_queue) \in Nat
BY DEF Types

\* The initial state.
LEMMA InitInv == Init => IInv
<1> SUFFICES ASSUME Init PROVE IInv
  OBVIOUS
<1>1. Types
  BY StreamAssumption, SeqEmpty, Kinds DEF Init, Types, EnqueueLabels, PopLabels
<1>2. LockHolder /\ Holding
  BY Kinds DEF Init, LockHolder, Holding
<1>3. Apart /\ Refill
  BY SeqEmpty, Kinds DEF Init, Apart, Refill
<1> QED
  BY <1>1, <1>2, <1>3 DEF IInv

-----------------------------------------------------------------------------
(* stream_enqueue *)

\* A thread takes a free node to enqueue it.
LEMMA EnqueueInv ==
  ASSUME IInv, NEW t \in Enqueuers, Enqueue(t)
  PROVE  IInv'
<1> USE DEF Enqueue, Goto, locals, queues, counters
<1>1. PICK node \in Free : held' = [held EXCEPT ![t] = node]
  BY Zenon
<1>2. /\ node \in Nodes
      /\ \A i \in 1..Len(in_queue) : in_queue[i] # node
      /\ \A i \in 1..Len(out_queue) : out_queue[i] # node
      /\ \A s \in Threads : held[s] # node
  BY Zenon DEF Free, Members
<1>3. Types'
  BY <1>1, <1>2, Kinds DEF IInv, Types, EnqueueLabels
<1>4. LockHolder' /\ Holding'
  BY <1>1, <1>2, Kinds, SMTT(30) DEF IInv, LockHolder, Holding, Types
<1>5. Apart' /\ Refill'
  BY <1>1, <1>2, Kinds, SMTT(30) DEF IInv, Apart, Refill, Types
<1> QED
  BY <1>3, <1>4, <1>5 DEF IInv

\* It reads the first node of in_queue.
LEMMA ReadInInv ==
  ASSUME IInv, NEW t \in Enqueuers, ReadIn(t)
  PROVE  IInv'
<1> USE DEF ReadIn, Goto, locals, queues, counters
<1>1. Types'
  BY Kinds DEF IInv, Types, EnqueueLabels, First
<1>2. LockHolder' /\ Holding'
  BY Kinds DEF IInv, LockHolder, Holding, Types
<1>3. Apart' /\ Refill'
  BY Kinds DEF IInv, Apart, Refill, Types
<1> QED
  BY <1>1, <1>2, <1>3 DEF IInv

\* Its swap succeeds.
LEMMA PushInv ==
  ASSUME IInv, NEW t \in Enqueuers, Push(t)
  PROVE  IInv'
<1>1. /\ held[t] \in Nodes
      /\ in_queue' = <<held[t]>> \o in_queue
      /\ held' = [held EXCEPT ![t] = NULL]
      /\ out_queue' = out_queue
  BY Kinds DEF IInv, Push, Holding, Types
<1>2. /\ in_queue' \in Seq(Nodes)
      /\ Len(in_queue') = Len(in_queue) + 1
      /\ \A i \in 1..Len(in_queue') :
           IF i = 1 THEN in_queue'[i] = held[t]
                    ELSE i - 1 \in 1..Len(in_queue) /\ in_queue'[i] = in_queue[i - 1]
  BY <1>1 DEF IInv, Types
<1>3. \A s \in Threads : held'[s] = IF s = t THEN NULL ELSE held[s]
  BY <1>1 DEF IInv, Types
<1>4. Types' /\ LockHolder' /\ Holding' /\ Refill'
  <2>1. Types'
    BY <1>2, Kinds DEF IInv, Push, Goto, counters, Types, EnqueueLabels
  <2>2. LockHolder' /\ Holding' /\ Refill'
    BY Kinds DEF IInv, Push, Goto, LockHolder, Holding, Refill, Types
  <2> QED
    BY <2>1, <2>2
<1>5. \A i, j \in 1..Len(in_queue') : in_queue'[i] = in_queue'[j] => i = j
  <2> SUFFICES ASSUME NEW i \in 1..Len(in_queue'), NEW j \in 1..Len(in_queue'),
                      in_queue'[i] = in_queue'[j], i # j
               PROVE  FALSE
    OBVIOUS
  <2>1. CASE i # 1 /\ j # 1
    <3>1. in_queue[i - 1] = in_queue[j - 1] => i - 1 = j - 1
      BY <1>2, <2>1 DEF IInv, Apart
    <3> QED
      BY <1>2, <2>1, <3>1, SMTT(30)
  <2>2. CASE i = 1 \/ j = 1
    BY <1>2, <2>2, Kinds DEF IInv, Apart
  <2> QED
    BY <2>1, <2>2
<1>6. \A i \in 1..Len(in_queue'), j \in 1..Len(out_queue) : in_queue'[i] # out_queue[j]
  <2> SUFFICES ASSUME NEW i \in 1..Len(in_queue'), NEW j \in 1..Len(out_queue)
               PROVE  in_queue'[i] # out_queue[j]
    OBVIOUS
  <2>1. /\ \A k \in 1..Len(in_queue) : in_queue[k] # out_queue[j]
        /\ held[t] # out_queue[j]
    BY Kinds DEF IInv, Apart
  <2> QED
    BY <1>2, <2>1
<1>7. \A s \in Threads : \A i \in 1..Len(in_queue') : in_queue'[i] # held'[s]
  <2> SUFFICES ASSUME NEW s \in Threads, NEW i \in 1..Len(in_queue')
               PROVE  in_queue'[i] # held'[s]
    OBVIOUS
  <2>1. CASE s = t
    BY <1>2, <1>3, <2>1, Kinds, SMTT(30)
  <2>2. CASE s # t
    BY <1>1, <1>2, <1>3, <2>2, Kinds, SMTT(30) DEF IInv, Apart
  <2> QED
    BY <2>1, <2>2
<1>8. /\ \A s \in Threads : \A i \in 1..Len(out_queue) : out_queue[i] # held'[s]
      /\ \A r, s \in Threads : held'[r] = held'[s] /\ held'[r] # NULL => r = s
  BY <1>3, Kinds DEF IInv, Apart, Types
<1>9. Apart'
  BY <1>1, <1>5, <1>6, <1>7, <1>8, SMTT(30) DEF IInv, Apart
<1> QED
  BY <1>4, <1>9 DEF IInv

\* Its swap fails.
LEMMA PushFailsInv ==
  ASSUME IInv, NEW t \in Enqueuers, PushFails(t)
  PROVE  IInv'
<1> USE DEF PushFails, Goto, locals, queues, counters
<1>1. Types'
  BY Kinds DEF IInv, Types, EnqueueLabels
<1>2. LockHolder' /\ Holding'
  BY Kinds DEF IInv, LockHolder, Holding, Types
<1>3. Apart' /\ Refill'
  BY Kinds DEF IInv, Apart, Refill, Types
<1> QED
  BY <1>1, <1>2, <1>3 DEF IInv

\* It counts the node,
LEMMA CountInv ==
  ASSUME IInv, NEW t \in Enqueuers, Count(t)
  PROVE  IInv'
<1> USE DEF Count, Goto, locals, queues, counters
<1>1. Types'
  BY Kinds DEF IInv, Types, EnqueueLabels
<1>2. LockHolder' /\ Holding'
  BY Kinds DEF IInv, LockHolder, Holding, Types
<1>3. Apart' /\ Refill'
  BY Kinds DEF IInv, Apart, Refill, Types
<1> QED
  BY <1>1, <1>2, <1>3 DEF IInv

\* looks for waiting poppers
LEMMA LookForWaitersInv ==
  ASSUME IInv, NEW t \in Enqueuers, LookForWaiters(t)
  PROVE  IInv'
<1> USE DEF LookForWaiters, Goto, locals, queues, counters
<1>1. Types'
  BY Kinds DEF IInv, Types, EnqueueLabels
<1>2. LockHolder' /\ Holding'
  BY Kinds DEF IInv, LockHolder, Holding, Types
<1>3. Apart' /\ Refill'
  BY Kinds DEF IInv, Apart, Refill, Types
<1> QED
  BY <1>1, <1>2, <1>3 DEF IInv

\* and wakes one of them, if it is asleep.
LEMMA SignalInv ==
  ASSUME IInv, NEW t \in Enqueuers, Signal(t)
  PROVE  IInv'
<1> USE DEF Signal, Goto, locals, queues, counters
<1>1. Types'
  BY Kinds DEF IInv, Types, EnqueueLabels, PopLabels
<1>2. LockHolder' /\ Holding'
  BY Kinds DEF IInv, LockHolder, Holding, Types
<1>3. Apart' /\ Refill'
  BY Kinds DEF IInv, Apart, Refill, Types
<1> QED
  BY <1>1, <1>2, <1>3, SMTT(30) DEF IInv

-----------------------------------------------------------------------------
(* stream_pop *)

\* A popper gets the lock.
LEMMA PopInv ==
  ASSUME IInv, NEW t \in Poppers, Pop(t)
  PROVE  IInv'
<1> USE DEF Pop, Goto, locals, queues, counters
<1>1. Types'
  BY Kinds DEF IInv, Types, PopLabels
<1>2. LockHolder' /\ Holding'
  BY Kinds DEF IInv, LockHolder, Holding, Types
<1>3. Apart' /\ Refill'
  BY Kinds DEF IInv, Apart, Refill, Types
<1> QED
  BY <1>1, <1>2, <1>3, SMTT(30) DEF IInv

\* It tests the length,
LEMMA TestInv ==
  ASSUME IInv, NEW t \in Poppers, Test(t)
  PROVE  IInv'
<1> USE DEF Test, Goto, locals, queues, counters
<1>1. Types'
  BY Kinds DEF IInv, Types, PopLabels
<1>2. LockHolder' /\ Holding'
  BY Kinds DEF IInv, LockHolder, Holding, Types
<1>3. Apart' /\ Refill'
  BY Kinds DEF IInv, Apart, Refill, Types
<1> QED
  BY <1>1, <1>2, <1>3 DEF IInv

\* goes to sleep
LEMMA BlockInv ==
  ASSUME IInv, NEW t \in Poppers, Block(t)
  PROVE  IInv'
<1> USE DEF Block, Goto, locals, queues, counters
<1>1. Types'
  BY Kinds DEF IInv, Types, PopLabels
<1>2. LockHolder' /\ Holding'
  BY Kinds, SMTT(30) DEF IInv, LockHolder, Holding, Types
<1>3. Apart' /\ Refill'
  BY Kinds DEF IInv, Apart, Refill, Types
<1> QED
  BY <1>1, <1>2, <1>3, SMTT(30) DEF IInv

\* and wakes without a signal,
LEMMA SpuriousWakeupInv ==
  ASSUME IInv, NEW t \in Poppers, SpuriousWakeup(t)
  PROVE  IInv'
<1> USE DEF SpuriousWakeup, Goto, locals, queues, counters
<1>1. Types'
  BY Kinds DEF IInv, Types, PopLabels
<1>2. LockHolder' /\ Holding'
  BY Kinds, SMTT(30) DEF IInv, LockHolder, Holding, Types
<1>3. Apart' /\ Refill'
  BY Kinds DEF IInv, Apart, Refill, Types
<1> QED
  BY <1>1, <1>2, <1>3, SMTT(30) DEF IInv

\* or gets the lock again.
LEMMA WakeInv ==
  ASSUME IInv, NEW t \in Poppers, Wake(t)
  PROVE  IInv'
<1> USE DEF Wake, Goto, locals, queues, counters
<1>1. Types'
  BY Kinds DEF IInv, Types, PopLabels
<1>2. LockHolder' /\ Holding'
  BY Kinds, SMTT(30) DEF IInv, LockHolder, Holding, Types
<1>3. Apart' /\ Refill'
  BY Kinds DEF IInv, Apart, Refill, Types
<1> QED
  BY <1>1, <1>2, <1>3, SMTT(30) DEF IInv

\* It leaves the loop.
LEMMA LeaveInv ==
  ASSUME IInv, NEW t \in Poppers, Leave(t)
  PROVE  IInv'
<1> USE DEF Leave, Goto, locals, queues, counters
<1>1. Types'
  BY Kinds DEF IInv, Types, PopLabels
<1>2. LockHolder' /\ Holding'
  BY Kinds, SMTT(30) DEF IInv, LockHolder, Holding, Types
<1>3. Apart' /\ Refill'
  BY Kinds DEF IInv, Apart, Refill, Types
<1> QED
  BY <1>1, <1>2, <1>3, SMTT(30) DEF IInv

\* It reads the first node of in_queue.
LEMMA ReadHeadInv ==
  ASSUME IInv, NEW t \in Poppers, ReadHead(t)
  PROVE  IInv'
<1> USE DEF ReadHead, Goto, locals, queues, counters
<1>1. Types'
  BY Kinds DEF IInv, Types, PopLabels, First
<1>2. LockHolder' /\ Holding'
  BY Kinds, SMTT(30) DEF IInv, LockHolder, Holding, Types
<1>3. Apart' /\ Refill'
  BY Kinds DEF IInv, Apart, Refill, Types, First, LockHolder
<1> QED
  BY <1>1, <1>2, <1>3, SMTT(30) DEF IInv

\* Its swap succeeds, and what it has swapped out becomes out_queue.
LEMMA GrabInv ==
  ASSUME IInv, NEW t \in Poppers, Grab(t)
  PROVE  IInv'
<1>1. out_queue = <<>> /\ out_queue' = Reversed(in_queue)
  BY ReversedFacts DEF IInv, Refill, Types, Grab
<1>2. /\ out_queue' \in Seq(Nodes)
      /\ Len(out_queue') = Len(in_queue)
      /\ \A i \in 1..Len(out_queue') :
           /\ Len(in_queue) - i + 1 \in 1..Len(in_queue)
           /\ out_queue'[i] = in_queue[Len(in_queue) - i + 1]
  BY <1>1, ReversedFacts DEF IInv, Types
<1>3. in_queue' = <<>> /\ in_queue' \in Seq(Nodes) /\ Len(in_queue') = 0 /\ held' = held
  BY SeqEmpty, SMTT(30) DEF Grab
<1>4. Types'
  BY <1>2, <1>3, Kinds, SMTT(30) DEF IInv, Grab, Goto, counters, Types, PopLabels
<1>5. LockHolder' /\ Holding' /\ Refill'
  BY Kinds DEF IInv, Grab, Goto, LockHolder, Holding, Refill, Types
<1>6. \A i, j \in 1..Len(out_queue') : out_queue'[i] = out_queue'[j] => i = j
  <2> SUFFICES ASSUME NEW i \in 1..Len(out_queue'), NEW j \in 1..Len(out_queue'),
                      out_queue'[i] = out_queue'[j]
               PROVE  i = j
    OBVIOUS
  <2>1. /\ Len(in_queue) - i + 1 \in 1..Len(in_queue)
        /\ Len(in_queue) - j + 1 \in 1..Len(in_queue)
        /\ in_queue[Len(in_queue) - i + 1] = in_queue[Len(in_queue) - j + 1]
    BY <1>2, SMTT(30)
  <2>2. \A a, b \in 1..Len(in_queue) : in_queue[a] = in_queue[b] => a = b
    BY DEF IInv, Apart
  <2>3. Len(in_queue) - i + 1 = Len(in_queue) - j + 1
    BY <2>1, <2>2, SMTT(30)
  <2> QED
    BY <2>3, <1>2, Lengths DEF IInv
<1>7. \A s \in Threads : \A i \in 1..Len(out_queue') : out_queue'[i] # held[s]
  BY <1>2 DEF IInv, Apart
<1>8. Apart'
  BY <1>3, <1>6, <1>7, SMTT(30) DEF IInv, Apart
<1> QED
  BY <1>4, <1>5, <1>8, SMTT(30) DEF IInv

\* Its swap fails.
LEMMA GrabFailsInv ==
  ASSUME IInv, NEW t \in Poppers, GrabFails(t)
  PROVE  IInv'
<1> USE DEF GrabFails, Goto, locals, queues, counters
<1>1. Types'
  BY Kinds DEF IInv, Types, PopLabels
<1>2. LockHolder' /\ Holding'
  BY Kinds, SMTT(30) DEF IInv, LockHolder, Holding, Types
<1>3. Apart' /\ Refill'
  BY Kinds DEF IInv, Apart, Refill, Types
<1> QED
  BY <1>1, <1>2, <1>3, SMTT(30) DEF IInv

\* It takes the oldest node,
LEMMA TakeNodeInv ==
  ASSUME IInv, NEW t \in Poppers, Take(t), out_queue # <<>>
  PROVE  IInv'
<1>1. /\ held' = [held EXCEPT ![t] = out_queue[1]]
      /\ out_queue' = Tail(out_queue)
      /\ pc' = [pc EXCEPT ![t] = "popped"]
      /\ lock' = NoThread
      /\ length' = length - 1
      /\ UNCHANGED <<wait, expected, in_queue, empty>>
  BY DEF Take, Goto, First
<1>2. /\ 1 \in 1..Len(out_queue)
      /\ out_queue[1] \in Nodes
      /\ out_queue' \in Seq(Nodes)
      /\ \A i \in 1..Len(out_queue') :
           i + 1 \in 1..Len(out_queue) /\ i + 1 # 1 /\ out_queue'[i] = out_queue[i + 1]
  BY <1>1 DEF IInv, Types
<1>3. \A s \in Threads : held'[s] = IF s = t THEN out_queue[1] ELSE held[s]
  BY <1>1 DEF IInv, Types
<1>4. Types'
  <2>1. \A s \in Threads : pc'[s] = IF s = t THEN "popped" ELSE pc[s]
    BY <1>1 DEF IInv, Types
  <2>2. pc' \in [Threads -> EnqueueLabels \cup PopLabels]
    BY <1>1, Zenon DEF IInv, Types, PopLabels
  <2>3. /\ \A s \in Enqueuers : pc'[s] \in EnqueueLabels
        /\ \A s \in Poppers : pc'[s] \in PopLabels
    BY <2>1, Kinds DEF IInv, Types, PopLabels
  <2>4. held' \in [Threads -> Nodes \cup {NULL}]
    BY <1>1, <1>2, Zenon DEF IInv, Types
  <2> QED
    BY <1>1, <1>2, <2>2, <2>3, <2>4, SMTT(30) DEF IInv, Types
<1>5. LockHolder' /\ Holding' /\ Refill'
  BY <1>1, <1>2, Kinds, SMTT(30) DEF IInv, Take, LockHolder, Holding, Refill, Types
<1>6. \A i, j \in 1..Len(out_queue') : out_queue'[i] = out_queue'[j] => i = j
  <2> SUFFICES ASSUME NEW i \in 1..Len(out_queue'), NEW j \in 1..Len(out_queue'),
                      out_queue'[i] = out_queue'[j]
               PROVE  i = j
    OBVIOUS
  <2>1. i + 1 = j + 1
    BY <1>2, SMTT(30) DEF IInv, Apart
  <2> QED
    BY <2>1, <1>2 DEF Types
<1>7. \A i \in 1..Len(in_queue), j \in 1..Len(out_queue') : in_queue[i] # out_queue'[j]
  BY <1>2 DEF IInv, Apart
<1>8. /\ \A s \in Threads : \A i \in 1..Len(in_queue) : in_queue[i] # held'[s]
      /\ \A s \in Threads : \A i \in 1..Len(out_queue') : out_queue'[i] # held'[s]
  BY <1>2, <1>3, SMTT(30) DEF IInv, Apart
<1>9. \A r, s \in Threads : held'[r] = held'[s] /\ held'[r] # NULL => r = s
  BY <1>2, <1>3, SMTT(30) DEF IInv, Apart
<1>10. Apart'
  BY <1>1, <1>6, <1>7, <1>8, <1>9, SMTT(30) DEF IInv, Apart
<1> QED
  BY <1>4, <1>5, <1>10 DEF IInv

\* or finds none.
LEMMA TakeNothingInv ==
  ASSUME IInv, NEW t \in Poppers, Take(t), out_queue = <<>>
  PROVE  IInv'
<1>1. /\ held' = [held EXCEPT ![t] = NULL] /\ held[t] = NULL
      /\ pc' = [pc EXCEPT ![t] = "idle"]
      /\ lock' = NoThread
      /\ length' = length - 1
      /\ empty' = empty + 1
      /\ UNCHANGED <<wait, expected, in_queue, out_queue>>
  BY DEF IInv, Holding, Take, Goto, First
<1>2. held' = held
  BY <1>1 DEF IInv, Types
<1>3. Types'
  BY <1>1, <1>2, Kinds, SMTT(30) DEF IInv, Types, PopLabels
<1>4. LockHolder' /\ Holding'
  BY <1>1, <1>2, Kinds, SMTT(30) DEF IInv, Take, LockHolder, Holding, Types
<1>5. Apart' /\ Refill'
  BY <1>1, <1>2, Kinds DEF IInv, Apart, Refill, Types
<1> QED
  BY <1>3, <1>4, <1>5 DEF IInv

\* The caller is done with its node.
LEMMA RecycleInv ==
  ASSUME IInv, NEW t \in Poppers, Recycle(t)
  PROVE  IInv'
<1> USE DEF Recycle, Goto, locals, queues, counters
<1>1. Types'
  BY Kinds DEF IInv, Types, PopLabels
<1>2. LockHolder' /\ Holding'
  BY Kinds, SMTT(30) DEF IInv, LockHolder, Holding, Types
<1>3. Apart' /\ Refill'
  BY Kinds DEF IInv, Apart, Refill, Types
<1> QED
  BY <1>1, <1>2, <1>3, SMTT(30) DEF IInv

-----------------------------------------------------------------------------
(* The theorems *)

\* Every step preserves the invariant.
LEMMA NextInv == IInv /\ [Next]_vars => IInv'
<1> SUFFICES ASSUME IInv, [Next]_vars PROVE IInv'
  OBVIOUS
<1>1. CASE \E t \in Enqueuers : Enqueue(t) \/ EnqueueStep(t)
  BY <1>1, EnqueueInv, ReadInInv, PushInv, PushFailsInv, CountInv,
     LookForWaitersInv, SignalInv, SMTT(30) DEF EnqueueStep
<1>2. CASE \E t \in Poppers : Pop(t) \/ PopStep(t) \/ SpuriousWakeup(t) \/ Recycle(t)
  BY SMTT(30), <1>2, PopInv, TestInv, BlockInv, SpuriousWakeupInv, WakeInv, LeaveInv, ReadHeadInv,
     GrabInv, GrabFailsInv, TakeNodeInv, TakeNothingInv, RecycleInv DEF PopStep
<1>3. CASE UNCHANGED vars
  BY <1>3 DEF vars, IInv, Types, LockHolder, Holding, Apart, Refill
<1> QED
  BY <1>1, <1>2, <1>3 DEF Next

\* IInv holds in every reachable state.
THEOREM Invariant == Spec => []IInv
BY InitInv, NextInv, PTL DEF Spec

\* No node is lost, doubled or owned twice (EachNodeOnce), whatever the
\* enqueuers and poppers do in parallel and however often a node is enqueued
\* again: the compare-and-swap of stream_enqueue needs no version counter.
THEOREM NodesStayUnique == Spec => []EachNodeOnce
<1>1. IInv => EachNodeOnce
  <2> SUFFICES ASSUME IInv PROVE EachNodeOnce
    OBVIOUS
  <2> DEFINE Lists == in_queue \o out_queue
  <2>1. /\ Len(Lists) = Len(in_queue) + Len(out_queue)
        /\ \A i \in 1..Len(Lists) :
             IF i <= Len(in_queue) THEN Lists[i] = in_queue[i]
                                   ELSE Lists[i] = out_queue[i - Len(in_queue)]
    BY SeqConcat DEF IInv, Types
  <2> HIDE DEF Lists
  <2>2. \A i \in 1..Len(Lists) :
          \/ i \in 1..Len(in_queue) /\ Lists[i] = in_queue[i]
          \/ /\ i \notin 1..Len(in_queue)
             /\ i - Len(in_queue) \in 1..Len(out_queue)
             /\ Lists[i] = out_queue[i - Len(in_queue)]
    BY <2>1, Lengths DEF IInv
  <2>3. ASSUME NEW i \in 1..Len(Lists), NEW j \in 1..Len(Lists), Lists[i] = Lists[j]
        PROVE  i = j
    <3>1. CASE i \in 1..Len(in_queue) /\ j \in 1..Len(in_queue)
      BY <2>2, <2>3, <3>1, SMTT(30) DEF IInv, Apart
    <3>2. CASE i \notin 1..Len(in_queue) /\ j \notin 1..Len(in_queue)
      <4>1. i - Len(in_queue) = j - Len(in_queue)
        BY <2>2, <2>3, <3>2, SMTT(30) DEF IInv, Apart
      <4> QED
        BY <4>1, <2>1, Lengths, SMTT(30) DEF IInv
    <3>3. CASE ~(i \in 1..Len(in_queue) <=> j \in 1..Len(in_queue))
      BY <2>2, <2>3, <3>3 DEF IInv, Apart
    <3> QED
      BY <3>1, <3>2, <3>3, SMTT(30)
  <2>4. \A t \in Threads : held[t] \notin Members(Lists)
    BY <2>2, SMTT(30) DEF IInv, Apart, Members
  <2>5. \A s, t \in Threads : held[s] = held[t] /\ held[s] # NULL => s = t
    BY DEF IInv, Apart
  <2> QED
    BY <2>3, <2>4, <2>5 DEF EachNodeOnce, Lists
<1> QED
  BY <1>1, Invariant, PTL

-----------------------------------------------------------------------------
(* The stream implements Fifo, step by step. *)

\* A successful push puts the node at the end of the queue.
LEMMA PushPuts ==
  ASSUME IInv, NEW t \in Enqueuers, Push(t)
  PROVE  F!Put(held[t]) /\ held[t] \in Nodes
<1>1. held[t] \in Nodes
  BY Kinds DEF IInv, Push, Holding, Types
<1>2. \A i \in 1..Len(Queue) : Queue[i] # held[t]
  <2>1. /\ \A i \in 1..Len(out_queue) : out_queue[i] # held[t]
        /\ \A i \in 1..Len(in_queue) : in_queue[i] # held[t]
    BY Kinds DEF IInv, Apart
  <2>2. out_queue \in Seq(Nodes) /\ in_queue \in Seq(Nodes)
    BY SMTT(30) DEF IInv, Types
  <2> QED
    BY <2>1, <2>2, ConcatWithout, ZenonT(30) DEF Queue
<1>3. \A p \in Poppers : held[p] # held[t]
  BY <1>1, Kinds DEF IInv, Apart
<1>4. Queue' = Append(Queue, held[t])
  <2>1. Queue' = out_queue \o Reversed(<<held[t]>> \o in_queue)
    BY DEF Queue, Push
  <2>2. Reversed(<<held[t]>> \o in_queue) = Append(Reversed(in_queue), held[t])
    BY <1>1, ReversedPush, SMTT(30) DEF IInv, Types
  <2>3. out_queue \in Seq(Nodes) /\ Reversed(in_queue) \in Seq(Nodes)
    BY QueueFacts DEF IInv, Types
  <2>4. out_queue \o Append(Reversed(in_queue), held[t])
          = Append(out_queue \o Reversed(in_queue), held[t])
    BY <1>1, <2>3
  <2> QED
    BY <2>1, <2>2, <2>4, Zenon DEF Queue
<1>5. [p \in Poppers |-> held[p]]' = [p \in Poppers |-> held[p]]
  BY Kinds DEF IInv, Types, Push
<1> QED
  BY <1>1, <1>2, <1>3, <1>4, <1>5, SMTT(30) DEF F!Put

\* The swap of in_queue with NULL moves nodes from list to list; the queue is
\* the same.
LEMMA GrabKeeps ==
  ASSUME IInv, NEW t \in Poppers, Grab(t)
  PROVE  UNCHANGED F!vars
<1>1. out_queue = <<>> /\ in_queue \in Seq(Nodes) /\ Reversed(in_queue) \in Seq(Nodes)
  BY QueueFacts DEF IInv, Refill, Grab, Types
<1>2. Queue = Reversed(in_queue)
  BY <1>1 DEF Queue
<1>3. Queue' = (Reversed(in_queue) \o <<>>) \o Reversed(<<>>)
  BY <1>1 DEF Queue, Grab
<1>4. Reversed(<<>>) = <<>>
  BY DEF Reversed
<1>5. Queue' = Reversed(in_queue)
  BY <1>1, <1>3, <1>4
<1>6. held' = held
  BY DEF Grab
<1> QED
  BY <1>2, <1>5, <1>6, SMTT(30) DEF F!vars

\* Taking a node gets the head of the queue; taking none changes nothing.
LEMMA TakeGets ==
  ASSUME IInv, NEW t \in Poppers, Take(t)
  PROVE  F!Get(t) \/ UNCHANGED F!vars
<1>1. held[t] = NULL
  BY DEF IInv, Holding, Take
<1>2. out_queue \in Seq(Nodes) /\ Reversed(in_queue) \in Seq(Nodes)
  BY QueueFacts DEF IInv, Types
<1>3. CASE out_queue # <<>>
  <2>1. Queue # <<>> /\ Head(Queue) = Head(out_queue)
    BY <1>2, <1>3 DEF Queue
  <2>2. Tail(Queue) = Tail(out_queue) \o Reversed(in_queue)
    BY <1>2, <1>3 DEF Queue
  <2>3. Queue' = Tail(out_queue) \o Reversed(in_queue)
    BY <1>3, SMTT(30) DEF Queue, Take
  <2>4. [p \in Poppers |-> held[p]]'
          = [[p \in Poppers |-> held[p]] EXCEPT ![t] = Head(out_queue)]
    BY <1>3, Kinds, Zenon DEF IInv, Types, Take, First
  <2> QED
    BY <1>1, <2>1, <2>2, <2>3, <2>4, Zenon DEF F!Get
<1>4. CASE out_queue = <<>>
  <2>1. out_queue' = out_queue /\ in_queue' = in_queue /\ held' = held
    BY <1>1, <1>4, Kinds DEF IInv, Types, Take, First
  <2> QED
    BY <2>1 DEF F!vars, Queue
<1> QED
  BY <1>3, <1>4

\* A recycled node is one its popper has let go of.
LEMMA RecycleDone ==
  ASSUME IInv, NEW t \in Poppers, Recycle(t)
  PROVE  F!Done(t)
<1>1. Queue' = Queue
  BY DEF Recycle, queues, Queue
<1>2. [p \in Poppers |-> held[p]]' = [[p \in Poppers |-> held[p]] EXCEPT ![t] = NULL]
  BY Kinds, Zenon DEF IInv, Types, Recycle
<1> QED
  BY <1>1, <1>2, Zenon DEF F!Done

\* No other step is seen from outside.
LEMMA OthersKeep ==
  ASSUME IInv, NEW t \in Threads,
         UNCHANGED <<in_queue, out_queue>>,
         \A p \in Poppers : held'[p] = held[p]
  PROVE  UNCHANGED F!vars
BY DEF F!vars, Queue

\* Every step of the stream is a step of the Fifo, or none.
LEMMA StepSimulation == IInv /\ [Next]_vars => [F!Next]_(F!vars)
<1> SUFFICES ASSUME IInv, [Next]_vars PROVE [F!Next]_(F!vars)
  OBVIOUS
<1>1. ASSUME NEW t \in Enqueuers, Enqueue(t)
      PROVE  UNCHANGED F!vars
  BY <1>1, OthersKeep, Kinds, SMTT(30) DEF Enqueue, queues, IInv, Types
<1>2. ASSUME NEW t \in Enqueuers,
             \/ ReadIn(t) \/ PushFails(t) \/ Count(t) \/ LookForWaiters(t) \/ Signal(t)
      PROVE  UNCHANGED F!vars
  BY <1>2, OthersKeep, Kinds, SMTT(30)
     DEF ReadIn, PushFails, Count, LookForWaiters, Signal, queues, locals
<1>3. ASSUME NEW t \in Enqueuers, Push(t)
      PROVE  F!Next
  BY <1>3, PushPuts, SMTT(30) DEF F!Next
<1>4. ASSUME NEW t \in Poppers,
             \/ Pop(t) \/ Test(t) \/ Block(t) \/ SpuriousWakeup(t) \/ Wake(t)
             \/ Leave(t) \/ ReadHead(t) \/ GrabFails(t)
      PROVE  UNCHANGED F!vars
  BY <1>4, OthersKeep, Kinds, SMTT(30)
     DEF Pop, Test, Block, SpuriousWakeup, Wake, Leave, ReadHead, GrabFails, queues, locals
<1>5. ASSUME NEW t \in Poppers, Take(t)
      PROVE  F!Next \/ UNCHANGED F!vars
  BY <1>5, TakeGets DEF F!Next
<1>6. ASSUME NEW t \in Poppers, Recycle(t)
      PROVE  F!Next
  BY <1>6, RecycleDone DEF F!Next
<1>7. CASE UNCHANGED vars
  BY <1>7 DEF vars, F!vars, Queue
<1> QED
  BY <1>1, <1>2, <1>3, <1>4, <1>5, <1>6, <1>7, GrabKeeps, SMTT(30) DEF Next, EnqueueStep, PopStep

\* The stream is a FIFO (ImplementsFifo): what the two lists, the swaps and
\* the lock do in several steps is one queue from which every node comes out
\* once, in the order of the pushes.
THEOREM StreamIsFifo == Spec => ImplementsFifo
<1>1. Init => F!Init
  BY Kinds DEF Init, F!Init, Queue, Reversed
<1> QED
  BY <1>1, Invariant, StepSimulation, PTL DEF Spec, ImplementsFifo, F!Spec

-----------------------------------------------------------------------------
(***************************************************************************)
(* The invariant with what the counts add to it.  That a   *)
(* waiting pop finds a node depends on what the length says when it is     *)
(* tested, and on nobody lowering it before the node is taken.             *)
(***************************************************************************)

\* Pushed, but not counted yet.
Uncounted == {t \in Enqueuers : pc[t] = "count"}

\* LengthCounts, list by list.
Counted == length + Cardinality(Uncounted) = Len(in_queue) + Len(out_queue) - empty

\* Where every pop waits, the length is never negative, and it stays positive
\* from the test until the node is taken.
Waited ==
  wait => /\ empty = 0
          /\ length >= 0
          /\ \A t \in Poppers :
               pc[t] \in {"leave", "head", "grab", "take"} => length > 0

CInv ==
  /\ IInv
  /\ Counted
  /\ Waited
  /\ WaitingPopReturnsNode

-----------------------------------------------------------------------------
(* The enqueuers that have yet to count. *)

\* Their number is a natural number,
LEMMA UncountedFinite ==
  /\ IsFiniteSet(Uncounted)
  /\ Cardinality(Uncounted) \in Nat
<1>1. Uncounted \subseteq Enqueuers /\ IsFiniteSet(Enqueuers)
  BY StreamAssumption DEF Uncounted
<1>2. IsFiniteSet(Uncounted)
  BY <1>1, FS_Subset
<1> QED
  BY <1>2, FS_CardinalityType

\* which a push raises by one
LEMMA UncountedAdd ==
  ASSUME NEW t \in Enqueuers, t \notin Uncounted, Uncounted' = Uncounted \cup {t}
  PROVE  Cardinality(Uncounted)' = Cardinality(Uncounted) + 1
BY UncountedFinite, FS_AddElement

\* and a count lowers by one.
LEMMA UncountedRemove ==
  ASSUME NEW t \in Uncounted, Uncounted' = Uncounted \ {t}
  PROVE  Cardinality(Uncounted)' = Cardinality(Uncounted) - 1
BY UncountedFinite, FS_RemoveElement

\* A step that moves no node and counts none leaves the count as it is.
LEMMA Undisturbed ==
  ASSUME Counted, UNCHANGED <<length, in_queue, out_queue, empty>>, Uncounted' = Uncounted
  PROVE  Counted'
BY Zenon DEF Counted

\* Nor does it disturb a pop that waits, unless it lets one pass.
LEMMA Unwaited ==
  ASSUME Waited, WaitingPopReturnsNode,
         UNCHANGED <<wait, length, out_queue, empty>>,
         \A p \in Poppers :
           pc'[p] \in {"leave", "head", "grab", "take"} =>
             \/ pc[p] \in {"leave", "head", "grab", "take"}
             \/ length > 0 \/ ~wait,
         \A p \in Poppers : pc'[p] = "take" => pc[p] = "take" \/ out_queue # <<>> \/ ~wait
  PROVE  Waited' /\ WaitingPopReturnsNode'
BY DEF Waited, WaitingPopReturnsNode

\* The initial state.
LEMMA InitCounts == Init => CInv
<1> SUFFICES ASSUME Init PROVE CInv
  OBVIOUS
<1>1. Uncounted = {}
  BY Kinds DEF Init, Uncounted
<1>2. Counted
  BY <1>1, SeqEmpty, FS_EmptySet, SMTT(30) DEF Init, Counted
<1>3. Waited /\ WaitingPopReturnsNode
  BY Kinds DEF Init, Waited, WaitingPopReturnsNode
<1> QED
  BY <1>2, <1>3, InitInv, SMTT(30) DEF CInv

-----------------------------------------------------------------------------
(* The steps that count or move nodes *)

\* A push: one more node, one more enqueuer that has to count it.
LEMMA PushCounts ==
  ASSUME CInv, NEW t \in Enqueuers, Push(t)
  PROVE  Counted' /\ Waited' /\ WaitingPopReturnsNode'
<1>1. Len(in_queue)' = Len(in_queue) + 1
  BY Kinds DEF CInv, IInv, Types, Holding, Push
<1>2. t \notin Uncounted /\ Uncounted' = Uncounted \cup {t}
  BY Kinds DEF CInv, IInv, Types, Push, Goto, Uncounted
<1>3. Cardinality(Uncounted)' = Cardinality(Uncounted) + 1
  BY <1>2, UncountedAdd, Zenon
<1>4. UNCHANGED <<wait, length, out_queue, empty>>
  BY DEF Push, counters
<1>5. Counted'
  <2>1. /\ Len(in_queue) \in Nat /\ Len(out_queue) \in Nat
        /\ length \in Int /\ empty \in Nat
    BY Lengths, SMTT(30) DEF CInv, IInv, Types
  <2> QED
    BY <1>1, <1>3, <1>4, <2>1, UncountedFinite, SMTT(30) DEF CInv, Counted
<1>6. \A p \in Poppers : pc'[p] = pc[p]
  BY Kinds, SMTT(30) DEF CInv, IInv, Types, Push, Goto
<1>7. Waited' /\ WaitingPopReturnsNode'
  BY <1>4, <1>6, Unwaited, SMTT(30) DEF CInv
<1> QED
  BY <1>5, <1>7, SMTT(30)

\* A count: the length follows.
LEMMA CountCounts ==
  ASSUME CInv, NEW t \in Enqueuers, Count(t)
  PROVE  Counted' /\ Waited' /\ WaitingPopReturnsNode'
<1>1. t \in Uncounted /\ Uncounted' = Uncounted \ {t}
  BY Kinds DEF CInv, IInv, Types, Count, Goto, Uncounted
<1>2. Cardinality(Uncounted)' = Cardinality(Uncounted) - 1
  BY <1>1, UncountedRemove, Zenon
<1>3. length' = length + 1 /\ UNCHANGED <<wait, in_queue, out_queue, empty>>
  BY DEF Count, queues
<1>4. /\ Len(in_queue) \in Nat /\ Len(out_queue) \in Nat
      /\ length \in Int /\ empty \in Nat
  BY Lengths DEF CInv, IInv, Types
<1>5. Counted'
  BY <1>2, <1>3, <1>4, UncountedFinite, SMTT(30) DEF CInv, Counted
<1>6. \A p \in Poppers : pc'[p] = pc[p]
  BY Kinds, SMTT(30) DEF CInv, IInv, Types, Count, Goto
<1>7. Waited' /\ WaitingPopReturnsNode'
  BY <1>3, <1>4, <1>6, SMTT(30) DEF CInv, Waited, WaitingPopReturnsNode
<1> QED
  BY <1>5, <1>7

\* Where pops wait, the holder of the lock that has passed its test finds a
\* node in one of the lists.
LEMMA NotEmpty ==
  ASSUME CInv, wait, NEW t \in Poppers, pc[t] \in {"leave", "head", "grab", "take"}
  PROVE  in_queue # <<>> \/ out_queue # <<>>
<1>1. length > 0 /\ empty = 0
  BY DEF CInv, Waited
<1>2. /\ Len(in_queue) \in Nat /\ Len(out_queue) \in Nat
      /\ length \in Int
  BY Lengths DEF CInv, IInv, Types
<1>3. Len(in_queue) + Len(out_queue) > 0
  BY <1>1, <1>2, UncountedFinite, SMTT(30) DEF CInv, Counted
<1> QED
  BY <1>2, <1>3, SeqEmpty, SMTT(30)

\* The first look at in_queue.
LEMMA ReadHeadCounts ==
  ASSUME CInv, NEW t \in Poppers, ReadHead(t)
  PROVE  Counted' /\ Waited' /\ WaitingPopReturnsNode'
<1>1. UNCHANGED <<wait, length, in_queue, out_queue, empty>>
  BY DEF ReadHead, queues, counters
<1>2. Uncounted' = Uncounted
  BY Kinds DEF CInv, IInv, Types, ReadHead, Goto, Uncounted
<1>3. wait => in_queue # <<>>
  BY NotEmpty, SMTT(30) DEF CInv, IInv, Refill, ReadHead
<1>4. /\ pc[t] = "head" /\ pc'[t] = IF in_queue = <<>> THEN "take" ELSE "grab"
      /\ \A p \in Poppers : p # t => pc'[p] = pc[p]
  BY Kinds, SMTT(30) DEF CInv, IInv, Types, ReadHead, Goto
<1>5. Waited' /\ WaitingPopReturnsNode'
  BY <1>1, <1>3, <1>4, Unwaited, SMTT(30) DEF CInv
<1> QED
  BY <1>1, <1>2, <1>5, Undisturbed, SMTT(30) DEF CInv

\* The swap: as many nodes in out_queue as there were in in_queue.
LEMMA GrabCounts ==
  ASSUME CInv, NEW t \in Poppers, Grab(t)
  PROVE  Counted' /\ Waited' /\ WaitingPopReturnsNode'
<1>1. /\ out_queue = <<>> /\ in_queue # <<>> /\ in_queue' = <<>>
      /\ out_queue' = Reversed(in_queue)
  BY ReversedFacts, SMTT(30) DEF CInv, IInv, Types, Refill, Grab, First
<1>2. /\ Len(out_queue)' = Len(in_queue) /\ Len(in_queue)' = 0
      /\ Len(out_queue) = 0 /\ Len(in_queue) > 0
  BY <1>1, ReversedFacts, SeqEmpty, SeqNothing, Lengths, SMTT(30) DEF CInv, IInv, Types
<1>3. UNCHANGED <<wait, length, empty>>
  BY DEF Grab, counters
<1>4. Uncounted' = Uncounted
  BY Kinds DEF CInv, IInv, Types, Grab, Goto, Uncounted
<1>5. Counted'
  <2>1. Cardinality(Uncounted)' = Cardinality(Uncounted) /\ Cardinality(Uncounted) \in Nat
    BY <1>4, UncountedFinite, Zenon
  <2>2. Len(in_queue) \in Nat /\ length \in Int /\ empty \in Nat
    BY Lengths DEF CInv, IInv, Types
  <2>3. length + Cardinality(Uncounted) = Len(in_queue) - empty
    BY <1>2, <2>2, SMTT(30) DEF CInv, Counted
  <2> QED
    BY <1>2, <1>3, <2>1, <2>2, <2>3, SMTT(30) DEF Counted
<1>6. /\ pc[t] = "grab"
      /\ \A p \in Poppers : p # t => pc'[p] = pc[p]
  BY Kinds DEF CInv, IInv, Types, Grab, Goto
<1>7. Waited'
  BY <1>3, <1>6 DEF CInv, Waited
<1>8. out_queue' # <<>>
  BY <1>2, SeqEmpty, SMTT(30)
<1> QED
  BY <1>5, <1>7, <1>8, SMTT(30) DEF WaitingPopReturnsNode

\* Taking a node, or none.
LEMMA TakeCounts ==
  ASSUME CInv, NEW t \in Poppers, Take(t)
  PROVE  Counted' /\ Waited' /\ WaitingPopReturnsNode'
<1>1. length' = length - 1 /\ UNCHANGED <<wait, in_queue>>
  BY DEF Take
<1>2. /\ Len(in_queue) \in Nat /\ Len(out_queue) \in Nat
      /\ length \in Int /\ empty \in Nat
  BY Lengths, SMTT(30) DEF CInv, IInv, Types
<1>3. \/ Len(out_queue)' = Len(out_queue) - 1 /\ empty' = empty
      \/ Len(out_queue)' = Len(out_queue) /\ empty' = empty + 1 /\ ~wait
  BY SMTT(30) DEF CInv, IInv, Types, Take, WaitingPopReturnsNode
<1>4. Uncounted' = Uncounted
  BY Kinds, SMTT(30) DEF CInv, IInv, Types, Take, Goto, Uncounted
<1>5. Cardinality(Uncounted)' = Cardinality(Uncounted) /\ Cardinality(Uncounted) \in Nat
  BY <1>4, UncountedFinite, Zenon
<1>6. Counted'
  <2>1. Len(in_queue)' = Len(in_queue)
    BY <1>1
  <2>2. length + Cardinality(Uncounted) = Len(in_queue) + Len(out_queue) - empty
    BY DEF CInv, Counted
  <2>3. Len(out_queue)' - empty' = Len(out_queue) - empty - 1
    BY <1>2, <1>3
  <2>4. Len(out_queue)' \in Int /\ empty' \in Int
    BY <1>2, <1>3
  <2>5. length' + Cardinality(Uncounted)' = Len(in_queue)' + Len(out_queue)' - empty'
    BY <1>1, <1>2, <1>5, <2>1, <2>2, <2>3, <2>4, SMTT(30)
  <2> QED
    BY <2>5, Zenon DEF Counted
<1>7. \A p \in Poppers : pc'[p] \notin {"leave", "head", "grab", "take"}
  BY Kinds, SMTT(30) DEF CInv, IInv, Types, Take, Goto, LockHolder
<1>8. wait => length > 0
  BY DEF CInv, Waited, Take
<1>9. Waited' /\ WaitingPopReturnsNode'
  BY <1>1, <1>2, <1>3, <1>7, <1>8, SMTT(30) DEF CInv, Waited, WaitingPopReturnsNode
<1> QED
  BY <1>6, <1>9

\* The other steps count nothing and move no node.
LEMMA Uninvolved ==
  ASSUME CInv, UNCHANGED <<wait, length, in_queue, out_queue, empty>>,
         \A e \in Enqueuers : pc'[e] = "count" <=> pc[e] = "count",
         \A p \in Poppers :
           pc'[p] \in {"leave", "head", "grab", "take"} =>
             \/ pc[p] \in {"leave", "head", "grab", "take"}
             \/ length > 0 \/ ~wait,
         \A p \in Poppers : pc'[p] = "take" => pc[p] = "take" \/ out_queue # <<>> \/ ~wait
  PROVE  Counted' /\ Waited' /\ WaitingPopReturnsNode'
<1>1. Uncounted' = Uncounted
  BY DEF Uncounted
<1>2. Counted'
  BY <1>1, Undisturbed, Zenon DEF CInv
<1>3. Waited' /\ WaitingPopReturnsNode'
  BY Unwaited, Zenon DEF CInv
<1> QED
  BY <1>2, <1>3, Zenon

\* What the counts need to know of the labels.
LEMMA LabelsAre ==
  ASSUME CInv
  PROVE  /\ pc \in [Threads -> EnqueueLabels \cup PopLabels]
         /\ wait => length \in Int /\ length >= 0
BY Zenon DEF CInv, IInv, Types, Waited

\* An enqueuer lets no popper pass: it wakes one up at most.
LEMMA EnqueuersCount ==
  ASSUME CInv, NEW t \in Enqueuers,
         \/ Enqueue(t) \/ ReadIn(t) \/ PushFails(t) \/ LookForWaiters(t) \/ Signal(t)
  PROVE  Counted' /\ Waited' /\ WaitingPopReturnsNode'
<1>1. /\ UNCHANGED <<wait, length, in_queue, out_queue, empty>>
      /\ pc[t] # "count"
      /\ \E l : /\ l # "count"
               /\ \/ pc' = [pc EXCEPT ![t] = l]
                  \/ \E s \in Poppers : pc' = [pc EXCEPT ![t] = l, ![s] = "woken"]
  BY ZenonT(30) DEF Goto, locals, queues, counters, Enqueue, ReadIn, PushFails,
                    LookForWaiters, Signal
<1>2. /\ \A p \in Poppers : pc'[p] = pc[p] \/ pc'[p] = "woken"
      /\ \A e \in Enqueuers : pc'[e] = "count" <=> pc[e] = "count"
  BY <1>1, LabelsAre, Kinds
<1>3. \A p \in Poppers :
        /\ pc'[p] \in {"leave", "head", "grab", "take"} =>
             pc[p] \in {"leave", "head", "grab", "take"}
        /\ pc'[p] = "take" => pc[p] = "take"
  BY <1>2
<1> QED
  BY <1>1, <1>2, <1>3, Uninvolved, Zenon

\* Of the poppers only one that has seen a length passes the loop, and only one
\* that has seen a node in out_queue goes on to take it.
LEMMA PoppersCount ==
  ASSUME CInv, NEW t \in Poppers,
         \/ Pop(t) \/ Test(t) \/ Block(t) \/ SpuriousWakeup(t)
         \/ Wake(t) \/ Leave(t) \/ GrabFails(t) \/ Recycle(t)
  PROVE  Counted' /\ Waited' /\ WaitingPopReturnsNode'
<1>1. UNCHANGED <<wait, length, in_queue, out_queue, empty>>
  BY ZenonT(30) DEF locals, queues, counters, Pop, Test, Block, SpuriousWakeup, Wake, Leave,
                    GrabFails, Recycle
<1>2. PICK l : /\ pc' = [pc EXCEPT ![t] = l]
               /\ \/ l \in {"test", "block", "blocked", "woken", "idle"}
                  \/ l = "leave" /\ ~(wait /\ length = 0)
                  \/ l = "take" /\ pc[t] = "leave" /\ out_queue # <<>>
                  \/ l = "head" /\ pc[t] \in {"leave", "grab"}
  BY ZenonT(30) DEF Goto, Pop, Test, Block, SpuriousWakeup, Wake, Leave, GrabFails, Recycle
<1>3. /\ \A p \in Poppers : pc'[p] = IF p = t THEN l ELSE pc[p]
      /\ \A e \in Enqueuers : pc'[e] = pc[e]
  BY <1>2, LabelsAre, Kinds
<1>4. wait /\ length # 0 => length > 0
  BY LabelsAre
<1>5. \A p \in Poppers :
        /\ pc'[p] \in {"leave", "head", "grab", "take"} =>
             \/ pc[p] \in {"leave", "head", "grab", "take"}
             \/ length > 0 \/ ~wait
        /\ pc'[p] = "take" => pc[p] = "take" \/ out_queue # <<>>
  BY <1>2, <1>3, <1>4
<1> QED
  BY <1>1, <1>3, <1>5, Uninvolved, Zenon

-----------------------------------------------------------------------------
(* The theorems *)

\* Every step preserves the counts.
LEMMA NextCounts == CInv /\ [Next]_vars => CInv'
<1> SUFFICES ASSUME CInv, [Next]_vars PROVE CInv'
  OBVIOUS
<1>1. ASSUME NEW t \in Enqueuers, Enqueue(t) \/ EnqueueStep(t)
      PROVE  Counted' /\ Waited' /\ WaitingPopReturnsNode'
  <2>1. t \in Threads
    BY Kinds
  <2> QED
    BY <1>1, <2>1, PushCounts, CountCounts, EnqueuersCount, Zenon DEF EnqueueStep
<1>2. ASSUME NEW t \in Poppers, Pop(t) \/ PopStep(t) \/ SpuriousWakeup(t) \/ Recycle(t)
      PROVE  Counted' /\ Waited' /\ WaitingPopReturnsNode'
  <2>1. t \in Threads
    BY Kinds
  <2> QED
    BY <1>2, <2>1, ReadHeadCounts, GrabCounts, TakeCounts, PoppersCount, ZenonT(30) DEF PopStep
<1>3. CASE UNCHANGED vars
  <2>1. Counted'
    BY <1>3, Undisturbed, SMTT(30) DEF vars, CInv, Uncounted
  <2>2. Waited' /\ WaitingPopReturnsNode'
    BY <1>3, Unwaited DEF vars, CInv
  <2> QED
    BY <2>1, <2>2, NextInv, SMTT(30) DEF CInv
<1>4. IInv'
  BY NextInv, SMTT(30) DEF CInv
<1> QED
  BY <1>1, <1>2, <1>3, <1>4, SMTT(30) DEF Next, CInv

\* CInv holds in every reachable state.
THEOREM CountInvariant == Spec => []CInv
BY InitCounts, NextCounts, PTL DEF Spec

\* stream->length counts the nodes of the stream (LengthCounts), although
\* stream_enqueue raises it after its push and outside the lock, and stream_pop
\* lowers it whether or not it found a node.
THEOREM LengthIsCount == Spec => []LengthCounts
<1>1. CInv => LengthCounts
  <2> SUFFICES ASSUME CInv PROVE LengthCounts
    OBVIOUS
  <2>1. Len(in_queue) + Len(out_queue) - empty = Len(Queue) - empty
    BY QueueFacts, Lengths, SMTT(30) DEF CInv, IInv, Types
  <2> QED
    BY <2>1, Zenon DEF CInv, Counted, Uncounted, LengthCounts
<1> QED
  BY <1>1, CountInvariant, PTL

\* stream.h: "if wait == true: always returns a value" (WaitingPopReturnsNode),
\* for any number of threads and with spurious wakeups.
THEOREM WaitingPopSucceeds == Spec => []WaitingPopReturnsNode
<1>1. CInv => WaitingPopReturnsNode
  BY DEF CInv
<1> QED
  BY <1>1, CountInvariant, PTL
=============================================================================
