------------------------------- MODULE Stream -------------------------------
(***************************************************************************)
(* src/stream.c: the semi-locking queue between receivers and handlers.    *)
(*                                                                         *)
(* Enqueuers push on in_queue with compare-and-swap and hold no lock.      *)
(* Poppers hold the lock; when out_queue is empty they take all of         *)
(* in_queue and reverse it.  A linked list is the sequence of its nodes,   *)
(* the node the queue points to first.  A compare-and-swap sees only that  *)
(* first node: it succeeds although the list changed below it meanwhile.   *)
(*                                                                         *)
(* One step is one access to memory that another thread may access at the  *)
(* same time.  out_queue, and a list taken from in_queue, are touched only *)
(* under the lock, so accesses to them are part of the neighbouring step.  *)
(***************************************************************************)
EXTENDS Integers, Sequences, FiniteSets



CONSTANTS
  Enqueuers,   \* threads that call stream_enqueue
  Poppers,     \* threads that call stream_pop
  Waits,       \* the values of wait that they may call it with
  Nodes,       \* the nodes in circulation
  NULL,        \* the null pointer
  NoThread,    \* the owner of a free lock
  MaxEmpty     \* bound on the pops that find the stream empty

ASSUME StreamAssumption ==
  /\ Enqueuers \cap Poppers = {}
  /\ Waits \subseteq BOOLEAN
  /\ NoThread \notin Poppers
  /\ NULL \notin Nodes
  /\ IsFiniteSet(Enqueuers)
  /\ MaxEmpty \in Nat

VARIABLES
  wait,       \* TRUE for rx_to_hd, FALSE for hd_to_rx: every pop of a stream
              \* passes the same value
  pc,         \* control state of each thread
  held,       \* the node a thread is enqueuing, or was handed
  expected,   \* the old value of its compare-and-swap, while it needs one
  in_queue,   \* newest node first
  out_queue,  \* oldest node first
  length,
  waiting,
  lock,       \* owner of stream->lock
  empty       \* ghost: pops that returned NULL

locals == <<held, expected>>
queues == <<in_queue, out_queue>>
counters == <<length, waiting, empty>>
vars == <<wait, pc, held, expected, in_queue, out_queue, length, waiting, lock, empty>>

Threads == Enqueuers \cup Poppers

\* The pointer to a list.
First(list) == IF list = <<>> THEN NULL ELSE Head(list)

\* A list linked the other way round.
Reversed(list) == [i \in 1..Len(list) |-> list[Len(list) - i + 1]]

Goto(t, label) == pc' = [pc EXCEPT ![t] = label]

\* The content of the stream, oldest first.
Queue == out_queue \o Reversed(in_queue)

Members(s) == {s[i] : i \in 1..Len(s)}

\* Nodes that belong to no list and no thread.
Free == Nodes \ (Members(in_queue) \cup Members(out_queue)
                  \cup {held[t] : t \in Threads})

Init ==
  /\ wait \in Waits
  /\ pc = [t \in Threads |-> "idle"]
  /\ held = [t \in Threads |-> NULL]
  /\ expected = [t \in Threads |-> NULL]
  /\ in_queue = <<>>
  /\ out_queue = <<>>
  /\ length = 0
  /\ waiting = 0
  /\ lock = NoThread
  /\ empty = 0

-----------------------------------------------------------------------------
(* stream_enqueue *)

Enqueue(t) ==
  /\ pc[t] = "idle"
  /\ \E node \in Free : held' = [held EXCEPT ![t] = node]
  /\ Goto(t, "read")
  /\ UNCHANGED <<wait, expected, queues, counters, lock>>

\* node->next = in_queue
ReadIn(t) ==
  /\ pc[t] = "read"
  /\ expected' = [expected EXCEPT ![t] = First(in_queue)]
  /\ Goto(t, "push")
  /\ UNCHANGED <<wait, held, queues, counters, lock>>

\* Mutant: a plain store instead of the compare-and-swap.
PushUnchecked(t) ==
  /\ pc[t] = "push"
  /\ in_queue' = IF First(in_queue) = expected[t] THEN <<held[t]>> \o in_queue
                                                  ELSE <<held[t]>>
  /\ held' = [held EXCEPT ![t] = NULL]
  /\ expected' = [expected EXCEPT ![t] = NULL]
  /\ Goto(t, "count")
  /\ UNCHANGED <<wait, out_queue, counters, lock>>

\* node->next is the expected head, so the node lands on top of whatever
\* list that head has now.
Push(t) ==
  /\ pc[t] = "push"
  /\ First(in_queue) = expected[t]
  /\ in_queue' = <<held[t]>> \o in_queue
  /\ held' = [held EXCEPT ![t] = NULL]
  /\ expected' = [expected EXCEPT ![t] = NULL]
  /\ Goto(t, "count")
  /\ UNCHANGED <<wait, out_queue, counters, lock>>

PushFails(t) ==
  /\ pc[t] = "push"
  /\ First(in_queue) # expected[t]
  /\ expected' = [expected EXCEPT ![t] = NULL]
  /\ Goto(t, "read")
  /\ UNCHANGED <<wait, held, queues, counters, lock>>

Count(t) ==
  /\ pc[t] = "count"
  /\ length' = length + 1
  /\ Goto(t, "look")
  /\ UNCHANGED <<wait, locals, queues, waiting, empty, lock>>

LookForWaiters(t) ==
  /\ pc[t] = "look"
  /\ Goto(t, IF waiting > 0 THEN "signal" ELSE "idle")
  /\ UNCHANGED <<wait, locals, queues, counters, lock>>

\* pthread_cond_signal wakes one of the threads blocked on the condition, if
\* there is one; otherwise it has no effect.
Signal(t) ==
  /\ pc[t] = "signal"
  /\ LET Blocked == {s \in Poppers : pc[s] = "blocked"}
     IN  \/ \E s \in Blocked : pc' = [pc EXCEPT ![t] = "idle", ![s] = "woken"]
         \/ Blocked = {} /\ Goto(t, "idle")
  /\ UNCHANGED <<wait, locals, queues, counters, lock>>

-----------------------------------------------------------------------------
(* stream_pop *)

\* Mutant: the thread does not announce itself in `waiting`.
PopUncounted(t) ==
  /\ pc[t] = "idle"
  /\ wait \/ Queue # <<>> \/ empty < MaxEmpty
  /\ lock = NoThread
  /\ lock' = t
  /\ Goto(t, "test")
  /\ UNCHANGED <<wait, locals, queues, counters>>

Pop(t) ==
  /\ pc[t] = "idle"
  /\ wait \/ Queue # <<>> \/ empty < MaxEmpty
  /\ lock = NoThread
  /\ lock' = t
  /\ waiting' = waiting + 1
  /\ Goto(t, "test")
  /\ UNCHANGED <<wait, locals, queues, length, empty>>

\* while (wait && stream->length == 0)
Test(t) ==
  /\ pc[t] = "test"
  /\ Goto(t, IF wait /\ length = 0 THEN "block" ELSE "leave")
  /\ UNCHANGED <<wait, locals, queues, counters, lock>>

\* pthread_cond_wait: from here on a signal reaches the thread, not before.
Block(t) ==
  /\ pc[t] = "block"
  /\ lock' = NoThread
  /\ Goto(t, "blocked")
  /\ UNCHANGED <<wait, locals, queues, counters>>

SpuriousWakeup(t) ==
  /\ pc[t] = "blocked"
  /\ Goto(t, "woken")
  /\ UNCHANGED <<wait, locals, queues, counters, lock>>

\* Mutant: `if` instead of `while`: the length is not tested again.
WakeUntested(t) ==
  /\ pc[t] = "woken"
  /\ lock = NoThread
  /\ lock' = t
  /\ Goto(t, "leave")
  /\ UNCHANGED <<wait, locals, queues, counters>>

Wake(t) ==
  /\ pc[t] = "woken"
  /\ lock = NoThread
  /\ lock' = t
  /\ Goto(t, "test")
  /\ UNCHANGED <<wait, locals, queues, counters>>

Leave(t) ==
  /\ pc[t] = "leave"
  /\ waiting' = waiting - 1
  /\ Goto(t, IF out_queue = <<>> THEN "head" ELSE "take")
  /\ UNCHANGED <<wait, locals, queues, length, empty, lock>>

ReadHead(t) ==
  /\ pc[t] = "head"
  /\ expected' = [expected EXCEPT ![t] = First(in_queue)]
  /\ Goto(t, IF in_queue = <<>> THEN "take" ELSE "grab")
  /\ UNCHANGED <<wait, held, queues, counters, lock>>

\* Mutant: the list is read but not swapped out.
GrabNoSwap(t) ==
  /\ pc[t] = "grab"
  /\ First(in_queue) = expected[t]
  /\ out_queue' = Reversed(in_queue) \o out_queue
  /\ expected' = [expected EXCEPT ![t] = NULL]
  /\ Goto(t, "take")
  /\ UNCHANGED <<wait, held, in_queue, counters, lock>>

\* Mutant: the list is not reversed.
GrabInOrder(t) ==
  /\ pc[t] = "grab"
  /\ First(in_queue) = expected[t]
  /\ out_queue' = in_queue \o out_queue
  /\ in_queue' = <<>>
  /\ expected' = [expected EXCEPT ![t] = NULL]
  /\ Goto(t, "take")
  /\ UNCHANGED <<wait, held, counters, lock>>

\* The swap with NULL succeeds and the list is reversed into out_queue.
Grab(t) ==
  /\ pc[t] = "grab"
  /\ First(in_queue) = expected[t]
  /\ out_queue' = Reversed(in_queue) \o out_queue
  /\ in_queue' = <<>>
  /\ expected' = [expected EXCEPT ![t] = NULL]
  /\ Goto(t, "take")
  /\ UNCHANGED <<wait, held, counters, lock>>

GrabFails(t) ==
  /\ pc[t] = "grab"
  /\ First(in_queue) # expected[t]
  /\ expected' = [expected EXCEPT ![t] = NULL]
  /\ Goto(t, "head")
  /\ UNCHANGED <<wait, held, queues, counters, lock>>

Take(t) ==
  /\ pc[t] = "take"
  /\ length' = length - 1
  /\ held' = [held EXCEPT ![t] = First(out_queue)]
  /\ \/ /\ out_queue # <<>>
        /\ out_queue' = Tail(out_queue)
        /\ Goto(t, "popped")
        /\ UNCHANGED empty
     \/ /\ out_queue = <<>>
        /\ empty' = empty + 1
        /\ Goto(t, "idle")
        /\ UNCHANGED out_queue
  /\ lock' = NoThread
  /\ UNCHANGED <<wait, expected, in_queue, waiting>>

\* The caller is done with the node; it may be enqueued again.
Recycle(t) ==
  /\ pc[t] = "popped"
  /\ held' = [held EXCEPT ![t] = NULL]
  /\ Goto(t, "idle")
  /\ UNCHANGED <<wait, expected, queues, counters, lock>>

-----------------------------------------------------------------------------
EnqueueStep(t) ==
  \/ ReadIn(t) \/ Push(t) \/ PushFails(t)
  \/ Count(t) \/ LookForWaiters(t) \/ Signal(t)

PopStep(t) ==
  \/ Test(t) \/ Block(t) \/ Wake(t) \/ Leave(t)
  \/ ReadHead(t) \/ Grab(t) \/ GrabFails(t) \/ Take(t)

Next ==
  \/ \E t \in Enqueuers : Enqueue(t) \/ EnqueueStep(t)
  \/ \E t \in Poppers : Pop(t) \/ PopStep(t) \/ SpuriousWakeup(t) \/ Recycle(t)

Spec == Init /\ [][Next]_vars

\* A thread inside a call keeps running; the mutex is handed to a thread that
\* asks for it again and again; a popper calls again.  Nobody has to enqueue,
\* and no wakeup has to be spurious.
FairSpec ==
  /\ Spec
  /\ \A t \in Enqueuers : WF_vars(EnqueueStep(t))
  /\ \A t \in Poppers : SF_vars(Pop(t) \/ PopStep(t) \/ Recycle(t))

-----------------------------------------------------------------------------
(* Properties *)

\* No node is twice in the stream, owned twice, or owned and in the stream,
\* although nodes are enqueued again and a compare-and-swap may succeed on a
\* recycled head.  That none is lost is said by LengthCounts and ImplementsFifo.
EachNodeOnce ==
  LET Lists == in_queue \o out_queue
  IN  /\ \A i, j \in 1..Len(Lists) : Lists[i] = Lists[j] => i = j
      /\ \A t \in Threads : held[t] # NULL => held[t] \notin Members(Lists)
      /\ \A s, t \in Threads : held[s] = held[t] /\ held[s] # NULL => s = t

\* stream->length counts the nodes of the stream, minus those whose enqueuer
\* has not counted them yet and the pops that found nothing.
LengthCounts ==
  length + Cardinality({t \in Enqueuers : pc[t] = "count"}) = Len(Queue) - empty

\* stream.h: "if wait == true: always returns a value": a pop of rx_to_hd, where
\* every pop waits, comes to the node it returns with out_queue not empty.
WaitingPopReturnsNode ==
  wait => \A t \in Poppers : pc[t] = "take" => out_queue # <<>>

\* stream.h: a waiting pop "will wait for an element to be available" and
\* "always returns a value": a node in the stream is popped in the end.
EveryNodeIsPopped ==
  \A n \in Nodes : n \in Members(Queue) ~> n \notin Members(Queue)

\* A thread asleep over a node whose signal came too early sleeps at most
\* until the next enqueue: that one sees it in `waiting` and wakes somebody.
EnqueueWakesSomebody ==
  ((\E e \in Enqueuers : pc[e] = "read") /\ \A p \in Poppers : pc[p] = "blocked")
    ~> (\E p \in Poppers : pc[p] # "blocked")

F == INSTANCE Fifo WITH queue <- Queue, got <- [p \in Poppers |-> held[p]]

\* The stream is a FIFO (Fifo.tla).  A node enters it when its push succeeds
\* and leaves it when a popper takes it.
ImplementsFifo == F!Spec
=============================================================================
