----------------------------- MODULE Lifecycle -----------------------------
(***************************************************************************)
(* The life of the program, from src/main.c: main acquires what it needs   *)
(* one piece after the other, starts the threads, loops until SIGINT, and  *)
(* takes everything down with deallocate_everything, which it also calls   *)
(* when a piece cannot be acquired.                                        *)
(*                                                                         *)
(* A resource is a kind and an index; the index 0 is an array or a thing   *)
(* of which there is one.  The threads are reduced to the requests that    *)
(* go from the receivers to the handlers (modules Receiver and Handler)    *)
(* and the streams to queues with the two steps in which a pop goes to     *)
(* sleep (module Stream has the others).                                   *)
(***************************************************************************)
EXTENDS Integers, SequencesExt

CONSTANTS
  Settings,       \* what config_rcv_t may be after the files were read
  FailAt,         \* the kinds of resources that may be refused
  StopFails,      \* whether a stop request may fail to be allocated
  MaxSignals,     \* bound on the SIGINTs
  MaxRequests     \* bound on the requests

ASSUME LifecycleAssumption ==
  \A c \in Settings :
    /\ {c.receive_num, c.handle_num, c.stream_count} \subseteq Nat \ {0}
    /\ c.receive_streams \in [1 .. c.receive_num -> 1 .. c.stream_count]
    /\ c.handle_streams \in [1 .. c.handle_num -> 1 .. c.stream_count]
    /\ c.sequential => {c.receive_num, c.handle_num, c.stream_count} = {1}

VARIABLES
  config,       \* the settings of this run of the program
  pc,           \* where main is
  step,         \* the next piece of start-up, or of deallocate_everything
  held,         \* the resources that are allocated
  threads,      \* the threads: "none", "created", "running" or "exited"; a
                \* handler in a pop also "tested" or "asleep"
  stop,         \* rx_cfg_t.stop of each receiver
  queue,        \* rx_to_hd: "request" and "stop"
  requests,     \* requests made so far
  lost,         \* requests freed before a handler had them
  refused,      \* ghost: the kinds of resources that were refused
  global_stop,
  stop_mutex,   \* "free", "main" or "destroyed"
  interrupted,  \* how far a thread is in handle_stop, or "no"
  signals       \* SIGINTs so far

vars == <<config, pc, step, held, threads, stop, queue, requests, lost, refused,
          global_stop, stop_mutex, interrupted, signals>>

receive_num == config.receive_num
handle_num == config.handle_num
stream_count == config.stream_count
receive_streams == config.receive_streams
handle_streams == config.handle_streams
sequential == config.sequential

Receivers == {<<"receiver", i>> : i \in 1 .. receive_num}
Handlers == {<<"handler", i>> : i \in 1 .. handle_num}
Main == <<"main", 0>>
All == Receivers \cup Handlers \cup {Main}
Streams == 1 .. stream_count

One(kind) == <<<<kind, 0>>>>
Each(kind, n) == [i \in 1 .. n |-> <<kind, i>>]
Pairs(a, b, n) == FlattenSeq([i \in 1 .. n |-> <<<<a, i>>, <<b, i>>>>])

\* What main acquires, in its order.  A socket is there once it is bound.
Sockets(c) == Each("socket", c.stream_count)
StreamsMade(c, kind) == One(kind) \o Each(kind, c.stream_count)
Table == One("clients")
Configurations(c) ==
  One("rx_configs") \o Each("rx_configs", c.receive_num)
  \o One("hd_configs") \o Each("hd_configs", c.handle_num)

\* For a thread, the memory of a pthread_t and then the thread.
Threads(c) ==
  IF c.sequential THEN <<>>
  ELSE Pairs("rx_thread", "receiver", c.receive_num)
       \o Pairs("hd_thread", "handler", c.handle_num)

\* Without threads, main has the packet that a handler decodes into.
Stopping(c) ==
  One("stop_mutex") \o One("stop_cond")
  \o (IF c.sequential THEN One("decoded") ELSE <<>>)

StartUp(c) ==
  Sockets(c) \o StreamsMade(c, "rx_to_hd") \o StreamsMade(c, "hd_to_rx") \o Table
  \o Configurations(c) \o Threads(c) \o Stopping(c)

\* The parts of deallocate_everything: it stops the receivers and waits for
\* them, sends handle_num stop requests to every stream, waits for the
\* handlers, and frees the rest.
ReceiversStop(c) ==
  Pairs("stop receiver", "join receiver", c.receive_num) \o One("rx_configs")
StopRequests(c) ==
  FlattenSeq([i \in 1 .. c.handle_num |-> Each("send stop", c.stream_count)])
HandlersStop(c) == Each("join handler", c.handle_num) \o One("hd_configs")
SocketsClose(c) == One("config") \o Each("socket", c.stream_count)
StreamsGo(c, kind) == Each(kind, c.stream_count) \o One(kind)

\* Mutants: the handlers are told to stop while receivers still run; the
\* table goes before the handlers do; the streams back to the receivers are
\* forgotten; every stream gets one stop request.
CleanUpHandlersFirst(c) ==
  StopRequests(c) \o ReceiversStop(c) \o HandlersStop(c) \o SocketsClose(c)
  \o StreamsGo(c, "rx_to_hd") \o StreamsGo(c, "hd_to_rx") \o One("clients")
CleanUpTableFirst(c) ==
  ReceiversStop(c) \o StopRequests(c) \o One("clients") \o HandlersStop(c)
  \o SocketsClose(c) \o StreamsGo(c, "rx_to_hd") \o StreamsGo(c, "hd_to_rx")
CleanUpOneWay(c) ==
  ReceiversStop(c) \o StopRequests(c) \o HandlersStop(c) \o SocketsClose(c)
  \o StreamsGo(c, "rx_to_hd") \o One("clients")
CleanUpOneStop(c) ==
  ReceiversStop(c) \o Each("send stop", c.stream_count) \o HandlersStop(c)
  \o SocketsClose(c) \o StreamsGo(c, "rx_to_hd") \o StreamsGo(c, "hd_to_rx")
  \o One("clients")

\* deallocate_everything
CleanUp(c) ==
  ReceiversStop(c) \o StopRequests(c) \o HandlersStop(c) \o SocketsClose(c)
  \o StreamsGo(c, "rx_to_hd") \o StreamsGo(c, "hd_to_rx") \o One("clients")

StartUps == [c \in Settings |-> StartUp(c)]
CleanUps == [c \in Settings |-> CleanUp(c)]
start_up == StartUps[config]
clean_up == CleanUps[config]

Init ==
  /\ config \in Settings
  /\ pc = "starting"
  /\ step = 1
  /\ held = {<<"config", 0>>}
  /\ threads = [t \in Receivers \cup Handlers |-> "none"]
  /\ stop = [r \in Receivers |-> FALSE]
  /\ queue = [s \in Streams |-> <<>>]
  /\ requests = 0
  /\ lost = 0
  /\ refused = {}
  /\ global_stop = FALSE
  /\ stop_mutex = "free"
  /\ interrupted = [t \in All |-> "no"]
  /\ signals = 0

Over == pc \in {"returned", "exited", "crashed"}

\* The thread is neither dead nor busy with a signal.
Runs(t) == ~Over /\ interrupted[t] = "no"
At(where) == pc = where /\ Runs(Main)
-----------------------------------------------------------------------------
(* Start-up *)

Acquire ==
  /\ At("starting")
  /\ step <= Len(start_up)
  /\ held' = held \cup {start_up[step]}
  /\ threads' = IF start_up[step] \in DOMAIN threads
                THEN [threads EXCEPT ![start_up[step]] = "created"] ELSE threads
  /\ step' = step + 1
  /\ UNCHANGED <<pc, stop, queue, requests, lost, global_stop, stop_mutex,
                 interrupted, signals, refused>>

\* A socket, or decoded: main returns at once.  The mutex or the condition:
\* main cleans up and goes on, in the second case without the mutex.  Anything
\* else: main cleans up and returns.
AcquireFails ==
  /\ At("starting")
  /\ step <= Len(start_up)
  /\ LET kind == start_up[step][1]
     IN /\ kind \in FailAt
        /\ pc' = CASE kind \in {"socket", "decoded"} -> "returned"
                   [] kind = "stop_mutex" -> "cleaning, then condition"
                   [] kind = "stop_cond" -> "cleaning, then loop"
                   [] OTHER -> "cleaning"
        /\ held' = held \ (IF kind = "stop_cond" THEN {<<"stop_mutex", 0>>} ELSE {})
        /\ refused' = refused \cup {kind}
  /\ step' = 1
  /\ UNCHANGED <<threads, stop, queue, requests, lost, global_stop, stop_mutex,
                 interrupted, signals>>

\* signal(SIGINT, handle_stop)
EnterLoop ==
  /\ At("starting")
  /\ step > Len(start_up)
  /\ pc' = "loop"
  /\ UNCHANGED <<step, held, threads, stop, queue, requests, lost,
                 global_stop, stop_mutex, interrupted, signals, refused>>
-----------------------------------------------------------------------------
(* The loop of main *)

\* What follows is undefined: main reads through a null pointer or one that was
\* freed, locks a mutex that is not there, or joins a thread that is not.
Crash == pc' = "crashed" /\ UNCHANGED <<step, held, threads, stop, queue, lost>>

LoopLock ==
  /\ At("loop")
  /\ \/ <<"stop_mutex", 0>> \notin held /\ Crash /\ UNCHANGED stop_mutex
     \/ /\ <<"stop_mutex", 0>> \in held /\ stop_mutex = "free"
        /\ stop_mutex' = "main"
        /\ pc' = "locked"
        /\ UNCHANGED <<step, held, threads, stop, queue, lost>>
  /\ UNCHANGED <<requests, global_stop, interrupted, signals, refused>>

\* global_stop is tested, and the mutex released.
LoopTest ==
  /\ At("locked")
  /\ stop_mutex' = "free"
  /\ pc' = IF global_stop THEN "leaving" ELSE "working"
  /\ UNCHANGED <<step, held, threads, stop, queue, requests, lost,
                 global_stop, interrupted, signals, refused>>

\* In sequential mode rx_run_once, and hd_run_once until no request is left;
\* else the removal of clients and sleep(1).
Work ==
  /\ At("working")
  /\ \/ sequential /\ requests < MaxRequests /\ requests' = requests + 1
     \/ UNCHANGED requests
  /\ pc' = "loop"
  /\ UNCHANGED <<step, held, threads, stop, queue, lost, global_stop,
                 stop_mutex, interrupted, signals, refused>>

\* The packet is freed, the mutex and the condition are destroyed.
Leave ==
  /\ At("leaving")
  /\ stop_mutex' = "destroyed"
  /\ held' = held \ {<<"decoded", 0>>, <<"stop_mutex", 0>>, <<"stop_cond", 0>>}
  /\ pc' = "cleaning"
  /\ step' = 1
  /\ UNCHANGED <<threads, stop, queue, requests, lost, global_stop,
                 interrupted, signals, refused>>
-----------------------------------------------------------------------------
(* deallocate_everything *)

Cleaning ==
  pc \in {"cleaning", "cleaning, then condition", "cleaning, then loop"}

Cleans(kind) ==
  Cleaning /\ Runs(Main) /\ step <= Len(clean_up) /\ clean_up[step][1] = kind

index == clean_up[step][2]
rx_config == <<"rx_configs", index>>
hd_config == <<"hd_configs", index>>
receiver == <<"receiver", index>>
handler == <<"handler", index>>

Skip == step' = step + 1 /\ UNCHANGED <<pc, held, threads, stop, queue, lost>>

StopReceiver ==
  /\ Cleans("stop receiver")
  /\ \/ <<"rx_configs", 0>> \notin held /\ Crash
     \/ /\ <<"rx_configs", 0>> \in held
        /\ <<"rx_thread", index>> \notin held
        /\ Skip
     \/ /\ {<<"rx_configs", 0>>, <<"rx_thread", index>>} \subseteq held
        /\ stop' = [stop EXCEPT ![receiver] = TRUE]
        /\ step' = step + 1
        /\ UNCHANGED <<pc, held, threads, queue, lost>>
  /\ UNCHANGED <<requests, global_stop, stop_mutex, interrupted, signals, refused>>

\* pthread_join, when there is a thread, and the two calls of free.
JoinReceiver ==
  /\ Cleans("join receiver")
  /\ \/ <<"rx_thread", index>> \in held /\ threads[receiver] = "none" /\ Crash
     \/ /\ <<"rx_thread", index>> \in held => threads[receiver] = "exited"
        /\ held' = held \ {<<"rx_thread", index>>, receiver, rx_config}
        /\ step' = step + 1
        /\ UNCHANGED <<pc, threads, stop, queue, lost>>
  /\ UNCHANGED <<requests, global_stop, stop_mutex, interrupted, signals, refused>>

\* The handlers that pop from stream s.
Poppers(s) == {h \in Handlers : handle_streams[h[2]] = s}

\* stream_enqueue: the signal wakes one handler of those that are asleep.
Enqueue(s, node) ==
  /\ queue' = [queue EXCEPT ![s] = Append(@, node)]
  /\ LET asleep == {h \in Poppers(s) : threads[h] = "asleep"}
     IN IF asleep = {} THEN UNCHANGED threads
        ELSE \E h \in asleep : threads' = [threads EXCEPT ![h] = "running"]

\* The streams are there: they are acquired before rx_configs.
SendStop ==
  /\ Cleans("send stop")
  /\ \/ /\ Enqueue(index, "stop")
        /\ step' = step + 1
        /\ UNCHANGED <<pc, held, stop, lost, refused>>
     \/ StopFails /\ Skip /\ refused' = refused \cup {"stop"}
  /\ UNCHANGED <<requests, global_stop, stop_mutex, interrupted, signals>>

\* Mutant: there is no test for a thread.
JoinHandlerAlways ==
  /\ Cleans("join handler")
  /\ \/ threads[handler] = "none" /\ Crash
     \/ /\ threads[handler] = "exited"
        /\ held' = held \ {<<"hd_thread", index>>, handler, hd_config}
        /\ step' = step + 1
        /\ UNCHANGED <<pc, threads, stop, queue, lost>>
  /\ UNCHANGED <<requests, global_stop, stop_mutex, interrupted, signals, refused>>

JoinHandler ==
  /\ Cleans("join handler")
  /\ \/ <<"hd_thread", index>> \in held /\ threads[handler] = "none" /\ Crash
     \/ /\ <<"hd_thread", index>> \in held => threads[handler] = "exited"
        /\ held' = held \ {<<"hd_thread", index>>, handler, hd_config}
        /\ step' = step + 1
        /\ UNCHANGED <<pc, threads, stop, queue, lost>>
  /\ UNCHANGED <<requests, global_stop, stop_mutex, interrupted, signals, refused>>

Simple == {"rx_configs", "hd_configs", "config", "socket", "rx_to_hd",
           "hd_to_rx", "clients"}

\* The nodes that are left in stream s are popped and freed.
dealloc_stream(s) ==
  /\ lost' = lost + Len(SelectSeq(queue[s], LAMBDA x : x = "request"))
  /\ queue' = [queue EXCEPT ![s] = <<>>]

\* close, dealloc_stream, dealloc_ht, free: each after a test for NULL.
Free ==
  /\ \E kind \in Simple : Cleans(kind)
  /\ held' = held \ {clean_up[step]}
  /\ IF clean_up[step][1] = "rx_to_hd" /\ index # 0
     THEN dealloc_stream(index)
     ELSE UNCHANGED <<lost, queue>>
  /\ step' = step + 1
  /\ UNCHANGED <<pc, threads, stop, requests, global_stop, stop_mutex,
                 interrupted, signals, refused>>

CleaningEnds ==
  /\ Cleaning /\ Runs(Main)
  /\ step > Len(clean_up)
  /\ pc' = IF pc = "cleaning" THEN "returned" ELSE "starting"
  /\ step' = Len(start_up) - Len(Stopping(config))
             + IF pc = "cleaning, then condition" THEN 2 ELSE 3
  /\ UNCHANGED <<held, threads, stop, queue, requests, lost, global_stop,
                 stop_mutex, interrupted, signals, refused>>
-----------------------------------------------------------------------------
(* The threads *)

\* A receiver fills in the headers that it passes to recvmmsg.
ReceiverStarts(r) ==
  /\ Runs(r)
  /\ threads[r] = "created"
  /\ threads' = [threads EXCEPT ![r] = "running"]
  /\ UNCHANGED <<pc, step, held, stop, queue, requests, lost, global_stop,
                 stop_mutex, interrupted, signals, refused>>

\* A handler allocates the packet it decodes into, or gives up.
HandlerStarts(h) ==
  /\ Runs(h)
  /\ threads[h] = "created"
  /\ \/ threads' = [threads EXCEPT ![h] = "running"] /\ UNCHANGED refused
     \/ /\ "decoded" \in FailAt
        /\ threads' = [threads EXCEPT ![h] = "exited"]
        /\ refused' = refused \cup {"decoded"}
  /\ UNCHANGED <<pc, step, held, stop, queue, requests, lost, global_stop,
                 stop_mutex, interrupted, signals>>

\* A round of rx_run_once that sends a request.
Receive(r) ==
  /\ Runs(r)
  /\ threads[r] = "running" /\ ~stop[r]
  /\ requests < MaxRequests
  /\ requests' = requests + 1
  /\ Enqueue(receive_streams[r[2]], "request")
  /\ UNCHANGED <<pc, step, held, stop, lost, global_stop, stop_mutex,
                 interrupted, signals, refused>>

ReceiverExits(r) ==
  /\ Runs(r)
  /\ threads[r] = "running" /\ stop[r]
  /\ threads' = [threads EXCEPT ![r] = "exited"]
  /\ UNCHANGED <<pc, step, held, stop, queue, requests, lost, global_stop,
                 stop_mutex, interrupted, signals, refused>>

\* The handler has the lock of its stream or can take it: nobody is between
\* the test of the length and pthread_cond_wait.
Pops(h) ==
  /\ Runs(h)
  /\ threads[h] = "running"
  /\ \A g \in Poppers(handle_streams[h[2]]) : threads[g] # "tested"

\* A round of hd_run_once.
Handle(h) ==
  LET s == handle_streams[h[2]]
  IN /\ Pops(h)
     /\ queue[s] # <<>>
     /\ queue' = [queue EXCEPT ![s] = Tail(@)]
     /\ threads' = IF Head(queue[s]) = "stop"
                   THEN [threads EXCEPT ![h] = "exited"] ELSE threads
     /\ UNCHANGED <<pc, step, held, stop, requests, lost, global_stop,
                    stop_mutex, interrupted, signals, refused>>

\* The pop finds a length of 0 ...
TestLength(h) ==
  /\ Pops(h)
  /\ queue[handle_streams[h[2]]] = <<>>
  /\ threads' = [threads EXCEPT ![h] = "tested"]
  /\ UNCHANGED <<pc, step, held, stop, queue, requests, lost, global_stop,
                 stop_mutex, interrupted, signals, refused>>

\* ... and waits, whatever the stream holds by now: stream_enqueue counts and
\* signals without the lock.
Sleep(h) ==
  /\ Runs(h)
  /\ threads[h] = "tested"
  /\ threads' = [threads EXCEPT ![h] = "asleep"]
  /\ UNCHANGED <<pc, step, held, stop, queue, requests, lost, global_stop,
                 stop_mutex, interrupted, signals, refused>>

\* pthread_cond_wait may return without a signal.
WakeUp(h) ==
  /\ Runs(h)
  /\ threads[h] = "asleep"
  /\ threads' = [threads EXCEPT ![h] = "running"]
  /\ UNCHANGED <<config, pc, step, held, stop, queue, requests, lost, global_stop,
                 stop_mutex, interrupted, signals, refused>>
-----------------------------------------------------------------------------
(* handle_stop, on whichever thread the signal arrives *)

\* signal was called: main is in the loop or past it.
SignalSet ==
  pc \in {"loop", "locked", "working", "leaving"} \/ stop_mutex = "destroyed"

Signal(t) ==
  /\ SignalSet
  /\ Runs(t)
  /\ t # Main => threads[t] \in {"running", "tested", "asleep"}
  /\ signals < MaxSignals
  /\ signals' = signals + 1
  /\ interrupted' = [interrupted EXCEPT ![t] = "test"]
  /\ UNCHANGED <<pc, step, held, threads, stop, queue, requests, lost,
                 global_stop, stop_mutex, refused, config>>

In(t, where) == ~Over /\ interrupted[t] = where

\* A second SIGINT ends the program.
StopTest(t) ==
  /\ In(t, "test")
  /\ \/ global_stop /\ pc' = "exited" /\ UNCHANGED interrupted
     \/ /\ ~global_stop
        /\ interrupted' = [interrupted EXCEPT ![t] = "lock"]
        /\ UNCHANGED pc
  /\ UNCHANGED <<step, held, threads, stop, queue, requests, lost,
                 global_stop, stop_mutex, signals, refused, config>>

StopSet(t) ==
  /\ In(t, "lock")
  /\ stop_mutex # "main"
  /\ global_stop' = TRUE
  /\ interrupted' = [interrupted EXCEPT ![t] = "no"]
  /\ UNCHANGED <<pc, step, held, threads, stop, queue, requests, lost,
                 stop_mutex, signals, refused, config>>
-----------------------------------------------------------------------------
MainStep ==
  /\ \/ Acquire \/ AcquireFails \/ EnterLoop \/ LoopLock \/ LoopTest \/ Work
     \/ Leave \/ StopReceiver \/ JoinReceiver \/ SendStop \/ JoinHandler \/ Free
     \/ CleaningEnds
  /\ UNCHANGED config

ThreadStep(t) ==
  /\ \/ t \in Receivers /\ (ReceiverStarts(t) \/ Receive(t) \/ ReceiverExits(t))
     \/ t \in Handlers /\ (HandlerStarts(t) \/ Handle(t) \/ TestLength(t) \/ Sleep(t))
  /\ UNCHANGED config

Next ==
  \/ MainStep
  \/ \E t \in Receivers \cup Handlers : ThreadStep(t)
  \/ \E h \in Handlers : WakeUp(h)
  \/ \E t \in All : Signal(t) \/ StopTest(t) \/ StopSet(t)

Spec == Init /\ [][Next]_vars

\* Every thread is scheduled: recvmmsg returns within 100 ms (SO_RCVTIMEO), and
\* a pop that found its stream empty goes to sleep.  A thread that sleeps is
\* woken by stream_enqueue alone: nothing is assumed of WakeUp.  A thread that
\* waits in handle_stop gets the mutex, which main has for an instant in every
\* round.
AnyThread ==
  {Main} \cup UNION {({"receiver"} \X (1 .. c.receive_num))
                     \cup ({"handler"} \X (1 .. c.handle_num)) : c \in Settings}

Fairness ==
  /\ WF_vars(MainStep)
  /\ \A t \in AnyThread : WF_vars(ThreadStep(t))
  /\ SF_vars(\E t \in All : StopTest(t) \/ StopSet(t))

FairSpec == Spec /\ Fairness
-----------------------------------------------------------------------------
(* Properties *)

Untested == {"rx_to_hd", "hd_to_rx", "clients", "rx_configs", "receiver",
             "handler", "stop_mutex", "stop_cond"}

\* However far the start-up got, the loop and deallocate_everything follow no
\* null pointer, lock no mutex that is not there and join no thread that was
\* not created, unless the start-up failed at a piece they use without a test.
NoCrash == pc = "crashed" => refused \cap Untested # {}

\* While a thread runs, what its configuration points to is there: the
\* configuration, the streams and the socket of its stream, the table.
ThreadsKeepTheirs ==
  \A t \in Receivers \cup Handlers :
    threads[t] \notin {"none", "exited"} =>
      LET s == IF t \in Receivers THEN receive_streams[t[2]]
               ELSE handle_streams[t[2]]
      IN {<<IF t \in Receivers THEN "rx_configs" ELSE "hd_configs", t[2]>>,
          <<"rx_to_hd", s>>, <<"hd_to_rx", s>>, <<"socket", s>>,
          <<"clients", 0>>} \subseteq held

\* A request is thrown away only when something could not be acquired: the
\* handlers stop only after everything the receivers sent.
NoRequestLost == lost > 0 => refused # {}

\* main returns at once when a socket, or in sequential mode the packet, is
\* refused.  Whenever it returns otherwise, all that it acquired has been given
\* back by deallocate_everything, and no thread is left.
AllReleased ==
  /\ pc = "returned"
  /\ "socket" \notin refused
  /\ ~(sequential /\ "decoded" \in refused)
  => /\ held = {}
     /\ \A t \in Receivers \cup Handlers : threads[t] \in {"none", "exited"}

\* The thread that has stop_mutex waits for it in handle_stop.
SelfLocked == interrupted[Main] = "lock" /\ stop_mutex = "main"

\* main waits for a handler that sleeps beside its stop request: the signals
\* came between the test of the length and the wait of each handler that is
\* left, and no other will come.
Overslept ==
  /\ Cleans("join handler")
  /\ threads[handler] = "asleep"
  /\ queue[handle_streams[index]] # <<>>
  /\ \A h \in Poppers(handle_streams[index]) : threads[h] \in {"asleep", "exited"}

\* After SIGINT, on whichever thread and wherever that thread is, the program
\* ends, unless a stop request could not be allocated, the signal hit main
\* inside its own critical section, or a handler overslept its stop request.
StopsAfterSignal ==
  signals > 0 ~> Over \/ "stop" \in refused \/ SelfLocked \/ Overslept
=============================================================================
