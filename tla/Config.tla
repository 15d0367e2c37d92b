------------------------------- MODULE Config -------------------------------
(***************************************************************************)
(* The configuration of the receiver: parse_receiver, parse_affinity_file  *)
(* and parse_streams_file of src/cli.c, and what main (src/main.c) makes   *)
(* of their results.  The two files are read piece by piece: every piece   *)
(* is any of a few texts, so every short file is read.  A text is what     *)
(* str2size sees of it: is it empty or does it start with a space, which   *)
(* number does strtol read, and which character ends it.                   *)
(***************************************************************************)
EXTENDS Integers, FiniteSets

CONSTANTS
  NULL,
  U16,              \* 65536, scaled down
  INT_MAX,
  MAX_WINDOW_SIZE,
  Arguments,        \* command lines: see ArgumentsOK
  Texts             \* the texts that occur in the files

VARIABLES
  phase,   \* the function that runs, or "ready", "failed" or "undefined"
  args,    \* the command line
  config,  \* config_rcv_t
  i,       \* lines of streams.cfg read
  count,   \* texts read in this line, per kind of thread
  named    \* texts of streams.cfg that were used

vars == <<phase, args, config, i, count, named>>

Kinds == {"receive", "handle"}

\* The phases that read a line of affinity.cfg, and half a line of
\* streams.cfg.
Affinities(kind) == IF kind = "receive" THEN "rx_affinities" ELSE "hd_affinities"
Streams(kind) == IF kind = "receive" THEN "receivers" ELSE "handlers"

\* A command line: the first error getopt meets, how many arguments are not
\* options, is the file format valid, is the address, is -s given; and the
\* texts of m, n, N, w, W and of the port.
ArgumentsOK(a) ==
  /\ a.option \in {"OK", "CLI_O_VALUE_MISSING", "CLI_UNKNOWN_OPTION"}
  /\ a.positional \in 0..3
  /\ a.format \in BOOLEAN /\ a.ip \in BOOLEAN /\ a.sequential \in BOOLEAN

ASSUME ArgumentsAssumption == \A a \in Arguments : ArgumentsOK(a)

UNSET == 0 - 1

FAILED == 0 - 1

str2size(s) ==
  IF s.blank \/ s.value > INT_MAX \/ s.value < 0 \/ s.end \notin {"", "\n"}
  THEN FAILED
  ELSE s.value

-----------------------------------------------------------------------------
(* The command line *)

\* The options getopt meets, then the address, the port and nothing else.
OptionsError(a) ==
  IF a.option # "OK" THEN a.option
  ELSE IF a.positional = 0 THEN "CLI_IP_MISSING"
  ELSE IF a.positional = 1 THEN "CLI_PORT_MISSING"
  ELSE IF a.positional > 2 THEN "CLI_TOO_MANY_ARGUMENTS"
  ELSE "OK"

\* The numbers, in the order of the code; only the window has a limit.
NumbersError(a) ==
  IF str2size(a.m) = FAILED THEN "CLI_MAX_INVALID"
  ELSE IF str2size(a.port) = FAILED THEN "CLI_PORT_INVALID"
  ELSE IF str2size(a.n) = FAILED \/ str2size(a.N) = FAILED
    THEN "CLI_HANDLE_INVALID"
  ELSE IF str2size(a.w) \notin 0..MAX_WINDOW_SIZE \/ str2size(a.W) = FAILED
    THEN "CLI_WINDOW_INVALID"
  ELSE "OK"

\* getaddrinfo, which takes a port of any size; the last address is kept.
AddressError(a) == IF a.ip THEN "OK" ELSE "CLI_IP_INVALID"

ArgumentsError(a) ==
  IF OptionsError(a) # "OK" THEN OptionsError(a)
  ELSE IF ~a.format THEN "CLI_FORMAT_VALIDATION_FAILED"
  ELSE IF NumbersError(a) # "OK" THEN NumbersError(a)
  ELSE AddressError(a)

\* Every number is cast to uint16_t.
Cast(s) == str2size(s) % U16

NoArrays == [kind \in Kinds |-> NULL]

Zeroed == [num |-> [kind \in Kinds |-> 0], sequential |-> FALSE, port |-> 0,
           max_connections |-> 0, max_window |-> 0, receive_window_size |-> 0,
           affinities |-> NoArrays, streams |-> NoArrays, stream_count |-> 0]

Parsed(a) ==
  [Zeroed EXCEPT
     !.num = [receive |-> Cast(a.N), handle |-> Cast(a.n)],
     !.sequential = a.sequential, !.port = Cast(a.port),
     !.max_connections = Cast(a.m), !.max_window = Cast(a.w),
     !.receive_window_size = Cast(a.W)]

Init ==
  /\ phase = "parse_receiver"
  /\ args \in Arguments
  /\ config = Zeroed
  /\ i = 0
  /\ count = [kind \in Kinds |-> 0]
  /\ named = 0

\* With -s, main replaces the numbers and skips both files.
parse_receiver ==
  /\ phase = "parse_receiver"
  /\ IF ArgumentsError(args) # "OK"
     THEN phase' = "failed" /\ UNCHANGED config
     ELSE IF args.sequential
     THEN /\ phase' = "fallback"
          /\ config' = [Parsed(args) EXCEPT !.num = [kind \in Kinds |-> 1],
                                            !.stream_count = 1]
     ELSE phase' = "affinity" /\ config' = Parsed(args)
  /\ UNCHANGED <<args, i, count, named>>

-----------------------------------------------------------------------------
(* affinity.cfg: the processors of the receivers, then of the handlers *)

Array(kind, value) == [t \in 0..(config.num[kind] - 1) |-> value]

\* Every failure, and a file that is not there, frees both arrays; main does
\* not look at the result.
AffinityFails ==
  /\ phase' = "streams"
  /\ config' = [config EXCEPT !.affinities = NoArrays]
  /\ count' = [kind \in Kinds |-> 0]
  /\ UNCHANGED <<args, i, named>>

\* calloc fills the arrays with 0; UNSET tells that 0 from one that was read.
AffinityStart ==
  /\ phase = "affinity"
  /\ \/ AffinityFails
     \/ /\ phase' = Affinities("receive")
        /\ config' = [config EXCEPT
                        !.affinities = [kind \in Kinds |-> Array(kind, UNSET)]]
        /\ UNCHANGED <<args, i, count, named>>

AffinityChunk(kind, text) ==
  /\ phase = Affinities(kind)
  /\ IF count[kind] >= config.num[kind] \/ str2size(text) = FAILED
     THEN AffinityFails
     ELSE /\ config' = [config EXCEPT
                          !.affinities[kind][count[kind]] = str2size(text)]
          /\ count' = [count EXCEPT ![kind] = @ + 1]
          /\ UNCHANGED <<phase, args, i, named>>

\* A plausible slip: only a line that is not there is a failure.
LineMissing(kind) == count[kind] = 0

\* A line that ends too early, or that is not there.
LineShort(kind) == count[kind] # config.num[kind] \/ config.num[kind] = 0

AffinityEnd(kind) ==
  /\ phase = Affinities(kind)
  /\ IF LineShort(kind)
     THEN AffinityFails
     ELSE /\ phase' = IF kind = "receive" THEN Affinities("handle") ELSE "streams"
          /\ count' = IF kind = "receive" THEN count
                      ELSE [k \in Kinds |-> 0]
          /\ UNCHANGED <<args, config, i, named>>

-----------------------------------------------------------------------------
(* streams.cfg: per stream its receivers and its handlers *)

StreamsFail ==
  /\ phase' = "fallback"
  /\ UNCHANGED <<args, i>>

\* No memory for the arrays, or no file: then the arrays are kept.
StreamsStart ==
  /\ phase = "streams"
  /\ UNCHANGED <<args, i, count, named>>
  /\ \/ phase' = "fallback" /\ UNCHANGED config
     \/ /\ phase' \in {"lines", "fallback"}
        /\ config' = [config EXCEPT
                        !.streams = [kind \in Kinds |-> Array(kind, UNSET)]]

StreamsLine ==
  /\ phase = "lines"
  /\ IF i >= config.num["receive"]
     THEN StreamsFail /\ UNCHANGED <<config, count, named>>
     ELSE /\ phase' = Streams("receive")
          /\ i' = i + 1
          /\ count' = [kind \in Kinds |-> 0]
          /\ UNCHANGED <<args, config, named>>

\* A plausible slip: the streams of the other lines are not looked at.
UsedInLine(kind, thread) == config.streams[kind][thread] = i - 1

UsedTwice(kind, thread) == config.streams[kind][thread] # UNSET

\* A number is converted into the array of the line, which has one place per
\* thread, before it is tested.  What the program does after a number that has
\* no place is undefined, and nothing is said about it.
StreamsChunk(kind, text) ==
  /\ phase = Streams(kind)
  /\ count' = [count EXCEPT ![kind] = @ + 1]
  /\ LET thread == str2size(text)
     IN  IF thread # FAILED /\ count[kind] = config.num[kind]
         THEN phase' = "undefined" /\ UNCHANGED <<args, config, i, named>>
         ELSE IF thread = FAILED \/ thread >= config.num[kind]
         THEN StreamsFail /\ UNCHANGED <<config, named>>
         ELSE IF UsedTwice(kind, thread)
         THEN StreamsFail /\ UNCHANGED <<config, named>>
         ELSE /\ config' = [config EXCEPT !.streams[kind][thread] = i - 1]
              /\ named' = named + 1
              /\ UNCHANGED <<phase, args, i>>

\* A line without a colon has no handlers.
StreamsNext(kind) ==
  /\ phase = Streams(kind)
  /\ phase' = IF kind = "receive" THEN Streams("handle") ELSE "lines"
  /\ UNCHANGED <<args, config, i, count, named>>

\* A plausible slip: the receivers are not looked at.
HandlersAssigned(kind) ==
  kind = "handle" => \A t \in DOMAIN config.streams[kind] :
                       config.streams[kind][t] # UNSET

AllAssigned(kind) ==
  \A t \in DOMAIN config.streams[kind] : config.streams[kind][t] # UNSET

StreamsEnd ==
  /\ phase = "lines"
  /\ config' = [config EXCEPT !.stream_count = i]
  /\ phase' = IF i > 0 /\ \A kind \in Kinds : AllAssigned(kind)
              THEN "ready" ELSE "fallback"
  /\ UNCHANGED <<args, i, count, named>>

-----------------------------------------------------------------------------

\* One stream for everybody; arrays that are missing are allocated, or main
\* returns.
Fallback ==
  /\ phase = "fallback"
  /\ named' = 0
  /\ UNCHANGED <<args, i, count>>
  /\ \/ /\ \E kind \in Kinds : config.streams[kind] = NULL
        /\ phase' = "failed"
        /\ UNCHANGED config
     \/ /\ phase' = "ready"
        /\ config' = [config EXCEPT
                        !.stream_count = 1,
                        !.streams = [kind \in Kinds |-> Array(kind, 0)]]

Next ==
  \/ parse_receiver
  \/ AffinityStart
  \/ StreamsStart
  \/ StreamsLine
  \/ StreamsEnd
  \/ Fallback
  \/ \E kind \in Kinds :
       \/ AffinityEnd(kind)
       \/ StreamsNext(kind)
       \/ \E text \in Texts : AffinityChunk(kind, text) \/ StreamsChunk(kind, text)

Spec == Init /\ [][Next]_vars

-----------------------------------------------------------------------------
(* Properties *)

\* Whatever the command line and the files hold, once main goes on every
\* receiver and every handler has a stream that exists.
StreamsAssigned ==
  phase = "ready" =>
    \A kind \in Kinds :
      /\ DOMAIN config.streams[kind] = 0..(config.num[kind] - 1)
      /\ \A t \in DOMAIN config.streams[kind] :
           config.streams[kind][t] \in 0..(config.stream_count - 1)

\* A streams.cfg whose streams are used names every receiver and every
\* handler once and only once.
NamedOnce ==
  phase = "ready" /\ named > 0 =>
    named = config.num["receive"] + config.num["handle"]

\* Affinities are used for all threads or for none: a file that is wrong in
\* any place leaves neither array, nor one with a place that was not read.
AffinitiesBoth ==
  phase \in {"streams", "ready"} =>
    \/ config.affinities = NoArrays
    \/ /\ ~config.sequential
       /\ \A kind \in Kinds :
            /\ config.affinities[kind] # NULL
            /\ \A t \in DOMAIN config.affinities[kind] :
                 config.affinities[kind][t] # UNSET
=============================================================================
