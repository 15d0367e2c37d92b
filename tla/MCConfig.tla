------------------------------ MODULE MCConfig ------------------------------
(* Command lines that differ from a good one in one or two places. *)
EXTENDS Config

CONSTANTS Ports, Threads

Number(n) == [blank |-> FALSE, value |-> n, end |-> ""]

\* What strtol makes of an empty text, of a letter, of a sign, of a number
\* with a letter after it, and of a number too large.
BadTexts ==
  {[blank |-> TRUE, value |-> 0, end |-> ""],
   [blank |-> FALSE, value |-> 0, end |-> "x"],
   [blank |-> FALSE, value |-> 0 - 1, end |-> ""],
   [blank |-> FALSE, value |-> 1, end |-> "x"],
   [blank |-> FALSE, value |-> INT_MAX + 1, end |-> ""]}

Good(N, n, port) ==
  [option |-> "OK", positional |-> 2, format |-> TRUE, ip |-> TRUE,
   sequential |-> FALSE, m |-> Number(5), port |-> Number(port),
   n |-> Number(n), N |-> Number(N), w |-> Number(MAX_WINDOW_SIZE),
   W |-> Number(MAX_WINDOW_SIZE)]

Goods == {Good(N, n, port) : N \in Threads, n \in Threads, port \in Ports}

MCArguments ==
  LET g == Good(1, 1, 5) IN
  Goods
    \cup {[a EXCEPT !.sequential = TRUE] : a \in Goods}
    \cup {[g EXCEPT !.option = o] :
            o \in {"CLI_O_VALUE_MISSING", "CLI_UNKNOWN_OPTION"}}
    \cup {[g EXCEPT !.positional = p] : p \in {0, 1, 3}}
    \cup {[g EXCEPT !.format = FALSE], [g EXCEPT !.ip = FALSE]}
    \cup {[g EXCEPT !.w = Number(MAX_WINDOW_SIZE + 1)]}
    \cup UNION {{[g EXCEPT ![o] = bad] : bad \in BadTexts} :
                  o \in {"m", "port", "n", "N", "w", "W"}}

MCTexts ==
  {Number(0), Number(2), [blank |-> FALSE, value |-> 1, end |-> "\n"],
   [blank |-> TRUE, value |-> 0, end |-> "\n"]}
=============================================================================
