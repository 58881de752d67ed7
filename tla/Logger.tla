------------------------------- MODULE Logger -------------------------------
(***************************************************************************)
(* The loggers of a process (internal/logger), as far as the goroutines    *)
(* that log can tell: a message is counted in a wait group and put into a  *)
(* buffered channel, whose own goroutine writes it and takes it off the    *)
(* count; Stop waits for the count to be zero and closes the channels.     *)
(*                                                                         *)
(* No message is lost and the writing goroutine always makes room, so that *)
(* a message counts as written at once; which of the three channels it     *)
(* takes makes no difference.  What is left is what happens after Stop.    *)
(***************************************************************************)
CONSTANT Loggers

VARIABLE closed    \* of a logger: its channels are closed

LoggersInit == closed = [l \in Loggers |-> FALSE]

\* InfofKV, ErrorfKV and the others.
Log(l) == ~closed[l] /\ UNCHANGED closed

\* A send on a closed channel panics in the goroutine that logs.
LogPanics(l) == closed[l] /\ UNCHANGED closed

Stop(l) == closed' = [closed EXCEPT ![l] = TRUE]
=============================================================================
