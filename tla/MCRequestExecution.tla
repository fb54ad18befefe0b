------------------------- MODULE MCRequestExecution -------------------------
EXTENDS RequestExecution, TLC

\* All requests belong to one thread.
SameThread == [r \in Requests |-> "thread"]
=============================================================================
