-------------------------- MODULE MCRegistryClients --------------------------
(* Constants for checking RegistryClients with TLC. *)
EXTENDS RegistryClients, TLC

\* Sessions, callbacks and keys are interchangeable.
MCSymmetry == Permutations(Session) \cup Permutations(Key)

\* One RTSP, one SRT and one WHIP connection.
MCSource == [i \in Ingests |-> i]

\* Every callback registered under an id of its own.
MCDistinctIds == [c \in Callback |-> c]

\* Every HttpServer counts its HTTP-FLV players from 1: the first player of the
\* port 8080 and the first of the port 1985 have the same id.
MCCollidingIds == [c \in Callback |-> 1]

=============================================================================
