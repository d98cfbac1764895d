--------------------------- MODULE MCEventStream ---------------------------
(***************************************************************************)
(* Instances of EventStream for TLC: two clients that read one source's    *)
(* events, one client over a restart of the server, and two sources that   *)
(* post and retry over a restart with nobody reading.                      *)
(***************************************************************************)
EXTENDS EventStream, TLC

CONSTANTS engine, dsh, c1, c2

OneSource == {engine}
TwoSources == {engine, dsh}
OneClient == {c1}
TwoClients == {c1, c2}
NoClients == {}

Resuming == INSTANCE EventStream WITH Clients <- OneClient, OwnIds <- {FALSE}, MaxEvents <- 2,
                                             MaxRestarts <- 1

Posting == INSTANCE EventStream WITH
    Sources <- TwoSources, MaxEvents <- 3, MaxTries <- 2, OwnIds <- {TRUE}, Clients <- NoClients,
    RingSize <- 1, QueryLimit <- 1, MaxRestarts <- 1

\* The instance is told by its clients.
MCInit == Init \/ Resuming!Init \/ Posting!Init
MCNext == \/ DOMAIN pc = TwoClients /\ Next
          \/ DOMAIN pc = OneClient /\ Resuming!Next
          \/ DOMAIN pc = NoClients /\ Posting!Next
MCSpec == MCInit /\ [][MCNext]_vars

\* Clients are interchangeable, and so are the two sources; an instance with
\* one of them reaches no state with the other.
Symmetry == Permutations(TwoClients) \cup Permutations(TwoSources)
=============================================================================
