--------------------------- MODULE MCSessionLists ---------------------------
(* An instance of the session lists for TLC: three sessions of one user    *)
(* and one of another, the messages of one session, one client.            *)
EXTENDS SessionListProperties, TLC

CONSTANTS u1, u2

MCOwner == 1 :> u1 @@ 2 :> u1 @@ 3 :> u1 @@ 4 :> u2
MCSessionOf == [m \in Messages |-> 1]
MCReaderUser == [r \in Readers |-> u1]
=============================================================================
