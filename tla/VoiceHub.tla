------------------------------ MODULE VoiceHub ------------------------------
(***************************************************************************)
(* The registry of live voice connections (service/voiceconversation).     *)
(* Channels are numbered as Register makes them; channel 0 is the closed   *)
(* one NewHub starts with.                                                 *)
(***************************************************************************)
EXTENDS Naturals, FiniteSets

CONSTANTS
  Conns,       \* voice requests, each served once
  UserOf,      \* the authenticated user of a request
  MaxGlobal, MaxPerUser

ASSUME HubAssumption == {MaxGlobal, MaxPerUser} \subseteq Nat \ {0} /\ DOMAIN UserOf = Conns

VARIABLES
  draining,  \* Hub.draining
  cancels,   \* the connections with a cancel function in Hub.cancels
  byUser,    \* Hub.byUser
  empty,     \* the channel in Hub.empty
  closed     \* the channels that were closed

hubVars == <<draining, cancels, byUser, empty, closed>>

Users == {UserOf[c] : c \in Conns}

HubInit ==
  /\ draining = FALSE
  /\ cancels = {}
  /\ byUser = [u \in Users |-> 0]
  /\ empty = 0
  /\ closed = {0}

Accepting == ~draining

AtCapacity(u) == Cardinality(cancels) >= MaxGlobal \/ byUser[u] >= MaxPerUser

\* Mutant: the drain is not looked at.
RegisterDraining(c) ==
  /\ ~AtCapacity(UserOf[c])
  /\ empty' = IF cancels = {} THEN empty + 1 ELSE empty
  /\ cancels' = cancels \cup {c}
  /\ byUser' = [byUser EXCEPT ![UserOf[c]] = @ + 1]
  /\ UNCHANGED <<draining, closed>>

Register(c) ==
  /\ ~draining /\ ~AtCapacity(UserOf[c])
  /\ empty' = IF cancels = {} THEN empty + 1 ELSE empty
  /\ cancels' = cancels \cup {c}
  /\ byUser' = [byUser EXCEPT ![UserOf[c]] = @ + 1]
  /\ UNCHANGED <<draining, closed>>

\* The function Register returns.
Release(c) ==
  /\ cancels' = cancels \ {c}
  /\ byUser' = [byUser EXCEPT ![UserOf[c]] = @ - 1]
  /\ closed' = IF cancels = {c} THEN closed \cup {empty} ELSE closed
  /\ UNCHANGED <<draining, empty>>

\* BeginDrain up to the unlock; its caller runs the cancel functions.
BeginDrain == draining' = TRUE /\ UNCHANGED <<cancels, byUser, empty, closed>>
=============================================================================
