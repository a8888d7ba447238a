---------------------------- MODULE SessionLists ----------------------------
(***************************************************************************)
(* The rows of the sessions and messages tables and the clients that page  *)
(* through them (service/session, dao/session, dao/message): the sessions  *)
(* of a user by last activity, the history of a session by creation time.  *)
(*                                                                         *)
(* Rows are numbered by their ids.  A list is named after the user or the  *)
(* session it belongs to.  A page is one query; between the pages of a     *)
(* client other requests insert rows and move sessions to another place.   *)
(* The time of a row is whatever the clock of the writing process showed   *)
(* when it began to write, so nothing is assumed of its order.             *)
(***************************************************************************)
EXTENDS Naturals, FiniteSets

CONSTANTS
  Users, Sessions, Messages,
  Owner,       \* the user of a session
  SessionOf,   \* the session of a message
  Readers,     \* clients that page through a list
  ReaderUser,  \* the authenticated user of a client
  Times,       \* values of updated_at and created_at
  Limits,      \* page sizes clients ask for, 0 for none given
  DefaultPageSize, MaxPageSize

ASSUME RowAssumption ==
  /\ Sessions \subseteq Nat /\ Messages \subseteq Nat
  /\ Owner \in [Sessions -> Users] /\ SessionOf \in [Messages -> Sessions]
  /\ ReaderUser \in [Readers -> Users]
  /\ Times \subseteq Nat \ {0}

ASSUME PageAssumption ==
  /\ Limits \subseteq Nat
  /\ {DefaultPageSize, MaxPageSize} \subseteq Nat \ {0}

VARIABLES
  at,      \* the time of a row, 0 while it does not exist
  reader   \* per client: its list, cursor, and what it has been sent

vars == <<at, reader>>

Rows == Sessions \cup Messages
ListOf(x) == IF x \in Sessions THEN Owner[x] ELSE SessionOf[x]
Contents(l) == {x \in Rows : at[x] # 0 /\ ListOf(x) = l}

NoCursor == [at |-> 0, id |-> 0]

\* seen: rows sent so far; repeated: rows sent more than once; steady: rows the
\* list held when the client began and nobody has written since.
Opened(l) ==
  [state |-> "paging", list |-> l, cursor |-> NoCursor,
   seen |-> {}, repeated |-> {}, steady |-> Contents(l)]

Idle == [state |-> "idle", steady |-> {}]

Init ==
  /\ at = [x \in Rows |-> 0]
  /\ reader = [r \in Readers |-> Idle]

-----------------------------------------------------------------------------
(* Writes.                                                                 *)

Written(x, t) ==
  /\ at' = [at EXCEPT ![x] = t]
  /\ reader' = [r \in Readers |-> [reader[r] EXCEPT !.steady = @ \ {x}]]

CreateSession(s) == at[s] = 0 /\ \E t \in Times : Written(s, t)

\* A message of an authorized turn, by whichever way it reaches the table.
CreateMessage(m) == at[m] = 0 /\ at[SessionOf[m]] # 0 /\ \E t \in Times : Written(m, t)

\* The end of a successful turn, best effort.
TouchSession(s) == at[s] # 0 /\ \E t \in Times : Written(s, t)

-----------------------------------------------------------------------------
(* Pages.                                                                  *)

NormalizePageLimit(limit) ==
  IF limit < 1 THEN DefaultPageSize ELSE IF limit > MaxPageSize THEN MaxPageSize ELSE limit

Newer(x, y) == at[x] > at[y] \/ (at[x] = at[y] /\ x > y)

\* Mutant: the id does not break ties.
BeforeInTime(x, cursor) == at[x] < cursor.at

\* The condition of the query, if there is a cursor.
Before(x, cursor) == at[x] < cursor.at \/ (at[x] = cursor.at /\ x < cursor.id)

Candidates(l, cursor) ==
  {x \in Contents(l) : cursor.at # 0 => Before(x, cursor)}

\* The first rows of a query that is ordered newest first.
IsPage(page, rows, limit) ==
  /\ page \subseteq rows
  /\ Cardinality(page) = limit \/ (page = rows /\ Cardinality(page) < limit)
  /\ \A x \in page, y \in rows \ page : Newer(x, y)

IsOldest(x, page) == x \in page /\ \A y \in page \ {x} : Newer(y, x)

Sent(q, page, state, cursor) ==
  [q EXCEPT !.state = state, !.cursor = cursor,
            !.seen = @ \cup page, !.repeated = @ \cup (q.seen \cap page)]

\* A page, and the cursor of the next one if the query found a row too many.
SendPage(r, limit) ==
  LET q == reader[r]
      rows == Candidates(q.list, q.cursor)
  IN /\ \E page \in SUBSET rows :
          /\ IsPage(page, rows, NormalizePageLimit(limit))
          /\ \/ page = rows /\ reader' = [reader EXCEPT ![r] = Sent(q, page, "ended", NoCursor)]
             \/ /\ page # rows
                /\ \E x \in page :
                     /\ IsOldest(x, page)
                     /\ reader' = [reader EXCEPT ![r] =
                          Sent(q, page, "paging", [at |-> at[x], id |-> x])]
     /\ UNCHANGED at

\* A client opens a list; it then asks for the first page.
Open(r, l) ==
  /\ reader[r].state = "idle"
  /\ reader' = [reader EXCEPT ![r] = Opened(l)]
  /\ UNCHANGED at

\* GetUserSessionsPageWithContext.
ListSessions(r, limit) ==
  /\ reader[r].state = "paging" /\ reader[r].list = ReaderUser[r]
  /\ SendPage(r, limit)

\* authorizeSession: the session exists and is the client's own.
Authorized(r, s) == at[s] # 0 /\ Owner[s] = ReaderUser[r]

\* GetChatHistoryPageWithContext.
ChatHistory(r, limit) ==
  /\ reader[r].state = "paging" /\ reader[r].list \in Sessions
  /\ Authorized(r, reader[r].list)
  /\ SendPage(r, limit)

Next ==
  \/ \E s \in Sessions : CreateSession(s) \/ TouchSession(s)
  \/ \E m \in Messages : CreateMessage(m)
  \/ \E r \in Readers :
       \/ \E l \in {ReaderUser[r]} \cup Sessions : Open(r, l)
       \/ \E limit \in Limits : ListSessions(r, limit) \/ ChatHistory(r, limit)

Spec == Init /\ [][Next]_vars
=============================================================================
