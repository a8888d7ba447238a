-------------------------- MODULE SessionListProofs -------------------------
(***************************************************************************)
(* PagesAreExact for any number of users, sessions, messages and clients,  *)
(* any times and any page sizes.  It is not inductive: that a row was not  *)
(* sent twice follows from where the cursor stands, which CursorSplits     *)
(* states.  A write takes the row it moves out of the steady rows of every *)
(* client; a page moves the cursor to its oldest row, which is newer than  *)
(* all that is left and older than all that was sent.                      *)
(***************************************************************************)
EXTENDS SessionListProperties, TLAPS

IInv == TypeOK /\ CursorSplits /\ PagesAreExact

\* A client that has opened a list is a record with all its fields.
LEMMA OpenReader ==
  ASSUME TypeOK, NEW r \in Readers, reader[r].state # "idle"
  PROVE  reader[r] \in Reader
  BY DEF TypeOK, Idle

\* Times and ids are numbers, so rows and cursors can be compared.
LEMMA RowsAreNumbers ==
  ASSUME TypeOK
  PROVE  /\ Rows \subseteq Nat
         /\ \A x \in Rows : at[x] \in Nat /\ at[x] \in {0} \cup Times
         /\ \A r \in Readers : reader[r].state # "idle" =>
              reader[r].cursor.at \in Nat /\ reader[r].cursor.id \in Nat
  <1>1. Rows \subseteq Nat /\ {0} \cup Times \subseteq Nat
    BY RowAssumption DEF Rows
  <1>2. \A x \in Rows : at[x] \in {0} \cup Times
    BY DEF TypeOK
  <1>3. ASSUME NEW r \in Readers, reader[r].state # "idle"
        PROVE  reader[r].cursor.at \in Nat /\ reader[r].cursor.id \in Nat
    <2>1. reader[r].cursor \in [at : {0} \cup Times, id : {0} \cup Rows]
      BY <1>3, OpenReader DEF Reader
    <2> QED BY <2>1, <1>1
  <1> QED BY <1>1, <1>2, <1>3

\* The initial state: no rows, nobody pages.
LEMMA InitInv == Init => IInv
  <1> SUFFICES ASSUME Init PROVE IInv
    OBVIOUS
  <1>1. TypeOK
    BY DEF Init, TypeOK
  <1>2. \A r \in Readers : reader[r].state = "idle"
    BY DEF Init, Idle
  <1> QED BY <1>1, <1>2 DEF IInv, CursorSplits, PagesAreExact

\* A write (CreateSession, CreateMessageWithContext, TouchOwnedSession) leaves
\* the steady rows of every client where they were.
LEMMA WriteKeeps ==
  ASSUME IInv, NEW x \in Rows, NEW t \in Times, Written(x, t)
  PROVE  IInv'
  <1> USE DEF IInv
  <1>1. at' \in [Rows -> {0} \cup Times] /\ \A y \in Rows \ {x} : at'[y] = at[y]
    BY DEF Written, TypeOK
  <1>2. ASSUME NEW r \in Readers
        PROVE  reader'[r] = [reader[r] EXCEPT !.steady = @ \ {x}]
    BY <1>2 DEF Written
  <1>3. ASSUME NEW r \in Readers, reader[r].state = "idle"
        PROVE  reader'[r] = Idle
    <2>1. reader[r] = Idle
      BY <1>3 DEF TypeOK, Reader
    <2> QED BY <2>1, <1>2 DEF Idle
  <1>4. ASSUME NEW r \in Readers, reader[r].state # "idle"
        PROVE  /\ reader'[r] \in Reader
               /\ reader'[r].state = reader[r].state /\ reader'[r].list = reader[r].list
               /\ reader'[r].cursor = reader[r].cursor /\ reader'[r].seen = reader[r].seen
               /\ reader'[r].repeated = reader[r].repeated
               /\ reader'[r].steady = reader[r].steady \ {x}
    <2>1. reader[r] \in Reader
      BY <1>4, OpenReader
    <2>2. reader'[r] = [reader[r] EXCEPT !.steady = @ \ {x}]
      BY <1>2
    <2>3. [reader[r] EXCEPT !.steady = reader[r].steady \ {x}] \in Reader
      BY <2>1 DEF Reader
    <2> QED BY <2>1, <2>2, <2>3 DEF Reader
  <1>5. TypeOK'
    <2>1. DOMAIN reader' = Readers /\ reader' = [r \in Readers |-> reader'[r]]
      BY DEF Written
    <2>2. \A r \in Readers : reader'[r] \in {Idle} \cup Reader
      BY <1>3, <1>4
    <2> QED BY <1>1, <2>1, <2>2 DEF TypeOK
  <1>6. CursorSplits'
    <2> SUFFICES ASSUME NEW r \in Readers, reader'[r].state = "paging", NEW y \in reader'[r].steady
                 PROVE  /\ y \in Contents(reader[r].list)'
                        /\ y \in Candidates(reader[r].list, reader[r].cursor)' <=> y \notin reader'[r].seen
      BY DEF CursorSplits
    <2>1. reader[r].state = "paging" /\ reader[r].state # "idle"
      BY <1>3, <1>4 DEF Idle
    <2>2. y \in reader[r].steady /\ y # x
      BY <1>4, <2>1
    <2>3. /\ y \in Contents(reader[r].list)
          /\ y \in Candidates(reader[r].list, reader[r].cursor) <=> y \notin reader[r].seen
      BY <2>1, <2>2 DEF CursorSplits
    <2>4. y \in Rows /\ at'[y] = at[y]
      BY <2>2, <2>3, <1>1 DEF Contents
    <2> QED BY <2>1, <2>3, <2>4, <1>4 DEF Contents, Candidates, Before
  <1>7. PagesAreExact'
    <2> SUFFICES ASSUME NEW r \in Readers, reader'[r].state # "idle"
                 PROVE  /\ reader'[r].steady \cap reader'[r].repeated = {}
                        /\ reader'[r].state = "ended" => reader'[r].steady \subseteq reader'[r].seen
      BY DEF PagesAreExact
    <2>1. reader[r].state # "idle"
      BY <1>3 DEF Idle
    <2> QED BY <2>1, <1>4 DEF PagesAreExact
  <1> QED BY <1>5, <1>6, <1>7

\* A page sends no steady row again, and the cursor it leaves divides them anew.
LEMMA PageKeeps ==
  ASSUME IInv, NEW r \in Readers, reader[r].state = "paging", NEW limit \in Limits, SendPage(r, limit)
  PROVE  IInv'
  <1> USE DEF IInv
  <1> DEFINE q == reader[r]
             rows == Candidates(q.list, q.cursor)
  <1>1. q \in Reader /\ q.state # "idle" /\ at' = at
    BY OpenReader DEF SendPage
  <1>2. PICK page \in SUBSET rows :
          /\ IsPage(page, rows, NormalizePageLimit(limit))
          /\ \/ page = rows /\ reader' = [reader EXCEPT ![r] = Sent(q, page, "ended", NoCursor)]
             \/ /\ page # rows
                /\ \E x \in page :
                     /\ IsOldest(x, page)
                     /\ reader' = [reader EXCEPT ![r] =
                          Sent(q, page, "paging", [at |-> at[x], id |-> x])]
    BY DEF SendPage
  <1>3. rows \subseteq Rows /\ rows \subseteq Contents(q.list)
    BY DEF Candidates, Contents
  <1>4. PICK cursor \in [at : {0} \cup Times, id : {0} \cup Rows], state \in {"paging", "ended"} :
          /\ reader' = [reader EXCEPT ![r] = Sent(q, page, state, cursor)]
          /\ state = "ended" => page = rows
          /\ state = "paging" => /\ page # rows /\ IsOldest(cursor.id, page)
                                 /\ cursor.at = at[cursor.id]
    <2>1. CASE page = rows /\ reader' = [reader EXCEPT ![r] = Sent(q, page, "ended", NoCursor)]
      BY <2>1 DEF NoCursor
    <2>2. CASE /\ page # rows
               /\ \E x \in page :
                    /\ IsOldest(x, page)
                    /\ reader' = [reader EXCEPT ![r] =
                         Sent(q, page, "paging", [at |-> at[x], id |-> x])]
      <3>1. PICK x \in page :
              /\ IsOldest(x, page)
              /\ reader' = [reader EXCEPT ![r] = Sent(q, page, "paging", [at |-> at[x], id |-> x])]
        BY <2>2
      <3>2. x \in Rows /\ at[x] \in {0} \cup Times
        BY <1>3, RowsAreNumbers
      <3> DEFINE c == [at |-> at[x], id |-> x]
      <3>3. c \in [at : {0} \cup Times, id : {0} \cup Rows] /\ c.id = x /\ c.at = at[x]
        BY <3>2
      <3> HIDE DEF c
      <3> QED BY <2>2, <3>1, <3>3 DEF c
    <2> QED BY <1>2, <2>1, <2>2
  <1>5. /\ reader'[r] \in Reader
        /\ reader'[r].state = state /\ reader'[r].list = q.list /\ reader'[r].cursor = cursor
        /\ reader'[r].seen = q.seen \cup page /\ reader'[r].steady = q.steady
        /\ reader'[r].repeated = q.repeated \cup (q.seen \cap page)
    <2>1. reader'[r] = Sent(q, page, state, cursor)
      BY <1>4 DEF TypeOK
    <2>2. page \subseteq Rows
      BY <1>3
    <2> QED BY <2>1, <2>2, <1>1 DEF Sent, Reader
  <1>6. \A o \in Readers \ {r} : reader'[o] = reader[o]
    BY <1>4 DEF TypeOK
  <1>7. TypeOK'
    <2>1. \A o \in Readers : reader'[o] \in {Idle} \cup Reader
      BY <1>5, <1>6 DEF TypeOK
    <2>2. reader' = [o \in Readers |-> reader'[o]]
      BY <1>4 DEF TypeOK
    <2> QED BY <2>1, <2>2, <1>1 DEF TypeOK
  <1>8. ASSUME NEW x \in q.steady
        PROVE  /\ x \in Contents(q.list) /\ x \in Rows
               /\ x \in rows <=> x \notin q.seen
    BY <1>8 DEF CursorSplits, Contents
  <1>9. ASSUME NEW x \in q.steady, state = "paging"
        PROVE  x \in Candidates(q.list, cursor) <=> x \notin q.seen \cup page
    <2> DEFINE o == cursor.id
    <2>1. o \in page /\ (\A y \in page \ {o} : Newer(y, o)) /\ cursor.at = at[o]
      BY <1>4, <1>9 DEF IsOldest
    <2>2. o \in rows /\ o \in Rows /\ at[o] # 0
      BY <2>1, <1>3 DEF Contents
    <2>3. /\ at[x] \in Nat /\ at[o] \in Nat /\ x \in Nat /\ o \in Nat
          /\ q.cursor.at \in Nat /\ q.cursor.id \in Nat
      BY <1>1, <1>8, <2>2, RowsAreNumbers
    <2>4. x \in Candidates(q.list, cursor) <=> Before(x, cursor)
      BY <2>1, <2>2, <1>8 DEF Candidates
    <2>5. Before(x, cursor) <=> at[x] < at[o] \/ (at[x] = at[o] /\ x < o)
      BY <2>1 DEF Before
    <2>6. CASE x \in page
      <3>1. x = o \/ Newer(x, o)
        BY <2>1, <2>6
      <3>2. ~(at[x] < at[o] \/ (at[x] = at[o] /\ x < o))
        BY <3>1, <2>3 DEF Newer
      <3> QED BY <3>2, <2>4, <2>5, <2>6
    <2>7. CASE x \in rows \ page
      <3>1. Newer(o, x)
        BY <1>2, <2>1, <2>7 DEF IsPage
      <3>2. at[x] < at[o] \/ (at[x] = at[o] /\ x < o)
        BY <3>1, <2>3 DEF Newer
      <3> QED BY <3>2, <2>4, <2>5, <2>7, <1>8
    <2>8. CASE x \notin rows
      <3>1. q.cursor.at # 0 /\ ~Before(x, q.cursor)
        BY <2>8, <1>8 DEF Candidates
      <3>2. Before(o, q.cursor)
        BY <2>2, <3>1 DEF Candidates
      <3>3. ~(at[x] < at[o] \/ (at[x] = at[o] /\ x < o))
        BY <3>1, <3>2, <2>3 DEF Before
      <3> QED BY <3>3, <2>4, <2>5, <2>8, <1>8
    <2> QED BY <2>6, <2>7, <2>8
  <1>10. CursorSplits'
    <2> SUFFICES ASSUME NEW p \in Readers, reader'[p].state = "paging", NEW x \in reader'[p].steady
                 PROVE  /\ x \in Contents(reader[p].list)'
                        /\ x \in Candidates(reader[p].list, reader[p].cursor)' <=> x \notin reader'[p].seen
      BY DEF CursorSplits
    <2>1. CASE p = r
      <3>1. state = "paging" /\ x \in q.steady
        BY <2>1, <1>5
      <3>2. x \in Contents(q.list) /\ (x \in Candidates(q.list, cursor) <=> x \notin q.seen \cup page)
        BY <3>1, <1>8, <1>9
      <3> QED BY <3>2, <2>1, <1>1, <1>5 DEF Contents, Candidates, Before
    <2>2. CASE p # r
      BY <2>2, <1>1, <1>6 DEF CursorSplits, Contents, Candidates, Before
    <2> QED BY <2>1, <2>2
  <1>11. PagesAreExact'
    <2> SUFFICES ASSUME NEW p \in Readers, reader'[p].state # "idle"
                 PROVE  /\ reader'[p].steady \cap reader'[p].repeated = {}
                        /\ reader'[p].state = "ended" => reader'[p].steady \subseteq reader'[p].seen
      BY DEF PagesAreExact
    <2>1. CASE p = r
      <3>1. q.steady \cap q.repeated = {}
        BY <1>1 DEF PagesAreExact
      <3>2. q.steady \cap (q.seen \cap page) = {}
        BY <1>8
      <3>3. state = "ended" => q.steady \subseteq q.seen \cup page
        BY <1>4, <1>8
      <3> QED BY <3>1, <3>2, <3>3, <2>1, <1>5
    <2>2. CASE p # r
      BY <2>2, <1>6 DEF PagesAreExact
    <2> QED BY <2>1, <2>2
  <1> QED BY <1>7, <1>10, <1>11

\* A client that opens a list has been sent nothing and has everything to come.
LEMMA OpenKeeps ==
  ASSUME IInv, NEW r \in Readers, NEW l \in Users \cup Sessions, Open(r, l)
  PROVE  IInv'
  <1> USE DEF IInv
  <1>1. at' = at /\ reader' = [reader EXCEPT ![r] = Opened(l)]
    BY DEF Open
  <1>2. reader'[r] = Opened(l) /\ \A o \in Readers \ {r} : reader'[o] = reader[o]
    BY <1>1 DEF TypeOK
  <1>3. Opened(l) \in Reader
    BY DEF Opened, Reader, NoCursor, Contents
  <1>4. TypeOK'
    <2>1. \A o \in Readers : reader'[o] \in {Idle} \cup Reader
      BY <1>2, <1>3 DEF TypeOK
    <2>2. reader' = [o \in Readers |-> reader'[o]]
      BY <1>1 DEF TypeOK
    <2> QED BY <2>1, <2>2, <1>1 DEF TypeOK
  <1>5. CursorSplits'
    <2> SUFFICES ASSUME NEW p \in Readers, reader'[p].state = "paging", NEW x \in reader'[p].steady
                 PROVE  /\ x \in Contents(reader[p].list)'
                        /\ x \in Candidates(reader[p].list, reader[p].cursor)' <=> x \notin reader'[p].seen
      BY DEF CursorSplits
    <2>1. CASE p = r
      BY <2>1, <1>1, <1>2 DEF Opened, NoCursor, Contents, Candidates
    <2>2. CASE p # r
      BY <2>2, <1>1, <1>2 DEF CursorSplits, Contents, Candidates, Before
    <2> QED BY <2>1, <2>2
  <1>6. PagesAreExact'
    <2>1. ASSUME NEW p \in Readers, p # r, reader'[p].state # "idle"
          PROVE  /\ reader'[p].steady \cap reader'[p].repeated = {}
                 /\ reader'[p].state = "ended" => reader'[p].steady \subseteq reader'[p].seen
      BY <2>1, <1>2 DEF PagesAreExact
    <2>2. reader'[r].steady \cap reader'[r].repeated = {} /\ reader'[r].state = "paging"
      BY <1>2 DEF Opened
    <2> QED BY <2>1, <2>2 DEF PagesAreExact
  <1> QED BY <1>4, <1>5, <1>6

\* Every step of the system keeps the invariant.
LEMMA NextKeeps == IInv /\ [Next]_vars => IInv'
  <1> SUFFICES ASSUME IInv, [Next]_vars PROVE IInv'
    OBVIOUS
  <1>1. CASE UNCHANGED vars
    BY <1>1 DEF vars, IInv, TypeOK, CursorSplits, PagesAreExact, Contents, Candidates, Before
  <1>2. ASSUME NEW s \in Sessions, CreateSession(s) \/ TouchSession(s) PROVE IInv'
    BY <1>2, WriteKeeps DEF CreateSession, TouchSession, Rows
  <1>3. ASSUME NEW m \in Messages, CreateMessage(m) PROVE IInv'
    BY <1>3, WriteKeeps DEF CreateMessage, Rows
  <1>4. ASSUME NEW r \in Readers, NEW l \in {ReaderUser[r]} \cup Sessions, Open(r, l) PROVE IInv'
    <2>1. l \in Users \cup Sessions
      BY RowAssumption
    <2> QED BY <2>1, <1>4, OpenKeeps
  <1>5. ASSUME NEW r \in Readers, NEW limit \in Limits, ListSessions(r, limit) \/ ChatHistory(r, limit)
        PROVE  IInv'
    BY <1>5, PageKeeps DEF ListSessions, ChatHistory
  <1> QED BY <1>1, <1>2, <1>3, <1>4, <1>5 DEF Next

\* Paging by cursor neither skips nor repeats a row that stays as it was, for
\* all tables, clients, clocks and page sizes (the queries of dao/session and
\* dao/message with the cursors of service/session).
THEOREM PagingIsExact == Spec => []PagesAreExact
  <1>1. IInv => PagesAreExact
    BY DEF IInv
  <1> QED BY InitInv, NextKeeps, <1>1, PTL DEF Spec
=============================================================================
