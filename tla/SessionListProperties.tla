----------------------- MODULE SessionListProperties ------------------------
(* What a client that pages through a list may rely on.                    *)
EXTENDS SessionLists

Reader ==
  [state : {"paging", "ended"}, list : Users \cup Sessions,
   cursor : [at : {0} \cup Times, id : {0} \cup Rows],
   seen : SUBSET Rows, repeated : SUBSET Rows, steady : SUBSET Rows]

\* The type of the tables and of the clients' positions.
TypeOK ==
  /\ at \in [Rows -> {0} \cup Times]
  /\ reader \in [Readers -> {Idle} \cup Reader]

\* Paging by cursor neither skips nor repeats (GetUserSessionsPageWithContext,
\* GetChatHistoryPageWithContext and their queries): whatever is inserted or
\* touched between two pages, and with any number of rows of the same
\* second, a row that stays as it was from the first page on is sent at
\* most once, and has been sent when the server says there is no more.
PagesAreExact ==
  \A r \in Readers : reader[r].state # "idle" =>
    /\ reader[r].steady \cap reader[r].repeated = {}
    /\ reader[r].state = "ended" => reader[r].steady \subseteq reader[r].seen

\* What makes it inductive: of the steady rows, those still to come are exactly
\* the ones not sent yet.
CursorSplits ==
  \A r \in Readers : reader[r].state = "paging" =>
    \A x \in reader[r].steady :
      /\ x \in Contents(reader[r].list)
      /\ x \in Candidates(reader[r].list, reader[r].cursor) <=> x \notin reader[r].seen
=============================================================================
